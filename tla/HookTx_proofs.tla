---------------------------- MODULE HookTx_proofs ----------------------------
(***************************************************************************)
(* Proofs about HookTx for every number of threads, stages and hooks.      *)
(***************************************************************************)
EXTENDS HookTx, FiniteSetTheorems, TLAPS

USE DEF Stages, Running, Self, Plan

(***************************************************************************)
(* Facts about the constants and the operators.                            *)
(***************************************************************************)

\* What StageAssumption says of the stage in hand.
LEMMA StageFacts ==
    ASSUME NEW j \in Stages
    PROVE  /\ Stage[j].self \in Thread
           /\ Stage[j].hooks \in Seq(HookType)
           /\ Stage[j].tries \in Nat \ {0}
           /\ Stage[j].early \in BOOLEAN /\ Stage[j].stops \in BOOLEAN
           /\ Len(Stage[j].hooks) \in Nat
           /\ \A l \in 1..Len(Stage[j].hooks) :
                 Stage[j].hooks[l] \in HookType /\ Cells(Stage[j].hooks[l]) \subseteq Addr
<1>1. Stage[j] \in StageType  BY StageAssumption
<1>2. Stage[j].hooks \in Seq(HookType)  BY <1>1 DEF StageType
<1>3. Len(Stage[j].hooks) \in Nat
      /\ \A l \in 1..Len(Stage[j].hooks) : Stage[j].hooks[l] \in HookType
  BY <1>2
<1>4. \A l \in 1..Len(Stage[j].hooks) : Cells(Stage[j].hooks[l]) \subseteq Addr
  BY StageAssumption
<1>5. /\ Stage[j].self \in Thread /\ Stage[j].tries \in Nat \ {0}
      /\ Stage[j].early \in BOOLEAN /\ Stage[j].stops \in BOOLEAN
  BY <1>1 DEF StageType
<1> QED  BY <1>2, <1>3, <1>4, <1>5

\* The fields of a hook.
LEMMA HookFacts ==
    ASSUME NEW h \in HookType
    PROVE  /\ h.start \in Nat /\ h.start \in Addr
           /\ h.len \in Nat /\ h.len > 0
           /\ h.expects \in {"original", "patched"}
           /\ h.start \in Cells(h)
<1>1. /\ h.start \in Addr /\ h.len \in Nat \ {0}
      /\ h.expects \in {"original", "patched"}
  BY DEF HookType
<1>2. h.start \in Nat  BY <1>1, AddrAssumption DEF AddrAssumption
<1>4. h.len \in Nat /\ h.len > 0  BY <1>1
<1>3. h.start \in Cells(h)  BY <1>2, <1>4 DEF Cells
<1> QED  BY <1>1, <1>2, <1>3, <1>4

\* An element of a sequence.
LEMMA ElementOfSeq ==
    ASSUME NEW S, NEW s \in Seq(S), NEW c \in 1..Len(s)
    PROVE  s[c] \in S
  OBVIOUS

\* Ranges that do not overlap have no byte in common.
LEMMA DisjointCells ==
    ASSUME NEW g, NEW h, g.start \in Nat, g.len \in Nat, h.start \in Nat, h.len \in Nat,
           ~Overlap(g, h), NEW a, a \in Cells(g)
    PROVE  a \notin Cells(h)
  BY DEF Overlap, Cells

\* Filling a hook's bytes changes only these.
LEMMA FillFacts ==
    ASSUME NEW h \in HookType, Cells(h) \subseteq Addr,
           NEW v \in {"original", "patched", "foreign"},
           mem \in [Addr \cup {Slot} -> {"original", "patched", "foreign"}]
    PROVE  /\ Fill(h, v) \in [Addr \cup {Slot} -> {"original", "patched", "foreign"}]
           /\ \A a \in Cells(h) : Fill(h, v)[a] = v
           /\ \A a \in (Addr \cup {Slot}) \ Cells(h) : Fill(h, v)[a] = mem[a]
  BY DEF Fill

(***************************************************************************)
(* Type correctness.                                                       *)
(***************************************************************************)

\* The state after Finish(result) for the stage in hand.
LEMMA FinishType ==
    ASSUME TypeOK, Running, NEW result \in Outcome, Finish(result)
    PROVE  /\ outcome' \in [Stages -> Outcome]
           /\ k' \in 1..(Len(Stage) + 1)
           /\ pc' \in Pcs
  <1>1. Len(Stage) \in Nat  BY StageAssumption
  <1> QED  BY <1>1, StageFacts DEF TypeOK, Finish, Pcs

LEMMA TryFailedType ==
    ASSUME TypeOK, Running, NEW why \in Outcome, TryFailed(why)
    PROVE  /\ outcome' \in [Stages -> Outcome]
           /\ k' \in 1..(Len(Stage) + 1)
           /\ pc' \in Pcs
  BY FinishType DEF TypeOK, TryFailed, Pcs

LEMMA TypeStep == TypeOK /\ ProgressHolds /\ [Next]_vars => TypeOK'
<1> SUFFICES ASSUME TypeOK, ProgressHolds, [Next]_vars PROVE TypeOK'
  OBVIOUS
<1> USE DEF TypeOK, ProgressHolds, Active, code, peers, local, book, Pcs, Outcome
<1>l. Len(Stage) \in Nat  BY StageAssumption
<1>o. {"refused", "failed", "busy", "on"} \subseteq Outcome  OBVIOUS
<1>1. CASE ReadSlot  BY <1>1 DEF ReadSlot
<1>2. CASE SwapSlot
  <2>1. Append(claims, [start |-> Slot, len |-> 1]) \in Seq([start : Nat, len : Nat])
    BY AddrAssumption
  <2> QED  BY <1>2, <2>1 DEF SwapSlot
<1>3. CASE SkipStage  BY <1>3, <1>l DEF SkipStage
<1>4. CASE Prepare
  <2>1. CASE Acceptable(Plan) /\ pc' = "snapshot" /\ UNCHANGED <<k, outcome>>
    BY <1>4, <2>1 DEF Prepare
  <2>2. CASE Finish("refused")
    BY <1>4, <2>2, FinishType DEF Prepare
  <2> QED  BY <1>4, <2>1, <2>2 DEF Prepare
<1>5. CASE Snapshot
  <2>1. tried' \in [Stages -> Nat] /\ \A j \in Stages : tried'[j] <= Stage[j].tries
    <3>1. Running /\ tried[k] \in Nat /\ tried[k] < Stage[k].tries  BY <1>5 DEF Snapshot
    <3>2. Stage[k].tries \in Nat  BY <3>1, StageFacts
    <3>3. tried' = [tried EXCEPT ![k] = @ + 1]  BY <1>5 DEF Snapshot
    <3>4. tried[k] + 1 \in Nat /\ tried[k] + 1 <= Stage[k].tries  BY <3>1, <3>2
    <3> QED  BY <3>1, <3>3, <3>4
  <2>2. CASE TryFailed("failed") /\ UNCHANGED toOpen
    BY <1>5, <2>1, <2>2, TryFailedType DEF Snapshot
  <2>3. CASE toOpen' = alive \ {Self} /\ pc' = "open" /\ UNCHANGED <<k, outcome>>
    BY <1>5, <2>1, <2>3 DEF Snapshot
  <2> QED  BY <1>5, <2>2, <2>3 DEF Snapshot
<1>6. CASE OpenThread
  <2>1. CASE TryFailed("failed") /\ UNCHANGED tried /\ toOpen' = {} /\ opened' = {}
    BY <1>6, <2>1, TryFailedType DEF OpenThread
  <2>2. CASE UNCHANGED <<pc, book>>
    BY <1>6, <2>2 DEF OpenThread
  <2> QED  BY <1>6, <2>1, <2>2 DEF OpenThread
<1>7. CASE AllOpen  BY <1>7 DEF AllOpen
<1>8. CASE SuspendThread  BY <1>8 DEF SuspendThread, GiveUp
<1>9. CASE AllSuspended  BY <1>9 DEF AllSuspended
<1>10. CASE WriteHook
  <2>1. CASE mem' = Fill(Plan[i], "patched") /\ i' = i + 1 /\ UNCHANGED <<pc, ok, outcome>>
    <3>1. Plan[i] \in HookType /\ Cells(Plan[i]) \subseteq Addr
      BY <1>10, StageFacts DEF WriteHook
    <3>2. mem' \in [Addr \cup {Slot} -> {"original", "patched", "foreign"}]
      BY <2>1, <3>1, FillFacts
    <3>3. i' \in Nat  BY <2>1
    <3>4. missed' = [missed EXCEPT ![k] = @ \cup StillRunning] /\ Running
      BY <1>10, <2>1 DEF WriteHook, GiveUp
    <3>5. missed[k] \cup StillRunning \in SUBSET Thread  BY <3>4 DEF StillRunning
    <3>6. missed' \in [Stages -> SUBSET Thread]  BY <3>4, <3>5
    <3> QED  BY <1>10, <2>1, <3>2, <3>3, <3>6 DEF WriteHook
  <2>2. CASE GiveUp("failed") /\ pc' = "undo" /\ UNCHANGED <<mem, i>>
    BY <1>10, <2>2 DEF WriteHook, GiveUp
  <2> QED  BY <1>10, <2>1, <2>2 DEF WriteHook
<1>11. CASE UndoHook
  <2>1. CASE i > 1
    <3>1. Plan[i - 1] \in HookType /\ Cells(Plan[i - 1]) \subseteq Addr
      <4>1. Running /\ i \in 1..Len(Plan)  BY <1>11 DEF UndoHook
      <4>2. i - 1 \in 1..Len(Plan)  BY <4>1, <2>1, StageFacts
      <4> QED  BY <4>1, <4>2, StageFacts
    <3>2. Plan[i - 1].expects \in {"original", "patched"}  BY <3>1, HookFacts
    <3>3. mem' = Fill(Plan[i - 1], Plan[i - 1].expects) /\ i' = i - 1
      BY <1>11, <2>1 DEF UndoHook
    <3>4. mem' \in [Addr \cup {Slot} -> {"original", "patched", "foreign"}]
      BY <3>1, <3>2, <3>3, FillFacts
    <3>5. i' \in Nat  BY <2>1, <3>3
    <3> QED  BY <1>11, <2>1, <3>4, <3>5 DEF UndoHook
  <2>2. CASE ~(i > 1)  BY <1>11, <2>2 DEF UndoHook
  <2> QED  BY <2>1, <2>2
<1>12. CASE ClaimAll
  <2>1. ClaimsOf(Plan) \in Seq([start : Nat, len : Nat])
    <3>1. Running  BY <1>12 DEF ClaimAll
    <3>2. \A j \in 1..Len(Plan) : [start |-> Plan[j].start, len |-> Plan[j].len] \in [start : Nat, len : Nat]
      BY <3>1, StageFacts, HookFacts
    <3>3. Len(Plan) \in Nat  BY <3>1, StageFacts
    <3> QED  BY <3>2, <3>3 DEF ClaimsOf
  <2> QED  BY <1>12, <2>1 DEF ClaimAll
<1>13. CASE ResumeThread  BY <1>13 DEF ResumeThread
<1>14. CASE EndTry
  <2>1. Running /\ outcome[k] \in Outcome  BY <1>14 DEF EndTry
  <2>2. CASE ok  BY <1>14, <2>1, <2>2, FinishType DEF EndTry
  <2>3. CASE ~ok  BY <1>14, <2>1, <2>3, TryFailedType DEF EndTry
  <2> QED  BY <2>2, <2>3
<1>15. CASE Retry  BY <1>15 DEF Retry
<1>16. CASE \E t \in Thread : Enter(t)
  <2>1. \A h \in Prologue : h.start \in Addr
    <3>1. \A h \in Prologue : h \in HookType  BY StageFacts DEF Prologue
    <3> QED  BY <3>1, HookFacts
  <2> QED  BY <1>16, <2>1 DEF Enter
<1>17. CASE \E t \in Thread : Advance(t)
  <2>1. \A h \in Prologue : Cells(h) \subseteq Addr  BY StageFacts DEF Prologue
  <2> QED  BY <1>17, <2>1 DEF Advance
<1>18. CASE \E t \in Thread : ThreadExit(t)  BY <1>18 DEF ThreadExit
<1>19. CASE \E t \in Thread : ThreadStart(t)  BY <1>19 DEF ThreadStart
<1>20. CASE \E a \in ForeignAddr : ForeignPatch(a)  BY <1>20, BoundAssumption DEF ForeignPatch
<1>21. CASE UNCHANGED vars  BY <1>21 DEF vars
<1> QED  BY <1>1, <1>2, <1>3, <1>4, <1>5, <1>6, <1>7, <1>8, <1>9, <1>10, <1>11, <1>12,
            <1>13, <1>14, <1>15, <1>16, <1>17, <1>18, <1>19, <1>20, <1>21
         DEF Next, Step, Others

(***************************************************************************)
(* Stages, tries and indices.                                              *)
(***************************************************************************)

LEMMA FinishProgress ==
    ASSUME TypeOK, ProgressHolds, Running, NEW result, Finish(result),
           \A j \in Stages : j > k => tried'[j] = 0
    PROVE  ProgressHolds'
<1>1. Len(Stage) \in Nat  BY StageAssumption
<1>2. pc' = "next" /\ k' \in Nat /\ k' > k
  BY <1>1 DEF Finish, TypeOK
<1>3. k \in Nat  BY <1>1 DEF TypeOK
<1>4. \A j \in Stages : j > k' \/ j = k' => j > k
  BY <1>1, <1>2, <1>3
<1> QED  BY <1>2, <1>4 DEF ProgressHolds, Active

LEMMA TryFailedProgress ==
    ASSUME TypeOK, ProgressHolds, Running, NEW why, TryFailed(why),
           \A j \in Stages : j > k => tried'[j] = 0
    PROVE  ProgressHolds'
<1>1. CASE tried'[k] < Stage[k].tries
  BY <1>1 DEF TryFailed, ProgressHolds, Active
<1>2. CASE ~(tried'[k] < Stage[k].tries)
  BY <1>2, FinishProgress DEF TryFailed
<1> QED  BY <1>1, <1>2

LEMMA ProgressStep == TypeOK /\ ProgressHolds /\ [Next]_vars => ProgressHolds'
<1> SUFFICES ASSUME TypeOK, ProgressHolds, [Next]_vars PROVE ProgressHolds'
  OBVIOUS
<1> USE DEF code, peers, local, book
<1>l. Len(Stage) \in Nat  BY StageAssumption
<1>t. \A j \in Stages : j > k => tried[j] = 0  BY DEF ProgressHolds
<1>k. k \in Nat /\ i \in Nat  BY <1>l DEF TypeOK
<1>1. CASE ReadSlot  BY <1>1 DEF ReadSlot, ProgressHolds, Active
<1>2. CASE SwapSlot  BY <1>2 DEF SwapSlot, ProgressHolds, Active
<1>3. CASE SkipStage
  <2>1. pc = "next" /\ pc' = pc /\ k' = k + 1 /\ tried' = tried  BY <1>3 DEF SkipStage
  <2>2. \A j \in Stages : j > k' \/ j = k' => j > k  BY <2>1, <1>k, <1>l
  <2> QED  BY <2>1, <2>2, <1>t DEF ProgressHolds, Active
<1>4. CASE Prepare
  <2>1. CASE Finish("refused")
    BY <1>4, <1>t, <2>1, FinishProgress DEF Prepare
  <2>2. CASE pc' = "snapshot" /\ UNCHANGED <<k, outcome>>
    <3>1. Running /\ tried[k] = 0 /\ tried' = tried
      BY <1>4 DEF Prepare, ProgressHolds, Active
    <3>2. Stage[k].tries \in Nat \ {0}  BY <3>1, StageFacts
    <3> QED  BY <2>2, <3>1, <3>2, <1>t DEF ProgressHolds, Active
  <2> QED  BY <1>4, <2>1, <2>2 DEF Prepare
<1>5. CASE Snapshot
  <2>1. Running  BY <1>5 DEF Snapshot, ProgressHolds, Active
  <2>2. \A j \in Stages : j > k => tried'[j] = 0
    BY <1>5, <1>t, <1>k, <2>1 DEF Snapshot, TypeOK
  <2>3. CASE TryFailed("failed")
    BY <2>1, <2>2, <2>3, TryFailedProgress
  <2>4. CASE pc' = "open" /\ UNCHANGED <<k, outcome>>
    BY <1>5, <2>1, <2>2, <2>4 DEF Snapshot, ProgressHolds, Active
  <2> QED  BY <1>5, <2>3, <2>4 DEF Snapshot
<1>6. CASE OpenThread
  <2>1. Running /\ tried' = tried
    BY <1>6 DEF OpenThread, ProgressHolds, Active
  <2>2. CASE TryFailed("failed")
    BY <1>t, <2>1, <2>2, TryFailedProgress
  <2>3. CASE UNCHANGED <<pc, book>>
    BY <1>6, <2>3 DEF OpenThread, ProgressHolds, Active
  <2> QED  BY <1>6, <2>2, <2>3 DEF OpenThread
<1>7. CASE AllOpen  BY <1>7 DEF AllOpen, ProgressHolds, Active
<1>8. CASE SuspendThread
  <2>1. pc = "suspend" /\ UNCHANGED <<k, tried, claims, i>>  BY <1>8 DEF SuspendThread
  <2>2. pc' = "resume" \/ (pc' = pc /\ ok' = ok)  BY <1>8 DEF SuspendThread
  <2> QED  BY <2>1, <2>2 DEF ProgressHolds, Active
<1>9. CASE AllSuspended
  <2>1. Running  BY <1>9 DEF AllSuspended, ProgressHolds, Active
  <2>2. Len(Plan) \in Nat  BY <2>1, StageFacts
  <2> QED  BY <1>9, <2>2 DEF AllSuspended, ProgressHolds, Active
<1>10. CASE WriteHook
  <2>1. Running  BY <1>10 DEF WriteHook, ProgressHolds, Active
  <2>2. Len(Plan) \in Nat  BY <2>1, StageFacts
  <2>3. i \in 1..Len(Plan)  BY <1>10, <1>k, <2>2 DEF WriteHook, ProgressHolds
  <2>4. i + 1 \in 1..(Len(Plan) + 1)  BY <2>2, <2>3
  <2>5. pc = "write" /\ UNCHANGED <<k, tried, claims>>  BY <1>10 DEF WriteHook
  <2>6. CASE i' = i + 1 /\ UNCHANGED <<pc, ok, outcome>>
    BY <2>4, <2>5, <2>6 DEF ProgressHolds, Active
  <2>7. CASE GiveUp("failed") /\ pc' = "undo" /\ i' = i
    BY <2>3, <2>5, <2>7 DEF GiveUp, ProgressHolds, Active
  <2> QED  BY <1>10, <2>6, <2>7 DEF WriteHook
<1>11. CASE UndoHook
  <2>1. Running  BY <1>11 DEF UndoHook, ProgressHolds, Active
  <2>2. Len(Plan) \in Nat  BY <2>1, StageFacts
  <2>3. i \in 1..Len(Plan) /\ ~ok  BY <1>11 DEF UndoHook, ProgressHolds
  <2>4. i > 1 => i - 1 \in 1..Len(Plan)  BY <2>2, <2>3
  <2> QED  BY <1>11, <2>3, <2>4 DEF UndoHook, ProgressHolds, Active
<1>12. CASE ClaimAll  BY <1>12 DEF ClaimAll, ProgressHolds, Active
<1>13. CASE ResumeThread  BY <1>13 DEF ResumeThread, ProgressHolds, Active
<1>14. CASE EndTry
  <2>1. Running /\ tried' = tried  BY <1>14 DEF EndTry, ProgressHolds, Active
  <2>2. CASE ok  BY <1>14, <1>t, <2>1, <2>2, FinishProgress DEF EndTry
  <2>3. CASE ~ok  BY <1>14, <1>t, <2>1, <2>3, TryFailedProgress DEF EndTry
  <2> QED  BY <2>2, <2>3
<1>15. CASE Retry  BY <1>15 DEF Retry, ProgressHolds, Active
<1>16. CASE \E t \in Thread : Enter(t) \/ Advance(t) \/ ThreadExit(t) \/ ThreadStart(t)
  BY <1>16 DEF Enter, Advance, ThreadExit, ThreadStart, ProgressHolds, Active
<1>17. CASE \E a \in ForeignAddr : ForeignPatch(a)
  BY <1>17 DEF ForeignPatch, ProgressHolds, Active
<1>18. CASE UNCHANGED vars  BY <1>18 DEF vars, ProgressHolds, Active
<1> QED  BY <1>1, <1>2, <1>3, <1>4, <1>5, <1>6, <1>7, <1>8, <1>9, <1>10, <1>11, <1>12,
            <1>13, <1>14, <1>15, <1>16, <1>17, <1>18
         DEF Next, Step, Others

(***************************************************************************)
(* The claims and the plan.                                                *)
(***************************************************************************)

\* Appending the claims of a free plan keeps the claims disjoint.
LEMMA ClaimPlan ==
    ASSUME TypeOK, Running, ClaimsDisjoint, PlanIsFree, claims' = claims \o ClaimsOf(Plan)
    PROVE  /\ ClaimsDisjoint'
           /\ \A c \in 1..Len(claims) : c \in 1..Len(claims') /\ claims'[c] = claims[c]
           /\ \A j \in 1..Len(Plan) :
                 /\ (Len(claims) + j) \in 1..Len(claims')
                 /\ Cells(claims'[Len(claims) + j]) = Cells(Plan[j])
<1> DEFINE n == Len(claims)
           new == ClaimsOf(Plan)
<1>1. Len(Plan) \in Nat /\ \A j \in 1..Len(Plan) : Plan[j] \in HookType
  BY StageFacts
<1>2. new \in Seq([start : Nat, len : Nat]) /\ Len(new) = Len(Plan)
  BY <1>1, HookFacts DEF ClaimsOf
<1>3. claims \in Seq([start : Nat, len : Nat]) /\ n \in Nat  BY DEF TypeOK
<1>4. \A j \in 1..Len(Plan) : new[j].start = Plan[j].start /\ new[j].len = Plan[j].len
  BY DEF ClaimsOf
<1>5. Len(claims') = n + Len(Plan)  BY <1>2, <1>3
<1>6. \A c \in 1..n : claims'[c] = claims[c]  BY <1>2, <1>3
<1>7. \A j \in 1..Len(Plan) : claims'[n + j] = new[j]  BY <1>1, <1>2, <1>3
<1>8. ASSUME NEW c \in 1..Len(claims'), NEW d \in 1..(c - 1)
      PROVE  ~Overlap(claims'[d], claims'[c])
  <2>1. c \in Nat /\ d \in Nat /\ 1 <= d /\ d < c /\ c <= n + Len(Plan)  BY <1>1, <1>3, <1>5
  <2>2. CASE c <= n
    <3>1. c \in 1..n /\ d \in 1..n /\ d \in 1..(c - 1)  BY <2>1, <2>2, <1>3
    <3> QED  BY <3>1, <1>6 DEF ClaimsDisjoint
  <2>3. CASE c > n /\ d <= n
    <3>1. c - n \in 1..Len(Plan) /\ d \in 1..n /\ c = n + (c - n)  BY <2>1, <2>3, <1>1, <1>3
    <3>2. claims'[c] = new[c - n] /\ claims'[d] = claims[d]  BY <3>1, <1>6, <1>7
    <3>3. ~Overlap(claims[d], Plan[c - n])  BY <3>1 DEF PlanIsFree
    <3> QED  BY <3>1, <3>2, <3>3, <1>4 DEF Overlap
  <2>4. CASE d > n
    <3>1. /\ c - n \in 1..Len(Plan) /\ d - n \in 1..Len(Plan) /\ d - n \in 1..((c - n) - 1)
          /\ c = n + (c - n) /\ d = n + (d - n)
      BY <2>1, <2>4, <1>1, <1>3
    <3>2. claims'[c] = new[c - n] /\ claims'[d] = new[d - n]  BY <3>1, <1>7
    <3>3. ~Overlap(Plan[d - n], Plan[c - n])  BY <3>1 DEF PlanIsFree
    <3> QED  BY <3>1, <3>2, <3>3, <1>4 DEF Overlap
  <2> QED  BY <2>1, <2>2, <2>3, <2>4, <1>3
<1>9. Len(claims') <= MaxClaims  BY <1>5 DEF PlanIsFree
<1>10. \A j \in 1..Len(Plan) : Cells(claims'[n + j]) = Cells(Plan[j])
  BY <1>4, <1>7 DEF Cells
<1>11. \A c \in 1..n : c \in 1..Len(claims')  BY <1>1, <1>3, <1>5
<1>12. \A j \in 1..Len(Plan) : (n + j) \in 1..Len(claims')  BY <1>1, <1>3, <1>5
<1>13. ClaimsDisjoint'  BY <1>8, <1>9 DEF ClaimsDisjoint
<1> QED  BY <1>6, <1>10, <1>11, <1>12, <1>13

LEMMA ClaimsStep ==
    TypeOK /\ ProgressHolds /\ ClaimsDisjoint /\ PlanHolds /\ [Next]_vars
        => ClaimsDisjoint' /\ PlanHolds'
<1> SUFFICES ASSUME TypeOK, ProgressHolds, ClaimsDisjoint, PlanHolds, [Next]_vars
             PROVE  ClaimsDisjoint' /\ PlanHolds'
  OBVIOUS
<1> USE DEF code, peers, local, book
<1>a. ASSUME claims' = claims PROVE ClaimsDisjoint'  BY <1>a DEF ClaimsDisjoint
<1>b. ASSUME claims' = claims, pc' = "next" PROVE PlanHolds'  BY <1>b DEF PlanHolds, Active
<1>c. ASSUME claims' = claims, k' = k, PlanIsFree PROVE PlanHolds'
  BY <1>c DEF PlanHolds, PlanIsFree
<1>d. ASSUME NEW why, claims' = claims, PlanIsFree, TryFailed(why) PROVE PlanHolds'
  BY <1>b, <1>c, <1>d DEF TryFailed, Finish
<1>1. CASE SwapSlot
  <2>1. pc' = "next"  BY <1>1 DEF SwapSlot
  <2>2. CASE claims' = claims  BY <2>1, <2>2, <1>a, <1>b
  <2>3. CASE claims' = Append(claims, [start |-> Slot, len |-> 1]) /\ Len(claims) < MaxClaims
    <3>1. claims = <<>>  BY <1>1 DEF SwapSlot, ProgressHolds
    <3>2. Len(claims') = 1 /\ 1 <= MaxClaims  BY <2>3, <3>1, BoundAssumption DEF BoundAssumption
    <3> QED  BY <2>1, <3>2 DEF ClaimsDisjoint, PlanHolds, Active
  <2> QED  BY <1>1, <2>2, <2>3 DEF SwapSlot
<1>2. CASE ReadSlot \/ SkipStage
  <2>1. claims' = claims /\ ~Active'  BY <1>2 DEF ReadSlot, SkipStage, Active
  <2> QED  BY <2>1, <1>a DEF PlanHolds
<1>3. CASE Prepare
  <2>1. claims' = claims  BY <1>3 DEF Prepare
  <2>2. CASE Finish("refused")  BY <2>1, <2>2, <1>a, <1>b DEF Finish
  <2>3. CASE Acceptable(Plan) /\ UNCHANGED <<k, outcome>>
    <3>1. PlanIsFree  BY <2>3 DEF Acceptable, PlanIsFree
    <3> QED  BY <2>1, <2>3, <3>1, <1>a, <1>c
  <2> QED  BY <1>3, <2>2, <2>3 DEF Prepare
<1>4. CASE Snapshot \/ OpenThread
  <2>1. claims' = claims /\ PlanIsFree
    BY <1>4 DEF Snapshot, OpenThread, PlanHolds, Active
  <2>2. k' = k \/ TryFailed("failed")  BY <1>4 DEF Snapshot, OpenThread
  <2> QED  BY <2>1, <2>2, <1>a, <1>c, <1>d
<1>5. CASE AllOpen \/ SuspendThread \/ AllSuspended \/ WriteHook \/ UndoHook \/ Retry
  <2>1. claims' = claims /\ k' = k /\ PlanIsFree
    BY <1>5 DEF AllOpen, SuspendThread, AllSuspended, WriteHook, UndoHook, Retry, PlanHolds, Active
  <2> QED  BY <2>1, <1>a, <1>c
<1>6. CASE ClaimAll
  <2>1. PlanIsFree /\ Running /\ ok
    BY <1>6 DEF ClaimAll, PlanHolds, Active, ProgressHolds
  <2>2. ClaimsDisjoint'  BY <1>6, <2>1, ClaimPlan DEF ClaimAll
  <2> QED  BY <1>6, <2>1, <2>2 DEF ClaimAll, PlanHolds
<1>7. CASE ResumeThread
  BY <1>7, <1>a DEF ResumeThread, PlanHolds, Active, PlanIsFree
<1>8. CASE EndTry
  <2>1. claims' = claims  BY <1>8 DEF EndTry
  <2>2. CASE ok  BY <1>8, <2>1, <2>2, <1>a, <1>b DEF EndTry, Finish
  <2>3. CASE ~ok
    <3>1. PlanIsFree  BY <1>8, <2>3 DEF EndTry, PlanHolds, Active
    <3> QED  BY <1>8, <2>1, <2>3, <3>1, <1>a, <1>d DEF EndTry
  <2> QED  BY <2>2, <2>3
<1>9. CASE Others \/ UNCHANGED vars
  <2>1. UNCHANGED <<claims, k, pc, ok>>
    BY <1>9 DEF Others, Enter, Advance, ThreadExit, ThreadStart, ForeignPatch, vars
  <2> QED  BY <2>1, <1>a DEF PlanHolds, Active, PlanIsFree
<1> QED  BY <1>1, <1>2, <1>3, <1>4, <1>5, <1>6, <1>7, <1>8, <1>9 DEF Next, Step

(***************************************************************************)
(* The patched bytes.                                                      *)
(***************************************************************************)

\* A hook that meets neither a claim nor an earlier hook of the plan and matches
\* what it expects replaces clean bytes: patched ones are all accounted for.
LEMMA WritesCleanBytes ==
    ASSUME TypeOK, Running, PlanIsFree, PatchesHold, Writing, i \in 1..Len(Plan),
           Matches(Plan[i])
    PROVE  Plan[i].expects = "original"
<1>1. /\ Plan[i] \in HookType /\ Cells(Plan[i]) \subseteq Addr
      /\ \A j \in 1..Len(Plan) : Plan[j] \in HookType
      /\ Len(Plan) \in Nat
  BY StageFacts
<1> DEFINE a == Plan[i].start
<1>2. a \in Cells(Plan[i]) /\ a \in DOMAIN mem  BY <1>1, HookFacts DEF TypeOK
<1>3. ~Claimed(a)
  <2>1. SUFFICES ASSUME NEW c \in 1..Len(claims), a \in Cells(claims[c]) PROVE FALSE
    BY DEF Claimed
  <2>2. ~Overlap(claims[c], Plan[i])  BY DEF PlanIsFree
  <2>4. claims[c] \in [start : Nat, len : Nat]
    <3>1. claims \in Seq([start : Nat, len : Nat])  BY DEF TypeOK
    <3> QED  BY <3>1, ElementOfSeq
  <2>3. claims[c].start \in Nat /\ claims[c].len \in Nat  BY <2>4
  <2> QED  BY <2>1, <2>2, <2>3, <1>1, <1>2, HookFacts, DisjointCells
<1>4. \A j \in 1..(i - 1) : a \notin Cells(Plan[j])
  <2>1. SUFFICES ASSUME NEW j \in 1..(i - 1), a \in Cells(Plan[j]) PROVE FALSE
    OBVIOUS
  <2>2. j \in 1..Len(Plan)  BY <1>1
  <2>3. ~Overlap(Plan[j], Plan[i])  BY DEF PlanIsFree
  <2> QED  BY <2>1, <2>2, <2>3, <1>1, <1>2, HookFacts, DisjointCells
<1>5. mem[a] # "patched"  BY <1>2, <1>3, <1>4 DEF PatchesHold
<1>6. mem[a] = Plan[i].expects  BY <1>2 DEF Matches
<1> QED  BY <1>1, <1>5, <1>6, HookFacts

LEMMA PatchesStep ==
    TypeOK /\ ProgressHolds /\ ClaimsDisjoint /\ PlanHolds /\ PatchesHold /\ [Next]_vars
        => PatchesHold'
<1> SUFFICES ASSUME TypeOK, ProgressHolds, ClaimsDisjoint, PlanHolds, PatchesHold, [Next]_vars
             PROVE  PatchesHold'
  OBVIOUS
<1> USE DEF code, peers, local, book
<1>a. ASSUME ~Writing, ~Writing', mem' = mem, claims' = claims PROVE PatchesHold'
  BY <1>a DEF PatchesHold, Claimed
<1>1. CASE SwapSlot
  <2>1. ~Writing /\ ~Writing'  BY <1>1 DEF SwapSlot, Writing
  <2>2. CASE code' = code  BY <2>1, <2>2, <1>a
  <2>3. CASE /\ mem' = [mem EXCEPT ![Slot] = "patched"]
             /\ claims' = Append(claims, [start |-> Slot, len |-> 1])
    <3>1. claims = <<>>  BY <1>1 DEF SwapSlot, ProgressHolds
    <3>2. Len(claims') = 1 /\ claims'[1] = [start |-> Slot, len |-> 1]  BY <2>3, <3>1
    <3>3. Slot \in Cells(claims'[1])  BY <3>2, AddrAssumption DEF Cells, AddrAssumption
    <3>4. Claimed(Slot)'  BY <3>2, <3>3 DEF Claimed
    <3>5. \A a \in DOMAIN mem : ~Claimed(a)  BY <3>1 DEF Claimed
    <3>6. \A a \in DOMAIN mem' : mem'[a] = "patched" => a = Slot
      BY <2>1, <2>3, <3>5 DEF PatchesHold, TypeOK
    <3> QED  BY <2>1, <3>4, <3>6 DEF PatchesHold
  <2> QED  BY <1>1, <2>2, <2>3 DEF SwapSlot
<1>2. CASE \/ ReadSlot \/ SkipStage \/ Prepare \/ Snapshot \/ OpenThread \/ AllOpen
           \/ SuspendThread \/ ResumeThread \/ EndTry \/ Retry
  <2>1. mem' = mem /\ claims' = claims
    BY <1>2 DEF ReadSlot, SkipStage, Prepare, Snapshot, OpenThread, AllOpen,
                SuspendThread, ResumeThread, EndTry, Retry
  <2>2. ~Writing /\ ~Writing'
    BY <1>2 DEF ReadSlot, SkipStage, Prepare, Snapshot, OpenThread, AllOpen, SuspendThread,
                ResumeThread, EndTry, Retry, TryFailed, Finish, Writing
  <2> QED  BY <2>1, <2>2, <1>a
<1>3. CASE AllSuspended
  <2>1. i' = i /\ i = 1 /\ mem' = mem /\ claims' = claims /\ k' = k /\ ~Writing
    BY <1>3 DEF AllSuspended, ProgressHolds, Writing
  <2>2. 1..(i' - 1) = {}  BY <2>1
  <2> QED  BY <2>1, <2>2 DEF PatchesHold, Claimed
<1>4. CASE WriteHook
  <2>1. Running /\ PlanIsFree /\ Writing /\ i \in 1..Len(Plan) /\ claims' = claims /\ k' = k
    BY <1>4 DEF WriteHook, ProgressHolds, Active, Writing, PlanHolds, TypeOK
  <2>2. CASE Matches(Plan[i]) /\ mem' = Fill(Plan[i], "patched") /\ i' = i + 1
    <3>1. Plan[i].expects = "original"  BY <2>1, <2>2, WritesCleanBytes
    <3>2. Plan[i] \in HookType /\ Cells(Plan[i]) \subseteq Addr /\ Len(Plan) \in Nat
      BY <2>1, StageFacts
    <3>3. \A j \in 1..(i' - 1) : j = i \/ j \in 1..(i - 1)  BY <2>1, <2>2, <3>2
    <3>4. \A j \in 1..(i - 1) : j \in 1..(i' - 1)  BY <2>1, <2>2, <3>2
    <3>5. i \in 1..(i' - 1)  BY <2>1, <2>2, <3>2
    <3>6. \A j \in 1..(i' - 1) : Plan[j].expects = "original"
      BY <2>1, <3>1, <3>3 DEF PatchesHold
    <3>7. DOMAIN mem' = DOMAIN mem /\ \A a \in DOMAIN mem : a \notin Cells(Plan[i]) => mem'[a] = mem[a]
      BY <2>2 DEF Fill
    <3>8. \A a \in DOMAIN mem' : mem'[a] = "patched" =>
             Claimed(a) \/ \E j \in 1..(i' - 1) : a \in Cells(Plan[j])
      BY <2>1, <3>4, <3>5, <3>7 DEF PatchesHold
    <3>9. Writing'  BY <1>4, <2>2 DEF WriteHook, Writing
    <3> QED  BY <2>1, <3>6, <3>8, <3>9 DEF PatchesHold, Claimed
  <2>3. CASE pc' = "undo" /\ UNCHANGED <<mem, i>>
    BY <2>1, <2>3 DEF PatchesHold, Claimed, Writing
  <2> QED  BY <1>4, <2>2, <2>3 DEF WriteHook
<1>5. CASE UndoHook
  <2>1. Running /\ Writing /\ i \in 1..Len(Plan) /\ claims' = claims /\ k' = k
    BY <1>5 DEF UndoHook, ProgressHolds, Active, Writing
  <2>2. Len(Plan) \in Nat  BY <2>1, StageFacts
  <2>3. CASE i > 1
    <3>1. /\ mem' = Fill(Plan[i - 1], Plan[i - 1].expects) /\ i' = i - 1 /\ Writing'
      BY <1>5, <2>3 DEF UndoHook, Writing
    <3>2. i - 1 \in 1..Len(Plan) /\ i - 1 \in 1..(i - 1)  BY <2>1, <2>2, <2>3
    <3>3. Plan[i - 1] \in HookType /\ Cells(Plan[i - 1]) \subseteq Addr
      BY <2>1, <3>2, StageFacts
    <3>4. Plan[i - 1].expects = "original"  BY <2>1, <3>2 DEF PatchesHold
    <3>5. \A j \in 1..(i - 1) : j = i - 1 \/ j \in 1..(i' - 1)  BY <2>1, <2>2, <3>1
    <3>6. \A j \in 1..(i' - 1) : j \in 1..(i - 1)  BY <2>1, <2>2, <3>1
    <3>7. mem' = Fill(Plan[i - 1], "original")  BY <3>1, <3>4
    <3>8. /\ DOMAIN mem' = DOMAIN mem
          /\ \A a \in DOMAIN mem : mem'[a] = "patched" =>
                mem[a] = "patched" /\ a \notin Cells(Plan[i - 1])
      <4>1. mem \in [Addr \cup {Slot} -> {"original", "patched", "foreign"}]  BY DEF TypeOK
      <4>2. DOMAIN mem' = DOMAIN mem  BY <3>7 DEF Fill
      <4>3. \A a \in Cells(Plan[i - 1]) : mem'[a] = "original"
        BY <3>3, <3>7, <4>1, FillFacts
      <4>4. \A a \in DOMAIN mem : a \notin Cells(Plan[i - 1]) => mem'[a] = mem[a]
        BY <3>7 DEF Fill
      <4> QED  BY <4>2, <4>3, <4>4
    <3>9. \A a \in DOMAIN mem' : mem'[a] = "patched" =>
             Claimed(a) \/ \E j \in 1..(i' - 1) : a \in Cells(Plan[j])
      BY <2>1, <3>5, <3>8 DEF PatchesHold
    <3> QED  BY <2>1, <3>1, <3>6, <3>9 DEF PatchesHold, Claimed
  <2>4. CASE ~(i > 1)
    <3>1. mem' = mem /\ ~Writing'  BY <1>5, <2>4 DEF UndoHook, Writing
    <3>2. 1..(i - 1) = {}  BY <2>1, <2>2, <2>4
    <3> QED  BY <2>1, <3>1, <3>2 DEF PatchesHold, Claimed
  <2> QED  BY <2>3, <2>4
<1>6. CASE ClaimAll
  <2>1. Running /\ PlanIsFree /\ Writing /\ ~Writing' /\ mem' = mem /\ Len(Plan) \in Nat
    BY <1>6, StageFacts DEF ClaimAll, ProgressHolds, Active, Writing, PlanHolds
  <2>2. i = Len(Plan) + 1  BY <1>6, <2>1 DEF ClaimAll, ProgressHolds
  <2>3. 1..(i - 1) = 1..Len(Plan)  BY <2>1, <2>2
  <2>4. \A a \in DOMAIN mem : Claimed(a) => Claimed(a)'
    BY <1>6, <2>1, ClaimPlan DEF ClaimAll, Claimed
  <2>5. \A a \in DOMAIN mem : \A j \in 1..Len(Plan) : a \in Cells(Plan[j]) => Claimed(a)'
    BY <1>6, <2>1, ClaimPlan DEF ClaimAll, Claimed
  <2> QED  BY <2>1, <2>3, <2>4, <2>5 DEF PatchesHold
<1>7. CASE \E t \in Thread : Enter(t) \/ Advance(t) \/ ThreadExit(t) \/ ThreadStart(t)
  <2>1. UNCHANGED <<mem, claims, k, pc, i>>
    BY <1>7 DEF Enter, Advance, ThreadExit, ThreadStart
  <2> QED  BY <2>1 DEF PatchesHold, Claimed, Writing
<1>8. CASE \E a \in ForeignAddr : ForeignPatch(a)
  <2>1. UNCHANGED <<claims, k, pc, i>>  BY <1>8 DEF ForeignPatch
  <2>2. DOMAIN mem' = DOMAIN mem /\ \A a \in DOMAIN mem : mem'[a] = "patched" => mem[a] = "patched"
    BY <1>8 DEF ForeignPatch, TypeOK
  <2> QED  BY <2>1, <2>2 DEF PatchesHold, Claimed, Writing
<1>9. CASE UNCHANGED vars
  BY <1>9 DEF vars, PatchesHold, Claimed, Writing
<1> QED  BY <1>1, <1>2, <1>3, <1>4, <1>5, <1>6, <1>7, <1>8, <1>9 DEF Next, Step, Others

(***************************************************************************)
(* The suspended peers.                                                    *)
(***************************************************************************)

LEMMA PeersStep ==
    TypeOK /\ ProgressHolds /\ PeersHold /\ [Next]_vars => PeersHold'
<1> SUFFICES ASSUME TypeOK, ProgressHolds, PeersHold, [Next]_vars PROVE PeersHold'
  OBVIOUS
<1> USE DEF code, peers, local, book
<1>1. CASE ReadSlot \/ SwapSlot \/ SkipStage \/ Prepare \/ Retry
  BY <1>1 DEF ReadSlot, SwapSlot, SkipStage, Prepare, Finish, Retry, PeersHold, Holding
<1>2. CASE Snapshot
  BY <1>2 DEF Snapshot, TryFailed, Finish, PeersHold, Holding
<1>3. CASE OpenThread
  BY <1>3 DEF OpenThread, TryFailed, Finish, PeersHold, Holding
<1>4. CASE AllOpen \/ AllSuspended \/ WriteHook \/ UndoHook \/ ClaimAll
  BY <1>4 DEF AllOpen, AllSuspended, WriteHook, UndoHook, ClaimAll, GiveUp, PeersHold, Holding
<1>5. CASE SuspendThread
  BY <1>5 DEF SuspendThread, GiveUp, PeersHold, Holding
<1>6. CASE ResumeThread  BY <1>6 DEF ResumeThread, PeersHold, Holding
<1>7. CASE EndTry
  BY <1>7 DEF EndTry, TryFailed, Finish, PeersHold, Holding
<1>8. CASE \E t \in Thread : Enter(t) \/ Advance(t) \/ ThreadExit(t) \/ ThreadStart(t)
  BY <1>8 DEF Enter, Advance, ThreadExit, ThreadStart, Free, PeersHold, Holding
<1>9. CASE (\E a \in ForeignAddr : ForeignPatch(a)) \/ UNCHANGED vars
  BY <1>9 DEF ForeignPatch, vars, PeersHold, Holding
<1> QED  BY <1>1, <1>2, <1>3, <1>4, <1>5, <1>6, <1>7, <1>8, <1>9 DEF Next, Step, Others

(***************************************************************************)
(* The inductive invariant, and the safety properties it gives.            *)
(***************************************************************************)

LEMMA IInvInit == Init => IInv
<1> SUFFICES ASSUME Init PROVE IInv
  OBVIOUS
<1> USE DEF Init
<1>1. Len(Stage) \in Nat  BY StageAssumption
<1>2. TypeOK
  <2>1. \A j \in Stages : Stage[j].self \in Thread /\ Stage[j].tries \in Nat \ {0}
    BY StageFacts
  <2>2. alive \subseteq Thread  BY <2>1 DEF Installers
  <2>3. claims \in Seq([start : Nat, len : Nat])  OBVIOUS
  <2>4. tried \in [Stages -> Nat] /\ \A j \in Stages : tried[j] <= Stage[j].tries
    BY <2>1
  <2>5. mem \in [Addr \cup {Slot} -> {"original", "patched", "foreign"}]  OBVIOUS
  <2>6. eip \in [Thread -> Addr \cup {Outside}]  OBVIOUS
  <2>7. outcome \in [Stages -> Outcome]  BY DEF Outcome
  <2>8. k \in 1..(Len(Stage) + 1) /\ i \in Nat /\ pc \in Pcs  BY <1>1 DEF Pcs
  <2>9. missed \in [Stages -> SUBSET Thread]  OBVIOUS
  <2> QED  BY <2>2, <2>3, <2>4, <2>5, <2>6, <2>7, <2>8, <2>9 DEF TypeOK
<1>3. ProgressHolds  BY DEF ProgressHolds, Active
<1>4. ClaimsDisjoint  BY BoundAssumption DEF BoundAssumption, ClaimsDisjoint
<1>5. PlanHolds  BY DEF PlanHolds, Active
<1>6. PatchesHold  BY AddrAssumption DEF PatchesHold, Writing, AddrAssumption
<1>7. PeersHold  BY DEF PeersHold, Holding
<1> QED  BY <1>2, <1>3, <1>4, <1>5, <1>6, <1>7 DEF IInv

LEMMA IInvStep == IInv /\ [Next]_vars => IInv'
  BY TypeStep, ProgressStep, ClaimsStep, PatchesStep, PeersStep DEF IInv

LEMMA Invariance == Spec => []IInv
  BY IInvInit, IInvStep, PTL DEF Spec

\* Every variable of the transaction keeps its type and no stage is tried more
\* often than its bound (runtime/hooks.h, and the retry loops of cab.h and crawl.c).
THEOREM HookTypeCorrect == Spec => []TypeOK
<1>1. IInv => TypeOK  BY DEF IInv
<1> QED  BY <1>1, Invariance, PTL

\* No two claims of the registry overlap and it is never overrun, for any stages
\* and any interleaving of the game (prepare_hooks, install_hooks).
THEOREM ClaimsNeverOverlap == Spec => []ClaimsDisjoint
<1>1. IInv => ClaimsDisjoint  BY DEF IInv
<1> QED  BY <1>1, Invariance, PTL

\* A transaction that fails leaves none of its bytes behind (install_hooks).
THEOREM FailedPlanLeavesNothing == Spec => []PatchedIsClaimed
<1>1. IInv => PatchedIsClaimed  BY DEF IInv, PatchesHold, PatchedIsClaimed, Writing
<1> QED  BY <1>1, Invariance, PTL

\* The patched bytes are those of the registry's claims, each with one owner, whatever
\* failed at which hook (prepare_hooks, install_hooks).
THEOREM ClaimsAreExact == Spec => []ClaimsExact
<1> QED  BY ClaimsNeverOverlap, FailedPlanLeavesNothing, PTL DEF ClaimsExact

\* No thread is left suspended and the installer never suspends itself
\* (install_hooks).
THEOREM PeersAreResumed == Spec => []NobodyLeftSuspended
<1>1. IInv => NobodyLeftSuspended
  <2> SUFFICES ASSUME IInv PROVE NobodyLeftSuspended
    OBVIOUS
  <2>1. Running => Self \notin suspended  BY DEF IInv, PeersHold, Holding
  <2> QED  BY <2>1 DEF IInv, PeersHold, NobodyLeftSuspended, Holding
<1> QED  BY <1>1, Invariance, PTL

\* No later stage and no rollback takes back what an earlier stage installed
\* (prepare_hooks' comparison with claimed[], the undo loop of install_hooks).
THEOREM InstalledStays == Spec => ClaimsStay
<1> DEFINE Kept == /\ \A c \in 1..Len(claims) : c <= Len(claims') /\ claims'[c] = claims[c]
                   /\ \A a \in Addr : Claimed(a) /\ mem[a] = "patched" => mem'[a] # "original"
<1>1. IInv /\ [Next]_vars => [Kept]_vars
  <2> SUFFICES ASSUME IInv, [Next]_vars PROVE Kept
    OBVIOUS
  <2> USE DEF code, peers, local, book
  <2>0. /\ TypeOK /\ ProgressHolds /\ ClaimsDisjoint /\ PlanHolds /\ PatchesHold
        /\ claims \in Seq([start : Nat, len : Nat]) /\ Len(claims) \in Nat
        /\ DOMAIN mem = Addr \cup {Slot}
    BY DEF IInv, TypeOK
  <2>1. CASE code' = code  BY <2>0, <2>1
  <2>2. CASE SwapSlot
    <3>1. claims = <<>>  BY <2>0, <2>2 DEF SwapSlot, ProgressHolds
    <3> QED  BY <3>1 DEF Claimed
  <2>3. CASE WriteHook
    <3>1. claims' = claims  BY <2>3 DEF WriteHook
    <3>2. \A a \in Addr : mem[a] = "patched" => mem'[a] = "patched"
      BY <2>0, <2>3 DEF WriteHook, Fill
    <3> QED  BY <2>0, <3>1, <3>2
  <2>4. CASE UndoHook
    <3>1. claims' = claims  BY <2>4 DEF UndoHook
    <3>2. Running /\ PlanIsFree /\ i \in 1..Len(Plan)
      BY <2>0, <2>4 DEF UndoHook, ProgressHolds, Active, PlanHolds
    <3>3. ASSUME i > 1, NEW a \in Addr, Claimed(a) PROVE a \notin Cells(Plan[i - 1])
      <4>1. i - 1 \in 1..Len(Plan)  BY <3>2, <3>3, StageFacts
      <4>2. PICK c \in 1..Len(claims) : a \in Cells(claims[c])  BY <3>3 DEF Claimed
      <4>3. ~Overlap(claims[c], Plan[i - 1])  BY <3>2, <4>1 DEF PlanIsFree
      <4>4. claims[c] \in [start : Nat, len : Nat]  BY <2>0, ElementOfSeq
      <4>5. claims[c].start \in Nat /\ claims[c].len \in Nat  BY <4>4
      <4>6. Plan[i - 1].start \in Nat /\ Plan[i - 1].len \in Nat
        BY <3>2, <4>1, StageFacts, HookFacts
      <4> QED  BY <4>2, <4>3, <4>5, <4>6, DisjointCells
    <3>4. \A a \in Addr : Claimed(a) => mem'[a] = mem[a]
      BY <2>0, <2>4, <3>3 DEF UndoHook, Fill
    <3> QED  BY <2>0, <3>1, <3>4
  <2>5. CASE ClaimAll
    <3>1. Running /\ PlanIsFree  BY <2>0, <2>5 DEF ClaimAll, ProgressHolds, Active, PlanHolds
    <3>2. \A c \in 1..Len(claims) : c \in 1..Len(claims') /\ claims'[c] = claims[c]
      BY <2>0, <2>5, <3>1, ClaimPlan DEF ClaimAll
    <3>3. claims' \in Seq([start : Nat, len : Nat])  BY <2>0, TypeStep DEF TypeOK
    <3>4. Len(claims') \in Nat  BY <3>3
    <3>5. mem' = mem  BY <2>5 DEF ClaimAll
    <3> QED  BY <2>0, <3>2, <3>4, <3>5
  <2>6. CASE \E a \in ForeignAddr : ForeignPatch(a)
    <3>1. claims' = claims  BY <2>6 DEF ForeignPatch
    <3>2. \A a \in Addr : mem[a] = "patched" => mem'[a] # "original"
      BY <2>0, <2>6 DEF ForeignPatch
    <3> QED  BY <2>0, <3>1, <3>2
  <2>7. ASSUME ~SwapSlot, ~WriteHook, ~UndoHook, ~ClaimAll,
               ~\E a \in ForeignAddr : ForeignPatch(a)
        PROVE  code' = code
    BY <2>7 DEF Next, Step, Others, vars, ReadSlot, SkipStage, Prepare, Snapshot, OpenThread,
                AllOpen, SuspendThread, AllSuspended, ResumeThread, EndTry, Retry,
                Enter, Advance, ThreadExit, ThreadStart
  <2> QED  BY <2>1, <2>2, <2>3, <2>4, <2>5, <2>6, <2>7
<1> QED  BY <1>1, Invariance, PTL DEF Spec, ClaimsStay

(***************************************************************************)
(* The peers while the stage in hand writes.                               *)
(***************************************************************************)

\* While a transaction runs, its own thread is not in the game's code.
LEMMA SelfIsBusy ==
    ASSUME Running
    PROVE  ~InGame(Self)
<1>1. Stage[k].early \in BOOLEAN  BY StageFacts
<1>2. CASE Stage[k].early
  <2>1. k \in Stages /\ k >= k  BY StageAssumption
  <2> QED  BY <1>2, <2>1 DEF InGame
<1>3. CASE ~Stage[k].early  BY <1>3 DEF InGame, Workers
<1> QED  BY <1>1, <1>2, <1>3

\* A later stage leaves as many threads in the game, or more.
LEMMA InGameGrows ==
    ASSUME TypeOK, k' \in Nat, k' >= k, NEW t \in Thread, InGame(t), t \in alive'
    PROVE  InGame(t)'
<1>1. k \in Nat  BY StageAssumption DEF TypeOK
<1>2. \A j \in Stages : j >= k' => j >= k  BY <1>1, StageAssumption
<1> QED  BY <1>2 DEF InGame, Workers

\* While the bytes of such a stage are written nobody else runs.
LEMMA NobodyRuns ==
    ASSUME IInv, WorldStops, Writing, i > 1, WorldStopped, NEW t \in alive
    PROVE  ~Free(t)
<1>1. Running  BY DEF IInv, ProgressHolds, Active, Writing
<1>2. t = Self \/ t \in suspended  BY DEF WorldStops
<1> QED  BY <1>1, <1>2, SelfIsBusy DEF Free

\* Once a stage that missed nobody has written, everybody else stands still.
LEMMA WorldStep ==
    IInv /\ WorldStops /\ [Next]_vars => WorldStops'
<1> SUFFICES ASSUME IInv, WorldStops, [Next]_vars, Writing', i' > 1, WorldStopped'
             PROVE  (alive \subseteq {Self} \cup suspended)'
  BY DEF WorldStops
<1> USE DEF code, peers, local, book
<1>t. TypeOK /\ ProgressHolds  BY DEF IInv
<1>1. CASE \/ ReadSlot \/ SwapSlot \/ SkipStage \/ Prepare \/ Snapshot \/ OpenThread
           \/ AllOpen \/ SuspendThread \/ ClaimAll \/ ResumeThread \/ EndTry \/ Retry
  <2>1. ~Writing'
    BY <1>1 DEF ReadSlot, SwapSlot, SkipStage, Prepare, Snapshot, OpenThread, AllOpen,
                SuspendThread, ClaimAll, ResumeThread, EndTry, Retry, TryFailed, Finish, Writing
  <2> QED  BY <2>1
<1>2. CASE AllSuspended
  <2>1. i' = 1  BY <1>2, <1>t DEF AllSuspended, ProgressHolds
  <2> QED  BY <2>1
<1>3. CASE WriteHook
  <2>1. Running /\ Writing /\ UNCHANGED <<k, alive, suspended>> /\ missed \in [Stages -> SUBSET Thread]
    BY <1>3, <1>t DEF WriteHook, ProgressHolds, Active, Writing, TypeOK
  <2>2. CASE missed' = [missed EXCEPT ![k] = @ \cup StillRunning]
    <3>1. StillRunning \subseteq missed'[k]  BY <2>1, <2>2
    <3>2. missed'[k] = {}  BY <2>1 DEF WorldStopped
    <3> QED  BY <2>1, <3>1, <3>2 DEF StillRunning
  <2>3. CASE UNCHANGED <<missed, i>>
    BY <2>1, <2>3 DEF WorldStops, WorldStopped
  <2> QED  BY <1>3, <2>2, <2>3 DEF WriteHook
<1>4. CASE UndoHook
  <2>1. Running /\ Writing /\ UNCHANGED <<k, alive, suspended, missed>> /\ i \in Nat
    BY <1>4, <1>t DEF UndoHook, ProgressHolds, Active, Writing, TypeOK
  <2>2. i > 1  BY <1>4, <2>1 DEF UndoHook
  <2> QED  BY <2>1, <2>2 DEF WorldStops, WorldStopped
<1>5. CASE Others \/ UNCHANGED vars
  <2>1. UNCHANGED <<k, pc, i, missed, suspended>>
    BY <1>5 DEF Others, Enter, Advance, ThreadExit, ThreadStart, ForeignPatch, vars
  <2>2. Writing /\ i > 1 /\ WorldStopped  BY <2>1 DEF Writing, WorldStopped
  <2>3. alive \subseteq {Self} \cup suspended  BY <2>2 DEF WorldStops
  <2>4. alive' \subseteq alive
    <3>1. \A u \in alive : ~Free(u)  BY <2>2, NobodyRuns
    <3> QED  BY <1>5, <3>1 DEF Others, Enter, Advance, ThreadExit, ThreadStart, ForeignPatch, vars
  <2> QED  BY <2>1, <2>3, <2>4
<1> QED  BY <1>1, <1>2, <1>3, <1>4, <1>5 DEF Next, Step

LEMMA EipsStep ==
    IInv /\ EipsHold /\ [Next]_vars => EipsHold'
<1> SUFFICES ASSUME IInv, EipsHold, [Next]_vars PROVE EipsHold'
  OBVIOUS
<1> USE DEF code, peers, local, book
<1>l. Len(Stage) \in Nat /\ TypeOK  BY StageAssumption DEF IInv
<1>k. TypeOK /\ k \in Nat /\ Len(Stage) \in Nat
  <2>1. k \in 1..(Len(Stage) + 1)  BY <1>l DEF TypeOK
  <2> QED  BY <1>l, <2>1
\* Steps of the installer: eip and alive stay.
<1>a. ASSUME UNCHANGED <<alive, eip>>, k' \in Nat, k' >= k
      PROVE  \A t \in Thread : eip'[t] # Outside => InGame(t)'
  BY <1>a, <1>k, InGameGrows DEF EipsHold, InGame
<1>1. CASE \/ ReadSlot \/ SwapSlot \/ SkipStage \/ Prepare \/ Snapshot \/ OpenThread
           \/ ClaimAll \/ ResumeThread \/ EndTry \/ Retry
  <2>1. UNCHANGED <<alive, eip>> /\ pc' \notin {"suspend", "write", "undo"}
    BY <1>1 DEF ReadSlot, SwapSlot, SkipStage, Prepare, Snapshot, OpenThread, ClaimAll,
                ResumeThread, EndTry, Retry, TryFailed, Finish
  <2>2. k' = k \/ k' = k + 1 \/ (k' = Len(Stage) + 1 /\ Running)
    BY <1>1 DEF ReadSlot, SwapSlot, SkipStage, Prepare, Snapshot, OpenThread, ClaimAll,
                ResumeThread, EndTry, Retry, TryFailed, Finish, IInv, ProgressHolds, Active
  <2>3. k' \in Nat /\ k' >= k  BY <2>2, <1>k
  <2> QED  BY <2>1, <2>3, <1>a DEF EipsHold
<1>2. CASE AllOpen
  <2>1. UNCHANGED <<alive, eip, k, suspended>> /\ suspended = {}
    BY <1>2 DEF AllOpen, IInv, PeersHold, Holding
  <2> QED  BY <2>1, <1>a, <1>k DEF EipsHold
<1>3. CASE SuspendThread
  <2>1. UNCHANGED <<peers, k>> /\ pc = "suspend"  BY <1>3 DEF SuspendThread
  <2>2. pc' = "suspend" => \A t \in suspended' : ~InTarget(t)
    BY <1>3, <2>1 DEF SuspendThread, EipsHold, InTarget
  <2>3. pc' = "suspend" => \A t \in suspended' : ~InTarget(t)'
    BY <2>1, <2>2 DEF InTarget
  <2>4. pc' \in {"suspend", "resume"}  BY <1>3 DEF SuspendThread
  <2> QED  BY <2>1, <2>3, <2>4, <1>a, <1>k DEF EipsHold
<1>4. CASE AllSuspended \/ WriteHook \/ UndoHook
  <2>1. UNCHANGED <<alive, eip, k, suspended>> /\ pc \in {"suspend", "write", "undo"}
    BY <1>4 DEF AllSuspended, WriteHook, UndoHook
  <2> QED  BY <2>1, <1>a, <1>k DEF EipsHold, InTarget
<1>5. CASE \E t \in Thread : Enter(t) \/ Advance(t) \/ ThreadExit(t) \/ ThreadStart(t)
  <2>1. UNCHANGED <<k, pc, suspended>>
    BY <1>5 DEF Enter, Advance, ThreadExit, ThreadStart
  <2>2. PICK t \in Thread : Enter(t) \/ Advance(t) \/ ThreadExit(t) \/ ThreadStart(t)
    BY <1>5
  <2>3. \A u \in Thread : u \in suspended => eip'[u] = eip[u]
    BY <1>k, <2>2 DEF Enter, Advance, ThreadExit, ThreadStart, Free, TypeOK
  <2>4. \A u \in Thread : eip'[u] # Outside => InGame(u) /\ u \in alive'
    BY <1>k, <2>2 DEF Enter, Advance, ThreadExit, ThreadStart, Free, TypeOK, EipsHold, InGame
  <2>5. \A u \in Thread : eip'[u] # Outside => InGame(u)'
    BY <1>k, <2>1, <2>4, InGameGrows
  <2>6. suspended \subseteq Thread  BY <1>k DEF TypeOK
  <2> QED  BY <2>1, <2>3, <2>5, <2>6 DEF EipsHold, InTarget
<1>6. CASE (\E a \in ForeignAddr : ForeignPatch(a)) \/ UNCHANGED vars
  <2>1. UNCHANGED <<peers, k, pc, suspended>>  BY <1>6 DEF ForeignPatch, vars
  <2> QED  BY <2>1, <1>a, <1>k DEF EipsHold, InTarget
<1> QED  BY <1>1, <1>2, <1>3, <1>4, <1>5, <1>6 DEF Next, Step, Others

LEMMA WrittenStep ==
    IInv /\ WorldStops /\ WrittenHolds /\ [Next]_vars => WrittenHolds'
<1> SUFFICES ASSUME IInv, WorldStops, WrittenHolds, [Next]_vars, WorldStopped'
             PROVE  WrittenHolds'
  BY DEF WrittenHolds
<1> USE DEF code, peers, local, book
<1>t. TypeOK /\ ProgressHolds  BY DEF IInv
<1>1. CASE \/ ReadSlot \/ SwapSlot \/ SkipStage \/ Prepare \/ Snapshot \/ OpenThread
           \/ AllOpen \/ SuspendThread \/ ClaimAll \/ ResumeThread \/ EndTry \/ Retry
  <2>1. ~Writing'
    BY <1>1 DEF ReadSlot, SwapSlot, SkipStage, Prepare, Snapshot, OpenThread, AllOpen,
                SuspendThread, ClaimAll, ResumeThread, EndTry, Retry, TryFailed, Finish, Writing
  <2> QED  BY <2>1 DEF WrittenHolds
<1>2. CASE AllSuspended
  <2>1. i' = 1  BY <1>2, <1>t DEF AllSuspended, ProgressHolds
  <2>2. 1..(i' - 1) = {}  BY <2>1
  <2> QED  BY <2>2 DEF WrittenHolds
<1>3. CASE WriteHook
  <2>1. Running /\ i \in 1..Len(Plan) /\ Len(Plan) \in Nat /\ k' = k /\ Writing
    BY <1>3, <1>t, StageFacts DEF WriteHook, ProgressHolds, Active, Writing, TypeOK
  <2>0. WorldStopped
    BY <1>3, <1>t, <2>1 DEF WriteHook, WorldStopped, TypeOK
  <2>2. CASE mem' = Fill(Plan[i], "patched") /\ i' = i + 1
    <3>1. \A j \in 1..(i' - 1) : j = i \/ j \in 1..(i - 1)  BY <2>1, <2>2
    <3>2. \A l \in 1..Len(Plan) : Cells(Plan[l]) \subseteq DOMAIN mem
      BY <2>1, <1>t, StageFacts DEF TypeOK
    <3>3. \A j \in 1..(i' - 1) : j \in 1..Len(Plan)  BY <2>1, <2>2
    <3>4. ASSUME NEW j \in 1..(i' - 1), NEW a \in Cells(Plan[j]) PROVE mem'[a] = "patched"
      <4>1. a \in DOMAIN mem  BY <3>2, <3>3
      <4>2. CASE a \in Cells(Plan[i])  BY <2>2, <4>1, <4>2 DEF Fill
      <4>3. CASE a \notin Cells(Plan[i])
        <5>1. mem[a] = "patched"  BY <2>0, <2>1, <3>1, <4>3 DEF WrittenHolds
        <5> QED  BY <2>2, <4>1, <4>3, <5>1 DEF Fill
      <4> QED  BY <4>2, <4>3
    <3> QED  BY <2>1, <3>4 DEF WrittenHolds
  <2>3. CASE UNCHANGED <<mem, i>>
    BY <2>0, <2>1, <2>3 DEF WrittenHolds
  <2> QED  BY <1>3, <2>2, <2>3 DEF WriteHook
<1>4. CASE UndoHook
  <2>0. WorldStopped  BY <1>4 DEF UndoHook, WorldStopped
  <2>1. Running /\ i \in 1..Len(Plan) /\ Len(Plan) \in Nat /\ k' = k /\ Writing /\ PlanIsFree
    BY <1>4, <1>t, StageFacts DEF UndoHook, ProgressHolds, Active, Writing, IInv, PlanHolds
  <2>2. CASE i > 1
    <3>1. mem' = Fill(Plan[i - 1], Plan[i - 1].expects) /\ i' = i - 1
      BY <1>4, <2>2 DEF UndoHook
    <3>2. ASSUME NEW j \in 1..(i' - 1), NEW a \in Cells(Plan[j]) PROVE mem'[a] = "patched"
      <4>1. j \in 1..(i - 1) /\ j \in 1..Len(Plan) /\ j \in 1..((i - 1) - 1)
            /\ i - 1 \in 1..Len(Plan)
        BY <2>1, <2>2, <3>1
      <4>2. ~Overlap(Plan[j], Plan[i - 1])  BY <2>1, <4>1 DEF PlanIsFree
      <4>3. Plan[j] \in HookType /\ Plan[i - 1] \in HookType /\ Cells(Plan[j]) \subseteq Addr
        BY <2>1, <4>1, StageFacts
      <4>4. a \notin Cells(Plan[i - 1])  BY <4>2, <4>3, HookFacts, DisjointCells
      <4>5. a \in DOMAIN mem  BY <4>3, <1>t DEF TypeOK
      <4>6. mem[a] = "patched"  BY <2>0, <2>1, <4>1 DEF WrittenHolds
      <4> QED  BY <3>1, <4>4, <4>5, <4>6 DEF Fill
    <3> QED  BY <2>1, <3>2 DEF WrittenHolds
  <2>3. CASE ~(i > 1)
    <3>1. ~Writing'  BY <1>4, <2>3 DEF UndoHook, Writing
    <3> QED  BY <3>1 DEF WrittenHolds
  <2> QED  BY <2>2, <2>3
<1>5. CASE \E t \in Thread : Enter(t) \/ Advance(t) \/ ThreadExit(t) \/ ThreadStart(t)
  <2>1. UNCHANGED <<mem, k, pc, i, missed>>  BY <1>5 DEF Enter, Advance, ThreadExit, ThreadStart
  <2> QED  BY <2>1 DEF WrittenHolds, Writing, WorldStopped
<1>6. CASE \E a \in ForeignAddr : ForeignPatch(a)
  <2>1. UNCHANGED <<k, pc, i, missed>> /\ WorldStopped /\ i \in Nat
    BY <1>6, <1>t DEF ForeignPatch, WorldStopped, TypeOK
  <2>2. ~(Writing /\ i > 1)  BY <1>6, <2>1, NobodyRuns DEF ForeignPatch
  <2>3. i <= 1 => 1..(i' - 1) = {}  BY <2>1
  <2> QED  BY <2>1, <2>2, <2>3 DEF WrittenHolds, Writing
<1>7. CASE UNCHANGED vars  BY <1>7 DEF vars, WrittenHolds, Writing, WorldStopped
<1> QED  BY <1>1, <1>2, <1>3, <1>4, <1>5, <1>6, <1>7 DEF Next, Step, Others

\* A thread is caught inside replaced bytes by the write of a hook alone, and only
\* when it is not suspended then.
LEMMA TornStep ==
    IInv /\ EipsHold /\ OnlyMissedAreTorn /\ [Next]_vars => OnlyMissedAreTorn'
<1> SUFFICES ASSUME IInv, EipsHold, OnlyMissedAreTorn, [Next]_vars, NEW t \in alive', Torn(t)'
             PROVE  \E j \in Stages : t \in missed'[j] /\ eip'[t] \in PlanBytes(j)
  BY DEF OnlyMissedAreTorn, PlanBytes
<1> USE DEF code, peers, local, book
<1>t. TypeOK /\ ProgressHolds /\ k \in Nat  BY StageAssumption DEF IInv, TypeOK
<1>m. \A j \in Stages : missed[j] \subseteq missed'[j]
  <2>1. CASE WriteHook  BY <1>t, <2>1 DEF WriteHook, TypeOK
  <2>2. CASE missed' = missed  BY <2>2
  <2>3. ~WriteHook => missed' = missed
    BY DEF Next, Step, Others, vars, ReadSlot, SwapSlot, SkipStage, Prepare, Snapshot, OpenThread,
           AllOpen, SuspendThread, AllSuspended, UndoHook, ClaimAll, ResumeThread, EndTry, Retry,
           Enter, Advance, ThreadExit, ThreadStart, ForeignPatch
  <2> QED  BY <2>1, <2>2, <2>3
<1>a. ASSUME t \in alive, Torn(t), eip' = eip
      PROVE  \E j \in Stages : t \in missed'[j] /\ eip'[t] \in PlanBytes(j)
  <2>1. PICK j \in Stages : t \in missed[j] /\ eip[t] \in PlanBytes(j)
    BY <1>a DEF OnlyMissedAreTorn
  <2> QED  BY <1>a, <1>m, <2>1
<1>1. CASE UNCHANGED <<mem, alive, eip>>  BY <1>1, <1>a DEF Torn
<1>2. CASE SwapSlot
  <2>1. \A u \in alive : eip[u] # Slot  BY <1>t, AddrAssumption DEF TypeOK, AddrAssumption, Outside
  <2>2. Torn(t) /\ t \in alive /\ eip' = eip  BY <1>2, <1>t, <2>1 DEF SwapSlot, Torn, TypeOK
  <2> QED  BY <2>2, <1>a
<1>3. CASE WriteHook
  <2>1. Running /\ Writing /\ pc = "write" /\ i \in 1..Len(Plan) /\ eip' = eip /\ alive' = alive
    BY <1>3, <1>t, StageFacts DEF WriteHook, ProgressHolds, Active, Writing, TypeOK
  <2>2. CASE Torn(t)  BY <2>1, <2>2, <1>a
  <2>3. CASE ~Torn(t)
    <3>1. eip[t] # Outside /\ mem'[eip[t]] = "patched" /\ mem[eip[t]] # "patched"
      BY <2>1, <2>3 DEF Torn
    <3>2. mem' = Fill(Plan[i], "patched") /\ missed' = [missed EXCEPT ![k] = @ \cup StillRunning]
      BY <1>3, <3>1 DEF WriteHook
    <3>3. t \in Thread /\ eip[t] \in DOMAIN mem  BY <1>t, <2>1, <3>1 DEF TypeOK
    <3>4. eip[t] \in Cells(Plan[i])  BY <3>1, <3>2, <3>3 DEF Fill
    <3>5. InGame(t) /\ t # Self  BY <2>1, <3>1, <3>3, SelfIsBusy DEF EipsHold
    <3>6. t \notin suspended  BY <2>1, <3>4 DEF EipsHold, InTarget
    <3>7. t \in missed'[k]  BY <1>t, <2>1, <3>2, <3>5, <3>6 DEF StillRunning, TypeOK
    <3>8. eip'[t] \in PlanBytes(k)  BY <2>1, <3>4 DEF PlanBytes
    <3> QED  BY <2>1, <3>7, <3>8
  <2> QED  BY <2>2, <2>3
<1>4. CASE UndoHook
  <2>1. Running /\ Writing /\ i \in 1..Len(Plan) /\ Len(Plan) \in Nat /\ eip' = eip /\ alive' = alive
    BY <1>4, <1>t, StageFacts DEF UndoHook, ProgressHolds, Active, Writing
  <2>2. i > 1 => i - 1 \in 1..(i - 1)  BY <2>1
  <2>3. i > 1 => Plan[i - 1].expects = "original"  BY <2>1, <2>2 DEF IInv, PatchesHold
  <2>4. eip[t] # Outside /\ mem'[eip[t]] = "patched" /\ eip[t] \in DOMAIN mem
    BY <1>t, <2>1 DEF Torn, TypeOK
  <2>5. mem[eip[t]] = "patched"  BY <1>4, <2>3, <2>4 DEF UndoHook, Fill
  <2> QED  BY <1>a, <2>1, <2>4, <2>5 DEF Torn
<1>5. CASE \E u \in Thread : Enter(u) \/ Advance(u)
  <2>1. PICK u \in Thread : Enter(u) \/ Advance(u)  BY <1>5
  <2>2. UNCHANGED <<mem, alive, missed>>  BY <2>1 DEF Enter, Advance
  <2>3. t \in Thread  BY <1>t, <2>2 DEF TypeOK
  <2>4. CASE t = u
    <3>1. eip'[t] # Outside => mem[eip'[t]] # "patched"
      BY <1>t, <2>1, <2>4 DEF Enter, Advance, TypeOK
    <3> QED  BY <2>2, <3>1 DEF Torn
  <2>5. CASE t # u
    <3>1. eip'[t] = eip[t]  BY <1>t, <2>1, <2>3, <2>5 DEF Enter, Advance, TypeOK
    <3>2. Torn(t) /\ t \in alive  BY <2>2, <3>1 DEF Torn
    <3> QED  BY <2>2, <3>1, <3>2 DEF OnlyMissedAreTorn
  <2> QED  BY <2>4, <2>5
<1>6. CASE \E u \in Thread : ThreadExit(u)
  BY <1>6, <1>a DEF ThreadExit, Torn
<1>7. CASE \E u \in Thread : ThreadStart(u)
  <2>1. \A u \in Thread \ alive : eip[u] = Outside  BY DEF EipsHold, InGame
  <2>2. UNCHANGED <<mem, eip>> /\ t \in Thread  BY <1>7, <1>t DEF ThreadStart, TypeOK
  <2> QED  BY <2>1, <2>2, <1>a DEF Torn
<1>8. CASE \E a \in ForeignAddr : ForeignPatch(a)
  <2>1. UNCHANGED <<alive, eip>>  BY <1>8 DEF ForeignPatch
  <2>2. Torn(t)  BY <1>8, <1>t, <2>1 DEF ForeignPatch, Torn, TypeOK
  <2> QED  BY <2>1, <2>2, <1>a
<1>9. ASSUME ~SwapSlot, ~WriteHook, ~UndoHook, ~\E a \in ForeignAddr : ForeignPatch(a),
             ~\E u \in Thread : Enter(u) \/ Advance(u),
             ~\E u \in Thread : ThreadExit(u), ~\E u \in Thread : ThreadStart(u)
      PROVE  UNCHANGED <<mem, alive, eip>>
  BY <1>9 DEF Next, Step, Others, vars, ReadSlot, SkipStage, Prepare, Snapshot, OpenThread,
              AllOpen, SuspendThread, AllSuspended, ClaimAll, ResumeThread, EndTry, Retry
<1> QED  BY <1>1, <1>2, <1>3, <1>4, <1>5, <1>6, <1>7, <1>8, <1>9

LEMMA WorldInit == Init => WorldInv
<1> SUFFICES ASSUME Init PROVE WorldInv
  OBVIOUS
<1>1. IInv  BY IInvInit
<1>2. WorldStops /\ WrittenHolds  BY DEF Init, WorldStops, WrittenHolds, Writing
<1>3. \A t \in Thread : eip[t] = Outside  BY DEF Init
<1>4. EipsHold  BY <1>3 DEF Init, EipsHold
<1>5. OnlyMissedAreTorn  BY <1>1, <1>3 DEF OnlyMissedAreTorn, Torn, IInv, TypeOK
<1> QED  BY <1>1, <1>2, <1>4, <1>5 DEF WorldInv

LEMMA WorldInvStep == WorldInv /\ [Next]_vars => WorldInv'
  BY IInvStep, WorldStep, EipsStep, WrittenStep, TornStep DEF WorldInv

LEMMA WorldInvariance == Spec => []WorldInv
  BY WorldInit, WorldInvStep, PTL DEF Spec

\* Whatever fails, and whoever starts meanwhile, a thread stands in replaced bytes
\* only if their stage was written while it ran: one that install_hooks suspended is
\* never caught inside (the comparison of its Eip with the whole plan).
THEOREM OnlyTheMissedAreTorn == Spec => []OnlyMissedAreTorn
<1>1. WorldInv => OnlyMissedAreTorn  BY DEF WorldInv
<1> QED  BY <1>1, WorldInvariance, PTL

\* Without late threads and cut lists the snapshot names every peer to suspend.
LEMMA HeldStep ==
    "late" \notin Faults /\ "cut" \notin Faults /\ IInv /\ AllHeld /\ [Next]_vars => AllHeld'
<1> SUFFICES ASSUME "late" \notin Faults, "cut" \notin Faults, IInv, AllHeld, [Next]_vars PROVE AllHeld'
  OBVIOUS
<1> USE DEF code, peers, local, book
<1>1. CASE ReadSlot \/ SwapSlot \/ SkipStage \/ Prepare \/ ClaimAll \/ ResumeThread
           \/ EndTry \/ Retry
  <2>1. pc' \notin {"open", "suspend", "write", "undo"}
    BY <1>1 DEF ReadSlot, SwapSlot, SkipStage, Prepare, ClaimAll, ResumeThread, EndTry,
                Retry, TryFailed, Finish
  <2> QED  BY <2>1 DEF AllHeld, Writing
<1>2. CASE Snapshot
  BY <1>2 DEF Snapshot, TryFailed, Finish, AllHeld, Writing
<1>3. CASE OpenThread
  <2>1. CASE pc' \notin {"open", "suspend", "write", "undo"}  BY <2>1 DEF AllHeld, Writing
  <2>2. CASE \E t \in toOpen : opened' = opened \cup {t} /\ toOpen' = toOpen \ {t}
    <3>1. UNCHANGED <<pc, k, alive>> \/ pc' \notin {"open", "suspend", "write", "undo"}
      BY <1>3 DEF OpenThread, TryFailed, Finish
    <3> QED  BY <1>3, <2>1, <2>2, <3>1 DEF OpenThread, AllHeld, Writing
  <2> QED  BY <1>3, <2>1, <2>2 DEF OpenThread, TryFailed, Finish
<1>4. CASE AllOpen
  BY <1>4 DEF AllOpen, AllHeld, Writing
<1>5. CASE SuspendThread
  BY <1>5 DEF SuspendThread, AllHeld, Writing
<1>6. CASE AllSuspended \/ WriteHook \/ UndoHook
  BY <1>6 DEF AllSuspended, WriteHook, UndoHook, GiveUp, AllHeld, Writing
<1>7. CASE \E t \in Thread : Enter(t) \/ Advance(t) \/ ThreadExit(t)
  BY <1>7 DEF Enter, Advance, ThreadExit, AllHeld, Writing
<1>8. CASE \E t \in Thread : ThreadStart(t)
  BY <1>8 DEF ThreadStart, AllHeld, Writing
<1>9. CASE (\E a \in ForeignAddr : ForeignPatch(a)) \/ UNCHANGED vars
  BY <1>9 DEF ForeignPatch, vars, AllHeld, Writing
<1> QED  BY <1>1, <1>2, <1>3, <1>4, <1>5, <1>6, <1>7, <1>8, <1>9 DEF Next, Step, Others

\* When no thread starts between the snapshot of the threads and the end of the
\* transaction, and the list is read to its end, no thread ever stands in bytes
\* replaced under it (install_hooks' suspension of all peers).
THEOREM NobodyIsTorn ==
    ASSUME "late" \notin Faults, "cut" \notin Faults
    PROVE  Spec => []NobodyTorn
<1> DEFINE NobodyMissed == AllHeld /\ \A j \in Stages : missed[j] = {}
<1>1. Init => NobodyMissed  BY DEF Init, AllHeld, Writing
<1>2. IInv /\ NobodyMissed /\ [Next]_vars => NobodyMissed'
  <2> SUFFICES ASSUME IInv, NobodyMissed, [Next]_vars PROVE NobodyMissed'
    OBVIOUS
  <2>1. AllHeld'  BY HeldStep
  <2>2. CASE WriteHook
    <3>1. StillRunning = {}  BY <2>2 DEF WriteHook, AllHeld, Writing, StillRunning
    <3>2. missed' = missed \/ missed' = [missed EXCEPT ![k] = @ \cup StillRunning]
      BY <2>2 DEF WriteHook
    <3> QED  BY <2>1, <3>1, <3>2 DEF IInv, TypeOK
  <2>3. CASE ~WriteHook
    <3>1. missed' = missed
      BY <2>3 DEF code, peers, local, book, Next, Step, Others, vars, ReadSlot, SwapSlot, SkipStage,
                  Prepare, Snapshot, OpenThread, AllOpen, SuspendThread, AllSuspended, UndoHook,
                  ClaimAll, ResumeThread, EndTry, Retry, Enter, Advance, ThreadExit, ThreadStart,
                  ForeignPatch
    <3> QED  BY <2>1, <3>1
  <2> QED  BY <2>2, <2>3
<1>3. NobodyMissed /\ OnlyMissedAreTorn => NobodyTorn  BY DEF OnlyMissedAreTorn, NobodyTorn
<1> QED  BY <1>1, <1>2, <1>3, Invariance, OnlyTheMissedAreTorn, PTL DEF Spec

\* The bytes another module wrote are not overwritten by a stage that stopped its
\* peers (install_hooks compares again after the suspension, and undoes its own only).
THEOREM ForeignPatchesStay == Spec => ForeignBytesKept
<1> DEFINE Kept == WorldStopped => \A a \in Addr : mem[a] = "foreign" => mem'[a] = "foreign"
<1>1. WorldInv /\ [Next]_vars => [Kept]_vars
  <2> SUFFICES ASSUME WorldInv, [Next]_vars, WorldStopped
               PROVE  \A a \in Addr : mem[a] = "foreign" => mem'[a] = "foreign"
    OBVIOUS
  <2> USE DEF code, peers, local, book
  <2>t. IInv /\ TypeOK /\ ProgressHolds /\ WrittenHolds /\ DOMAIN mem = Addr \cup {Slot}
    BY DEF WorldInv, IInv, TypeOK
  <2>1. CASE mem' = mem  BY <2>1
  <2>2. CASE SwapSlot
    BY <2>2, <2>t, AddrAssumption DEF SwapSlot, AddrAssumption
  <2>3. CASE WriteHook
    <3>1. Running /\ i \in 1..Len(Plan)
      BY <2>3, <2>t, StageFacts DEF WriteHook, ProgressHolds, Active, TypeOK
    <3>2. Plan[i].expects # "foreign"  BY <3>1, StageFacts, HookFacts
    <3> QED  BY <2>3, <2>t, <3>2 DEF WriteHook, Matches, Fill
  <2>4. CASE UndoHook
    <3>1. Running /\ Writing /\ i \in 1..Len(Plan)
      BY <2>4, <2>t DEF UndoHook, ProgressHolds, Active, Writing
    <3>2. i > 1 => i - 1 \in 1..(i - 1)  BY <3>1, StageFacts
    <3>3. i > 1 => \A a \in Cells(Plan[i - 1]) : mem[a] = "patched"
      BY <2>t, <3>1, <3>2 DEF WrittenHolds
    <3> QED  BY <2>4, <2>t, <3>3 DEF UndoHook, Fill
  <2>5. CASE \E a \in ForeignAddr : ForeignPatch(a)
    BY <2>5, <2>t DEF ForeignPatch
  <2>6. ASSUME ~SwapSlot, ~WriteHook, ~UndoHook, ~\E a \in ForeignAddr : ForeignPatch(a)
        PROVE  mem' = mem
    BY <2>6 DEF Next, Step, Others, vars, ReadSlot, SkipStage, Prepare, Snapshot, OpenThread,
                AllOpen, SuspendThread, AllSuspended, ClaimAll, ResumeThread, EndTry, Retry,
                Enter, Advance, ThreadExit, ThreadStart
  <2> QED  BY <2>1, <2>2, <2>3, <2>4, <2>5, <2>6
<1> QED  BY <1>1, WorldInvariance, PTL DEF Spec, ForeignBytesKept

\* What is installed stays, be it this runtime's or, for a stage that stopped its
\* peers, another module's (prepare_hooks, install_hooks).
THEOREM InstalledPatchesStay == Spec => PatchesStay
<1> QED  BY InstalledStays, ForeignPatchesStay DEF PatchesStay

(***************************************************************************)
(* The transaction implements AtomicHooks.                                 *)
(***************************************************************************)

\* A result other than "on" for the stage in hand leaves what is installed.
LEMMA NotOn ==
    ASSUME TypeOK, OutcomesHold, Running, NEW why, why # "on",
           outcome' = [outcome EXCEPT ![k] = why],
           ~(pc = "resume" /\ ok), ~(pc' = "resume" /\ ok')
    PROVE  Installed' = Installed /\ \A j \in Stages : outcome'[j] = "on" => outcome[j] = "on"
<1>1. k \in Nat  BY StageAssumption DEF TypeOK
<1>2. outcome[k] # "on"  BY <1>1 DEF OutcomesHold
<1>3. \A j \in Stages : outcome'[j] = "on" <=> outcome[j] = "on"  BY <1>2 DEF TypeOK
<1> QED  BY <1>3 DEF Installed

\* What is installed changes with the claim and at no other step.
LEMMA InstalledStep ==
    ASSUME IInv, OutcomesHold, Next
    PROVE  /\ OutcomesHold'
           /\ ~ClaimAll => Installed' = Installed
           /\ ClaimAll => Running /\ Installed' = Installed \cup {k} /\ \A l \in Installed : l < k
<1> USE DEF code, peers, local, book
<1>k. TypeOK /\ ProgressHolds /\ k \in Nat /\ Len(Stage) \in Nat
  BY StageAssumption DEF IInv, TypeOK
<1>a. ASSUME Running, NEW why, why # "on", TryFailed(why) \/ Finish(why)
      PROVE  /\ outcome' = [outcome EXCEPT ![k] = why] /\ pc' \in {"sleep", "next"}
             /\ k' \in {k, k + 1, Len(Stage) + 1} /\ k' >= k
  BY <1>a, <1>k DEF TryFailed, Finish
<1>b. ASSUME k' >= k, k' \in Nat, \A j \in Stages : outcome'[j] = "on" => outcome[j] = "on",
             pc \notin {"boot", "swap"}, pc' \notin {"boot", "swap"}
      PROVE  OutcomesHold'
  BY <1>b, <1>k DEF OutcomesHold
<1>c. ASSUME UNCHANGED <<outcome, k>>, (pc' = "resume" /\ ok') <=> (pc = "resume" /\ ok),
             pc' \in {"boot", "swap"} => pc \in {"boot", "swap"}
      PROVE  OutcomesHold' /\ Installed' = Installed
  BY <1>c DEF OutcomesHold, Installed
<1>d. ASSUME Running, NEW why, why # "on", TryFailed(why) \/ Finish(why),
             ~(pc = "resume" /\ ok), pc \notin {"boot", "swap"}
      PROVE  OutcomesHold' /\ Installed' = Installed
  <2>1. /\ outcome' = [outcome EXCEPT ![k] = why] /\ pc' \in {"sleep", "next"}
        /\ k' \in {k, k + 1, Len(Stage) + 1} /\ k' >= k
    BY <1>a, <1>d
  <2>2. /\ Installed' = Installed
        /\ \A j \in Stages : outcome'[j] = "on" => outcome[j] = "on"
    BY <1>d, <1>k, <2>1, NotOn
  <2>3. k' \in Nat  BY <1>k, <2>1
  <2>4. pc' \notin {"boot", "swap"} /\ pc \notin {"boot", "swap"}  BY <1>d, <2>1
  <2> QED  BY <1>b, <2>1, <2>2, <2>3, <2>4
<1>1. CASE ReadSlot \/ SwapSlot \/ AllOpen \/ AllSuspended \/ ResumeThread \/ Retry
  BY <1>1, <1>c DEF ReadSlot, SwapSlot, AllOpen, AllSuspended, ResumeThread, Retry, ClaimAll
<1>2. CASE SkipStage
  <2>1. /\ Running /\ outcome' = [outcome EXCEPT ![k] = "skipped"] /\ k' = k + 1
        /\ pc = "next" /\ pc' = pc /\ ~ClaimAll
    BY <1>2 DEF SkipStage, ClaimAll
  <2>2. /\ Installed' = Installed
        /\ \A j \in Stages : outcome'[j] = "on" => outcome[j] = "on"
    BY <1>k, <2>1, NotOn
  <2> QED  BY <1>b, <1>k, <2>1, <2>2
<1>3. CASE Prepare
  <2>1. Running /\ pc = "next" /\ ~ClaimAll  BY <1>3 DEF Prepare, ClaimAll
  <2>2. CASE Finish("refused")  BY <1>d, <2>1, <2>2
  <2>3. CASE pc' = "snapshot" /\ UNCHANGED <<k, outcome>>  BY <1>c, <2>1, <2>3
  <2> QED  BY <1>3, <2>1, <2>2, <2>3 DEF Prepare
<1>4. CASE Snapshot \/ OpenThread
  <2>1. Running /\ pc \in {"snapshot", "open"} /\ ~ClaimAll
    BY <1>4, <1>k DEF Snapshot, OpenThread, ClaimAll, ProgressHolds, Active
  <2>2. CASE TryFailed("failed")  BY <1>d, <2>1, <2>2
  <2>3. CASE pc' = "open" /\ UNCHANGED <<k, outcome>>  BY <1>c, <2>1, <2>3
  <2> QED  BY <1>4, <2>1, <2>2, <2>3 DEF Snapshot, OpenThread
<1>5. CASE SuspendThread \/ WriteHook
  <2>1. Running /\ pc \in {"suspend", "write"} /\ ~ClaimAll /\ k' = k
        /\ pc' \notin {"boot", "swap"}
    BY <1>5, <1>k DEF SuspendThread, WriteHook, ClaimAll, ProgressHolds, Active
  <2>2. CASE \E why \in {"busy", "failed"} : GiveUp(why)
    <3>1. PICK why \in {"busy", "failed"} : GiveUp(why)  BY <2>2
    <3>2. /\ Installed' = Installed
          /\ \A j \in Stages : outcome'[j] = "on" => outcome[j] = "on"
      BY <1>k, <2>1, <3>1, NotOn DEF GiveUp
    <3> QED  BY <1>b, <1>k, <2>1, <3>2
  <2>3. CASE UNCHANGED <<pc, outcome>>  BY <1>c, <2>1, <2>3
  <2> QED  BY <1>5, <2>2, <2>3 DEF SuspendThread, WriteHook
<1>6. CASE UndoHook
  <2>1. /\ ~ok /\ ok' = ok /\ UNCHANGED <<outcome, k>> /\ ~ClaimAll
        /\ pc' \notin {"boot", "swap"}
    BY <1>6, <1>k DEF UndoHook, ProgressHolds, ClaimAll
  <2> QED  BY <1>c, <2>1
<1>7. CASE ClaimAll
  <2>1. Running /\ ok /\ pc = "write" /\ pc' = "resume" /\ UNCHANGED <<outcome, k, ok>>
    BY <1>7, <1>k DEF ClaimAll, ProgressHolds, Active
  <2>2. Installed' = Installed \cup {k}  BY <2>1 DEF Installed
  <2>3. \A l \in Installed : l < k  BY <2>1 DEF Installed, OutcomesHold
  <2>4. OutcomesHold'  BY <2>1 DEF OutcomesHold
  <2> QED  BY <1>7, <2>1, <2>2, <2>3, <2>4
<1>8. CASE EndTry
  <2>1. Running /\ pc = "resume" /\ ~ClaimAll  BY <1>8, <1>k DEF EndTry, ClaimAll, ProgressHolds, Active
  <2>2. CASE ok
    <3>1. outcome' = [outcome EXCEPT ![k] = "on"] /\ k' = k + 1 /\ pc' = "next"
      BY <1>8, <2>2 DEF EndTry, Finish
    <3>2. \A j \in Stages : outcome'[j] = "on" <=> outcome[j] = "on" \/ j = k
      BY <1>k, <3>1 DEF TypeOK
    <3> QED  BY <1>k, <2>1, <2>2, <3>1, <3>2 DEF Installed, OutcomesHold
  <2>3. CASE ~ok
    <3>1. outcome[k] # "on"  BY <1>k, <2>1 DEF OutcomesHold
    <3>2. TryFailed(outcome[k])  BY <1>8, <2>3 DEF EndTry
    <3> QED  BY <1>d, <2>1, <2>3, <3>1, <3>2
  <2> QED  BY <2>2, <2>3
<1>9. CASE Others
  <2>1. UNCHANGED <<outcome, k, pc, ok>>
    BY <1>9 DEF Others, Enter, Advance, ThreadExit, ThreadStart, ForeignPatch
  <2>2. CASE ClaimAll
    BY <2>1, <2>2 DEF ClaimAll
  <2> QED  BY <1>c, <2>1, <2>2
<1> QED  BY <1>1, <1>2, <1>3, <1>4, <1>5, <1>6, <1>7, <1>8, <1>9 DEF Next, Step

\* Nobody sees a step that leaves what is shown, claimed and installed, and where
\* the threads are.
LEMMA Unseen ==
    ASSUME Shown' = Shown, claims' = claims, DOMAIN mem' = DOMAIN mem,
           Installed' = Installed, eip' = eip
    PROVE  UNCHANGED AtOnce!vars
  BY DEF AtOnce!vars, Owned

\* A byte is owned when it lies in a claim.
LEMMA OwnedIsClaimed == \A a : a \in Owned <=> Claimed(a)
  BY DEF Owned, Claimed

\* Outside of the writing everything is shown.
LEMMA ShownIsMem ==
    ASSUME TypeOK, ~Writing
    PROVE  Shown = mem
  BY DEF TypeOK, Shown, Written

LEMMA ShownBytes ==
    ASSUME TypeOK
    PROVE  Shown = [a \in DOMAIN mem |-> IF a \in Written THEN "original" ELSE mem[a]]
  BY DEF TypeOK, Shown

\* A plan's bytes lie in the code.
LEMMA PlanInCode ==
    ASSUME TypeOK, Running
    PROVE  /\ Len(Plan) \in Nat
           /\ \A l \in 1..Len(Plan) : Plan[l] \in HookType /\ Cells(Plan[l]) \subseteq Addr
           /\ PlanBytes(k) \subseteq Addr
           /\ \A a \in PlanBytes(k) : \E l \in 1..Len(Plan) : a \in Cells(Plan[l])
  BY StageFacts DEF PlanBytes

\* A hook is written, or taken back, unseen.
LEMMA WriteUnseen ==
    ASSUME WorldInv, IInv', WriteHook
    PROVE  Shown' = Shown /\ DOMAIN mem' = DOMAIN mem
<1> USE DEF code, peers, local, book
<1>1. TypeOK /\ Running /\ Writing /\ i \in 1..Len(Plan) /\ k' = k
  BY StageFacts DEF WriteHook, WorldInv, IInv, ProgressHolds, Active, Writing, TypeOK
<1>2. Len(Plan) \in Nat /\ Plan[i] \in HookType /\ Cells(Plan[i]) \subseteq Addr
  BY <1>1, PlanInCode
<1>3. CASE UNCHANGED <<mem, i>> /\ pc' = "undo"
  <2>1. Writing'  BY <1>3 DEF Writing
  <2> QED  BY <1>1, <1>3, <2>1 DEF Shown, Written
<1>4. CASE Matches(Plan[i]) /\ mem' = Fill(Plan[i], "patched") /\ i' = i + 1 /\ pc' = pc
  <2>1. Writing' /\ i \in 1..(i' - 1)  BY <1>1, <1>2, <1>4 DEF Writing
  <2>2. Plan[i].expects = "original"  BY <1>1, <2>1 DEF IInv, PatchesHold
  <2>3. Written' = Written \cup Cells(Plan[i])
    <3>1. 1..(i' - 1) = (1..(i - 1)) \cup {i}  BY <1>1, <1>2, <1>4
    <3> QED  BY <1>1, <2>1, <3>1 DEF Written
  <2>4. DOMAIN mem' = DOMAIN mem  BY <1>4 DEF Fill
  <2>5. \A a \in DOMAIN mem : a \notin Cells(Plan[i]) => mem'[a] = mem[a]  BY <1>4 DEF Fill
  <2>6. \A a \in Cells(Plan[i]) : mem[a] = "original"  BY <1>4, <2>2 DEF Matches
  <2>7. Shown' = [a \in DOMAIN mem' |-> IF a \in Written' THEN "original" ELSE mem'[a]]
    BY DEF IInv, TypeOK, Shown
  <2> QED  BY <1>1, <2>3, <2>4, <2>5, <2>6, <2>7, ShownBytes
<1> QED  BY <1>3, <1>4 DEF WriteHook

LEMMA UndoUnseen ==
    ASSUME WorldInv, IInv', UndoHook
    PROVE  Shown' = Shown /\ DOMAIN mem' = DOMAIN mem
<1> USE DEF code, peers, local, book
<1>1. TypeOK /\ Running /\ Writing /\ i \in 1..Len(Plan) /\ k' = k
  BY StageFacts DEF UndoHook, WorldInv, IInv, ProgressHolds, Active, Writing
<1>2. Len(Plan) \in Nat  BY <1>1, PlanInCode
<1>3. CASE i > 1
  <2>1. mem' = Fill(Plan[i - 1], Plan[i - 1].expects) /\ i' = i - 1 /\ Writing'
    BY <1>3 DEF UndoHook, Writing
  <2>2. i - 1 \in 1..Len(Plan) /\ i - 1 \in 1..(i - 1)  BY <1>1, <1>2, <1>3
  <2>3. Plan[i - 1].expects = "original"  BY <1>1, <2>2 DEF WorldInv, IInv, PatchesHold
  <2>4. Written = Written' \cup Cells(Plan[i - 1])
    <3>1. 1..(i - 1) = (1..(i' - 1)) \cup {i - 1}  BY <1>1, <1>2, <1>3, <2>1
    <3> QED  BY <1>1, <2>1, <3>1 DEF Written
  <2>5. DOMAIN mem' = DOMAIN mem  BY <2>1 DEF Fill
  <2>6. \A a \in DOMAIN mem : mem'[a] = IF a \in Cells(Plan[i - 1]) THEN "original" ELSE mem[a]
    BY <2>1, <2>3 DEF Fill
  <2>7. Shown' = [a \in DOMAIN mem' |-> IF a \in Written' THEN "original" ELSE mem'[a]]
    BY DEF IInv, TypeOK, Shown
  <2> QED  BY <1>1, <2>4, <2>5, <2>6, <2>7, ShownBytes
<1>4. CASE ~(i > 1)
  <2>1. mem' = mem /\ ~Writing'  BY <1>4 DEF UndoHook, Writing
  <2>2. 1..(i - 1) = {}  BY <1>1, <1>2, <1>4
  <2>3. Written = {} /\ Written' = {}  BY <2>1, <2>2 DEF Written
  <2> QED  BY <2>1, <2>3 DEF Shown
<1> QED  BY <1>3, <1>4

\* The claim shows the whole plan at once.
LEMMA ClaimInstalls ==
    ASSUME WorldInv, OutcomesHold, Next, ClaimAll, WorldStopped
    PROVE  k \in Stages /\ AtOnce!Install(k)
<1> USE DEF code, peers, local, book
<1> DEFINE new == PlanBytes(k)
           owned == Owned
<1>0. /\ IInv /\ TypeOK /\ Running /\ pc = "write" /\ i \in 1..(Len(Plan) + 1)
  BY DEF ClaimAll, WorldInv, IInv, ProgressHolds, Active
<1>a. Len(Plan) \in Nat  BY <1>0, PlanInCode
<1>b. PlanIsFree  BY <1>0 DEF WorldInv, IInv, PlanHolds, Active
<1>c. UNCHANGED <<mem, eip>> /\ pc' = "resume" /\ claims' = claims \o ClaimsOf(Plan) /\ i > Len(Plan)
  BY DEF ClaimAll
<1>e. ClaimsDisjoint  BY DEF WorldInv, IInv
<1>d. i = Len(Plan) + 1  BY <1>0, <1>a, <1>c
<1>1. /\ IInv /\ TypeOK /\ Running /\ Writing /\ PlanIsFree /\ i = Len(Plan) + 1
      /\ UNCHANGED <<mem, eip>> /\ ~Writing' /\ claims' = claims \o ClaimsOf(Plan)
      /\ DOMAIN mem = Addr \cup {Slot}
  BY <1>0, <1>b, <1>c, <1>d DEF Writing, TypeOK
<1>2. /\ Len(Plan) \in Nat /\ new \subseteq Addr
      /\ \A l \in 1..Len(Plan) : Plan[l] \in HookType /\ Cells(Plan[l]) \subseteq Addr
      /\ \A a \in new : \E l \in 1..Len(Plan) : a \in Cells(Plan[l])
  BY <1>1, PlanInCode
<1>3. Written = new
  <2>1. 1..(i - 1) = 1..Len(Plan)  BY <1>1, <1>2
  <2> QED  BY <1>1, <2>1 DEF Written, PlanBytes
<1>4. /\ \A a \in new : Shown[a] = "original" /\ mem[a] = "patched"
      /\ \A a \in DOMAIN mem : a \notin new => Shown[a] = mem[a]
      /\ DOMAIN Shown = DOMAIN mem
  <2>1. \A a \in new : mem[a] = "patched"
    <3>1. SUFFICES ASSUME NEW l \in 1..Len(Plan), NEW a \in Cells(Plan[l])
                   PROVE  mem[a] = "patched"
      BY <1>2
    <3>2. l \in 1..(i - 1)  BY <1>1, <1>2
    <3> QED  BY <1>1, <3>2 DEF WorldInv, WrittenHolds
  <2> QED  BY <1>1, <1>2, <1>3, <2>1 DEF Shown
<1>5. Shown' = [a \in DOMAIN Shown |-> IF a \in new THEN "patched" ELSE Shown[a]]
  <2>1. Shown' = mem  BY <1>1 DEF Shown, Written, TypeOK
  <2>2. mem = [a \in DOMAIN mem |-> mem[a]]  BY <1>1 DEF TypeOK
  <2> QED  BY <1>4, <2>1, <2>2
<1>6. new \cap owned = {}
  <2>1. SUFFICES ASSUME NEW l \in 1..Len(Plan), NEW a \in Cells(Plan[l]), Claimed(a) PROVE FALSE
    BY <1>2, OwnedIsClaimed
  <2>2. PICK c \in 1..Len(claims) : a \in Cells(claims[c])  BY <2>1 DEF Claimed
  <2>3. ~Overlap(claims[c], Plan[l])  BY <1>1 DEF PlanIsFree
  <2>4. claims[c] \in [start : Nat, len : Nat]
    <3>1. claims \in Seq([start : Nat, len : Nat])  BY <1>1 DEF TypeOK
    <3> QED  BY <3>1, ElementOfSeq
  <2>5. claims[c].start \in Nat /\ claims[c].len \in Nat  BY <2>4
  <2>6. Plan[l].start \in Nat /\ Plan[l].len \in Nat  BY <1>2, HookFacts
  <2> QED  BY <2>2, <2>3, <2>5, <2>6, DisjointCells
<1>7. Owned' = owned \cup new
  <2>1. /\ \A c \in 1..Len(claims) : c \in 1..Len(claims') /\ claims'[c] = claims[c]
        /\ \A l \in 1..Len(Plan) : /\ (Len(claims) + l) \in 1..Len(claims')
                                   /\ Cells(claims'[Len(claims) + l]) = Cells(Plan[l])
    BY <1>1, <1>e, ClaimPlan
  <2>2. ASSUME NEW a, Claimed(a) \/ a \in new PROVE Claimed(a)'
    <3>1. CASE Claimed(a)  BY <2>1, <3>1 DEF Claimed
    <3>2. CASE a \in new
      <4>1. PICK l \in 1..Len(Plan) : a \in Cells(Plan[l])  BY <1>2, <3>2
      <4> QED  BY <2>1, <4>1 DEF Claimed
    <3> QED  BY <2>2, <3>1, <3>2
  <2>3. ASSUME NEW a, Claimed(a)' PROVE Claimed(a) \/ a \in new
    <3>1. PICK c \in 1..Len(claims') : a \in Cells(claims'[c])  BY <2>3 DEF Claimed
    <3>2. Len(claims) \in Nat /\ Len(claims') = Len(claims) + Len(Plan)
      <4>1. claims \in Seq([start : Nat, len : Nat])  BY <1>1 DEF TypeOK
      <4>2. ClaimsOf(Plan) \in Seq([start : Nat, len : Nat]) /\ Len(ClaimsOf(Plan)) = Len(Plan)
        BY <1>2, HookFacts DEF ClaimsOf
      <4>3. claims' = claims \o ClaimsOf(Plan)  BY <1>1
      <4>4. \A s, t \in Seq([start : Nat, len : Nat]) :
               Len(s) \in Nat /\ Len(s \o t) = Len(s) + Len(t)
        OBVIOUS
      <4> QED  BY <4>1, <4>2, <4>3, <4>4
    <3>3. CASE c <= Len(claims)
      <4>1. c \in 1..Len(claims)  BY <3>2, <3>3
      <4> QED  BY <2>1, <3>1, <4>1 DEF Claimed
    <3>4. CASE c > Len(claims)
      <4>1. c - Len(claims) \in 1..Len(Plan) /\ c = Len(claims) + (c - Len(claims))
        BY <1>2, <3>2, <3>4
      <4>2. a \in Cells(Plan[c - Len(claims)])  BY <2>1, <3>1, <4>1
      <4> QED  BY <4>1, <4>2 DEF PlanBytes
    <3> QED  BY <3>2, <3>3, <3>4
  <2>4. \A a : Claimed(a)' <=> Claimed(a) \/ a \in new  BY <2>2, <2>3
  <2>5. \A a : a \in Owned' <=> Claimed(a)'  BY DEF Owned, Claimed
  <2> QED  BY <2>4, <2>5, OwnedIsClaimed
<1>8. \A t \in Thread : eip[t] \notin new
  <2>1. SUFFICES ASSUME NEW t \in Thread, NEW l \in 1..Len(Plan), eip[t] \in Cells(Plan[l])
                 PROVE  FALSE
    BY <1>2
  <2>2. eip[t] # Outside  BY <1>2, <2>1, AddrAssumption DEF Outside, AddrAssumption
  <2>3. InGame(t) /\ t \in alive  BY <2>2 DEF WorldInv, EipsHold, InGame
  <2>4. t \in suspended  BY <1>1, <2>3, SelfIsBusy DEF WorldInv, WorldStops
  <2>5. pc = "write"  BY DEF ClaimAll
  <2> QED  BY <2>1, <2>4, <2>5 DEF WorldInv, EipsHold, InTarget
<1>9. Installed' = Installed \cup {k} /\ \A l \in Installed : l < k
  BY <1>1, InstalledStep
<1>10. k \in DOMAIN Plans /\ Plans[k] = new  BY <1>1 DEF Plans
<1> HIDE DEF new, owned
<1>11. k \in Stages  BY <1>1
<1>12. Owned = owned  BY DEF owned
<1>13. AtOnce!Install(k)
  BY <1>1, <1>4, <1>5, <1>6, <1>7, <1>8, <1>9, <1>10, <1>12 DEF AtOnce!Install
<1> QED  BY <1>11, <1>13

\* Every step is one that the promise allows, or none.
LEMMA AtOnceStep ==
    ASSUME WorldInv, OutcomesHold, Next, WorldStopped, WorldStopped'
    PROVE  [AtOnce!Next]_(AtOnce!vars)
<1> USE DEF code, peers, local, book
<1>t. IInv /\ TypeOK /\ ProgressHolds /\ WorldStops /\ DOMAIN mem = Addr \cup {Slot}
  BY DEF WorldInv, IInv, TypeOK
<1>i. IInv'  BY <1>t, IInvStep
<1>1. CASE SwapSlot
  <2>1. ~Writing /\ ~Writing' /\ claims = <<>> /\ UNCHANGED eip /\ ~ClaimAll
    BY <1>1, <1>t DEF SwapSlot, Writing, ProgressHolds, ClaimAll
  <2>2. Installed' = Installed  BY <1>t, <2>1, InstalledStep
  <2>3. Shown = mem /\ Shown' = mem'
    BY <1>t, <1>i, <2>1 DEF TypeOK, IInv, Shown, Written
  <2>4. CASE code' = code
    BY <2>1, <2>2, <2>3, <2>4, Unseen
  <2>5. CASE /\ mem' = [mem EXCEPT ![Slot] = "patched"]
             /\ claims' = Append(claims, [start |-> Slot, len |-> 1])
    <3>1. Owned = {}  BY <2>1 DEF Owned
    <3>2. Len(claims') = 1 /\ claims'[1] = [start |-> Slot, len |-> 1]  BY <2>1, <2>5
    <3>3. Cells(claims'[1]) = {Slot}
      BY <3>2, AddrAssumption DEF Cells, AddrAssumption
    <3>5. Owned' = {Slot}  BY <3>2, <3>3 DEF Owned
    <3>6. Installed = {}
      <4>1. pc = "swap"  BY <1>1 DEF SwapSlot
      <4> QED  BY <4>1, <1>t DEF Installed, WorldInv, OutcomesHold
    <3> QED  BY <2>1, <2>2, <2>3, <2>5, <3>1, <3>5, <3>6 DEF AtOnce!Next, AtOnce!Redirect
  <2> QED  BY <1>1, <2>4, <2>5 DEF SwapSlot
<1>2. CASE ClaimAll
  BY <1>2, ClaimInstalls DEF AtOnce!Next, Plans
<1>3. CASE WriteHook \/ UndoHook
  <2>1. claims' = claims /\ eip' = eip /\ ~ClaimAll
    BY <1>3, <1>t, StageFacts DEF WriteHook, UndoHook, ClaimAll
  <2>2. Installed' = Installed  BY <1>t, <2>1, InstalledStep
  <2>3. Shown' = Shown /\ DOMAIN mem' = DOMAIN mem  BY <1>3, <1>i, WriteUnseen, UndoUnseen
  <2> QED  BY <2>1, <2>2, <2>3, Unseen
<1>4. CASE AllSuspended
  <2>1. ~Writing /\ i' = 1 /\ UNCHANGED <<mem, claims, eip>> /\ ~ClaimAll
    BY <1>4, <1>t DEF AllSuspended, Writing, ProgressHolds, ClaimAll
  <2>2. 1..(i' - 1) = {}  BY <2>1
  <2>3. Written = {} /\ Written' = {}  BY <2>1, <2>2 DEF Written
  <2>4. Installed' = Installed  BY <1>t, <2>1, InstalledStep
  <2> QED  BY <2>1, <2>3, <2>4, Unseen DEF Shown
<1>5. CASE \/ ReadSlot \/ SkipStage \/ Prepare \/ Snapshot \/ OpenThread \/ AllOpen
           \/ SuspendThread \/ ResumeThread \/ EndTry \/ Retry
  <2>1. ~Writing /\ ~Writing' /\ UNCHANGED <<mem, claims, eip>> /\ ~ClaimAll
    BY <1>5 DEF ReadSlot, SkipStage, Prepare, Snapshot, OpenThread, AllOpen, SuspendThread,
                ResumeThread, EndTry, Retry, TryFailed, Finish, Writing, ClaimAll
  <2>2. Installed' = Installed  BY <1>t, <2>1, InstalledStep
  <2> QED  BY <2>1, <2>2, Unseen DEF Shown, Written
<1>6. CASE \E t \in Thread : Enter(t) \/ Advance(t)
  <2>1. PICK t \in Thread : Enter(t) \/ Advance(t)  BY <1>6
  <2>2. Free(t) /\ t \in alive /\ UNCHANGED <<mem, claims, outcome, k, pc, ok, i>>
    BY <2>1 DEF Enter, Advance, Free, InGame
  <2>3. Written = {} /\ Written' = {}
    <3>1. ~(Writing /\ i > 1)  BY <1>t, <2>2, NobodyRuns
    <3>2. i \in Nat /\ (i <= 1 => 1..(i - 1) = {})  BY <1>t DEF TypeOK
    <3>3. Written = {}  BY <3>1, <3>2 DEF Written
    <3> QED  BY <2>2, <3>3 DEF Written, Writing
  <2>4. Shown = mem /\ Shown' = mem  BY <2>2, <2>3 DEF Shown
  <2>5. \E a \in Addr \cup {Outside} :
           (a # Outside => mem[a] # "patched") /\ eip' = [eip EXCEPT ![t] = a]
    <3>1. CASE Enter(t)
      <4>1. PICK h \in Prologue :
               eip' = [eip EXCEPT ![t] = IF mem[h.start] = "original" THEN h.start ELSE Outside]
        BY <3>1 DEF Enter
      <4>2. h \in HookType  BY StageFacts DEF Prologue
      <4> QED  BY <4>1, <4>2, HookFacts
    <3>2. CASE Advance(t)
      <4>1. CASE eip' = [eip EXCEPT ![t] = Outside]  BY <4>1
      <4>2. CASE /\ \E h \in Prologue : {eip[t], eip[t] + 1} \subseteq Cells(h)
                 /\ mem[eip[t] + 1] # "patched"
                 /\ eip' = [eip EXCEPT ![t] = @ + 1]
        <5>1. PICK h \in Prologue : eip[t] + 1 \in Cells(h)  BY <4>2
        <5>2. PICK j \in Stages : \E l \in 1..Len(Stage[j].hooks) : h = Stage[j].hooks[l]
          BY <5>1 DEF Prologue
        <5>3. Cells(h) \subseteq Addr  BY <5>2, StageFacts
        <5>4. eip[t] + 1 \in Addr  BY <5>1, <5>3
        <5> QED  BY <4>2, <5>4
      <4> QED  BY <3>2, <4>1, <4>2 DEF Advance
    <3> QED  BY <2>1, <3>1, <3>2
  <2>6. Installed' = Installed /\ Owned' = Owned
    BY <2>2 DEF Installed, Owned
  <2>7. AtOnce!Walk(t)  BY <2>2, <2>4, <2>5, <2>6 DEF AtOnce!Walk
  <2> QED  BY <2>7 DEF AtOnce!Next
<1>7. CASE \E t \in Thread : ThreadExit(t) \/ ThreadStart(t)
  <2>1. UNCHANGED <<code, eip, local, book, pc>>  BY <1>7 DEF ThreadExit, ThreadStart
  <2>2. Shown' = Shown /\ Installed' = Installed
    BY <2>1 DEF Shown, Written, Writing, Installed
  <2> QED  BY <2>1, <2>2, Unseen
<1>8. CASE \E a \in ForeignAddr : ForeignPatch(a)
  <2>1. PICK a \in ForeignAddr : ForeignPatch(a)  BY <1>8
  <2>2. a \in Addr \cup {Slot}  BY BoundAssumption DEF BoundAssumption
  <2>3. /\ mem' = [mem EXCEPT ![a] = "foreign"] /\ \E t \in alive : Free(t)
        /\ UNCHANGED <<claims, outcome, k, pc, ok, i, eip>>
    BY <2>1 DEF ForeignPatch
  <2>4. Written = {} /\ Written' = {}
    <3>1. ~(Writing /\ i > 1)  BY <1>t, <2>3, NobodyRuns
    <3>2. i \in Nat /\ (i <= 1 => 1..(i - 1) = {})  BY <1>t DEF TypeOK
    <3>3. Written = {}  BY <3>1, <3>2 DEF Written
    <3> QED  BY <2>3, <3>3 DEF Written, Writing
  <2>5. Shown = mem /\ Shown' = mem'  BY <2>4 DEF Shown
  <2>6. Installed' = Installed /\ DOMAIN mem' = DOMAIN mem /\ Owned' = Owned
    BY <2>3 DEF Installed, Owned
  <2>7. AtOnce!ForeignPatch(a)  BY <2>3, <2>5, <2>6 DEF AtOnce!ForeignPatch
  <2> QED  BY <2>2, <2>7 DEF AtOnce!Next
<1> QED  BY <1>1, <1>2, <1>3, <1>4, <1>5, <1>6, <1>7, <1>8 DEF Next, Step, Others

\* To the threads of the game and to other modules install_hooks appears to act in
\* one instant, or not at all, at every stage that ran while no peer did, whatever
\* threads the stages before it missed.
THEOREM StagesAppearAtOnce == Spec => AppearsAtOnce
<1>1. Init => AtOnce!Init /\ OutcomesHold
  <2> SUFFICES ASSUME Init PROVE AtOnce!Init /\ OutcomesHold
    OBVIOUS
  <2>1. ~Writing /\ claims = <<>> /\ DOMAIN mem = Addr \cup {Slot}  BY DEF Init, Writing
  <2>2. Shown = mem  BY <2>1 DEF Init, Shown, Written
  <2>3. Owned = {}  BY <2>1 DEF Owned
  <2>4. Installed = {} /\ OutcomesHold  BY DEF Init, Installed, OutcomesHold
  <2> QED  BY <2>2, <2>3, <2>4 DEF Init, AtOnce!Init
<1>2. WorldInv /\ OutcomesHold /\ [Next]_vars => OutcomesHold'
  <2>1. OutcomesHold /\ UNCHANGED vars => OutcomesHold'  BY DEF OutcomesHold, vars, book
  <2> QED  BY <2>1, InstalledStep DEF WorldInv
<1>3. WorldInv /\ OutcomesHold /\ [Next]_vars
         => [WorldStopped /\ WorldStopped' => AtOnce!Next]_(AtOnce!vars)
  <2>1. UNCHANGED vars => UNCHANGED AtOnce!vars
    BY DEF vars, code, peers, local, book, AtOnce!vars, Shown, Written, Writing, Installed, Owned
  <2> QED  BY <2>1, AtOnceStep
<1> QED  BY <1>1, <1>2, <1>3, WorldInvariance, PTL DEF Spec, AppearsAtOnce

(***************************************************************************)
(* The way to the end of the stages.                                       *)
(***************************************************************************)

\* The sets of a try are finite, because the threads are.
LEMMA PeersAreFinite ==
    ASSUME TypeOK
    PROVE  /\ IsFiniteSet(toOpen) /\ Cardinality(toOpen) \in Nat
           /\ IsFiniteSet(opened) /\ Cardinality(opened) \in Nat
           /\ IsFiniteSet(suspended) /\ Cardinality(suspended) \in Nat
  BY ThreadAssumption, FS_Subset, FS_CardinalityType DEF TypeOK

LEMMA AheadType ==
    ASSUME TypeOK, ProgressHolds
    PROVE  Ahead \in Nat \X Nat \X Nat \X Nat
<1>1. k \in 1..(Len(Stage) + 1) /\ Len(Stage) \in Nat  BY StageAssumption DEF TypeOK
<1>2. StagesLeft \in Nat  BY <1>1 DEF StagesLeft
<1>3. TriesLeft \in Nat
  <2>1. CASE k \in Stages
    <3>1. tried[k] \in Nat /\ tried[k] <= Stage[k].tries  BY <2>1 DEF TypeOK
    <3>2. Stage[k].tries \in Nat  BY <2>1, StageFacts
    <3>3. Stage[k].tries - tried[k] \in Nat  BY <3>1, <3>2
    <3> QED  BY <2>1, <3>3 DEF TriesLeft
  <2> QED  BY <2>1 DEF TriesLeft
<1>4. PhasesLeft \in Nat  BY DEF PhasesLeft, TypeOK, Pcs
<1>5. PhaseLeft \in Nat
  <2>1. CASE pc \in {"write", "undo"}
    <3>1. Len(Plan) \in Nat /\ i \in 1..(Len(Plan) + 1)
      BY <1>1, <2>1, StageFacts DEF ProgressHolds, Active
    <3> QED  BY <2>1, <3>1 DEF PhaseLeft
  <2>2. CASE pc \notin {"write", "undo"}  BY <2>2, PeersAreFinite DEF PhaseLeft
  <2> QED  BY <2>1, <2>2
<1> QED  BY <1>2, <1>3, <1>4, <1>5 DEF Ahead

\* A stage that is over, or a try that failed.
LEMMA FinishNearer ==
    ASSUME TypeOK, Running, NEW result, Finish(result)
    PROVE  StagesLeft' < StagesLeft
<1>1. k \in 1..Len(Stage) /\ Len(Stage) \in Nat  BY StageAssumption
<1>2. k' \in {k + 1, Len(Stage) + 1}  BY DEF Finish
<1> QED  BY <1>1, <1>2 DEF StagesLeft

LEMMA TryFailedNearer ==
    ASSUME TypeOK, Running, NEW why, TryFailed(why), UNCHANGED tried,
           pc \in {"open", "resume"}
    PROVE  Nearer
<1>1. CASE Finish(why)  BY <1>1, FinishNearer DEF Nearer
<1>2. CASE pc' = "sleep" /\ UNCHANGED k
  <2>1. PhasesLeft' < PhasesLeft  BY <1>2 DEF PhasesLeft
  <2> QED  BY <1>2, <2>1 DEF Nearer, StagesLeft, TriesLeft
<1> QED  BY <1>1, <1>2 DEF TryFailed

\* A step that keeps the stage and the tries and begins a later phase.
LEMMA PhaseNearer ==
    ASSUME UNCHANGED <<k, tried>>,
           <<pc, pc'>> \in {<<"boot", "swap">>, <<"boot", "next">>, <<"swap", "next">>,
                            <<"next", "snapshot">>, <<"open", "suspend">>,
                            <<"suspend", "resume">>, <<"suspend", "write">>,
                            <<"write", "undo">>, <<"write", "resume">>,
                            <<"undo", "resume">>, <<"sleep", "snapshot">>}
    PROVE  Nearer
<1>1. PhasesLeft' < PhasesLeft  BY DEF PhasesLeft
<1> QED  BY <1>1 DEF Nearer, StagesLeft, TriesLeft

\* A step within a phase.
LEMMA WithinNearer ==
    ASSUME UNCHANGED <<k, tried, pc>>, PhaseLeft' < PhaseLeft
    PROVE  Nearer
  BY DEF Nearer, StagesLeft, TriesLeft, PhasesLeft

LEMMA StepIsNearer ==
    ASSUME TypeOK, ProgressHolds, Step
    PROVE  Nearer
<1> USE DEF code, peers, local, book
<1>k. k \in Nat /\ Len(Stage) \in Nat  BY StageAssumption DEF TypeOK
<1>1. CASE ReadSlot  BY <1>1, PhaseNearer DEF ReadSlot
<1>2. CASE SwapSlot  BY <1>2, PhaseNearer DEF SwapSlot
<1>3. CASE SkipStage
  <2>1. k' = k + 1  BY <1>3 DEF SkipStage
  <2> QED  BY <1>k, <2>1 DEF Nearer, StagesLeft
<1>4. CASE Prepare
  <2>1. CASE Finish("refused")  BY <1>4, <2>1, FinishNearer DEF Prepare, Nearer
  <2>2. CASE pc' = "snapshot" /\ UNCHANGED <<k, outcome>>
    BY <1>4, <2>2, PhaseNearer DEF Prepare
  <2> QED  BY <1>4, <2>1, <2>2 DEF Prepare
<1>5. CASE Snapshot
  <2>1. Running /\ tried' = [tried EXCEPT ![k] = @ + 1]
    BY <1>5 DEF Snapshot, ProgressHolds, Active
  <2>2. CASE Finish("failed")  BY <2>1, <2>2, FinishNearer DEF Nearer
  <2>3. CASE UNCHANGED k
    <3>1. tried[k] \in Nat /\ Stage[k].tries \in Nat  BY <2>1, StageFacts DEF TypeOK
    <3>2. tried'[k] = tried[k] + 1  BY <2>1 DEF TypeOK
    <3>3. TriesLeft' < TriesLeft  BY <2>1, <2>3, <3>1, <3>2 DEF TriesLeft
    <3> QED  BY <2>3, <3>3 DEF Nearer, StagesLeft
  <2> QED  BY <1>5, <2>2, <2>3 DEF Snapshot, TryFailed
<1>6. CASE OpenThread
  <2>1. Running /\ pc = "open"  BY <1>6 DEF OpenThread, ProgressHolds, Active
  <2>2. CASE TryFailed("failed") /\ UNCHANGED tried  BY <2>1, <2>2, TryFailedNearer
  <2>3. ASSUME NEW t \in toOpen, toOpen' = toOpen \ {t}, UNCHANGED <<pc, book>> PROVE Nearer
    <3>1. Cardinality(toOpen') = Cardinality(toOpen) - 1 /\ Cardinality(toOpen) \in Nat
      BY <2>3, PeersAreFinite, FS_RemoveElement
    <3>2. PhaseLeft' < PhaseLeft  BY <2>1, <2>3, <3>1 DEF PhaseLeft
    <3> QED  BY <2>3, <3>2, WithinNearer
  <2> QED  BY <1>6, <2>2, <2>3 DEF OpenThread
<1>7. CASE AllOpen  BY <1>7, PhaseNearer DEF AllOpen
<1>8. CASE SuspendThread
  <2>1. pc = "suspend" /\ UNCHANGED <<k, tried>>  BY <1>8 DEF SuspendThread
  <2>2. CASE pc' = "resume"  BY <2>1, <2>2, PhaseNearer
  <2>3. ASSUME NEW t \in opened, opened' = opened \ {t}, UNCHANGED pc PROVE Nearer
    <3>1. Cardinality(opened') = Cardinality(opened) - 1 /\ Cardinality(opened) \in Nat
      BY <2>3, PeersAreFinite, FS_RemoveElement
    <3>2. PhaseLeft' < PhaseLeft  BY <2>1, <2>3, <3>1 DEF PhaseLeft
    <3> QED  BY <2>1, <2>3, <3>2, WithinNearer
  <2> QED  BY <1>8, <2>2, <2>3 DEF SuspendThread
<1>9. CASE AllSuspended  BY <1>9, PhaseNearer DEF AllSuspended
<1>10. CASE WriteHook
  <2>1. pc = "write" /\ UNCHANGED <<k, tried>>  BY <1>10 DEF WriteHook
  <2>2. CASE pc' = "undo"  BY <2>1, <2>2, PhaseNearer
  <2>3. CASE i' = i + 1 /\ UNCHANGED pc
    <3>1. i \in Nat /\ Len(Plan) \in Nat
      BY <1>10, StageFacts DEF WriteHook, ProgressHolds, Active, TypeOK
    <3>2. PhaseLeft' < PhaseLeft  BY <2>1, <2>3, <3>1 DEF PhaseLeft
    <3> QED  BY <2>1, <2>3, <3>2, WithinNearer
  <2> QED  BY <1>10, <2>2, <2>3 DEF WriteHook
<1>11. CASE UndoHook
  <2>1. pc = "undo" /\ UNCHANGED <<k, tried>>  BY <1>11 DEF UndoHook
  <2>2. CASE pc' = "resume"  BY <2>1, <2>2, PhaseNearer
  <2>3. CASE i' = i - 1 /\ UNCHANGED pc
    <3>1. PhaseLeft' < PhaseLeft  BY <2>1, <2>3 DEF PhaseLeft, TypeOK
    <3> QED  BY <2>1, <2>3, <3>1, WithinNearer
  <2> QED  BY <1>11, <2>2, <2>3 DEF UndoHook
<1>12. CASE ClaimAll  BY <1>12, PhaseNearer DEF ClaimAll
<1>13. CASE ResumeThread
  <2>1. PICK t \in suspended : suspended' = suspended \ {t}  BY <1>13 DEF ResumeThread
  <2>2. /\ Cardinality(suspended') = Cardinality(suspended) - 1
        /\ Cardinality(suspended) \in Nat
    BY <2>1, PeersAreFinite, FS_RemoveElement
  <2>3. PhaseLeft' < PhaseLeft  BY <1>13, <2>2 DEF ResumeThread, PhaseLeft
  <2> QED  BY <1>13, <2>3, WithinNearer DEF ResumeThread
<1>14. CASE EndTry
  <2>1. Running /\ pc = "resume" /\ UNCHANGED tried
    BY <1>14 DEF EndTry, ProgressHolds, Active
  <2>2. CASE Finish("on")  BY <2>1, <2>2, FinishNearer DEF Nearer
  <2>3. CASE TryFailed(outcome[k])  BY <2>1, <2>3, TryFailedNearer
  <2> QED  BY <1>14, <2>2, <2>3 DEF EndTry
<1>15. CASE Retry  BY <1>15, PhaseNearer DEF Retry
<1> QED
  BY <1>1, <1>2, <1>3, <1>4, <1>5, <1>6, <1>7, <1>8, <1>9, <1>10, <1>11, <1>12, <1>13,
     <1>14, <1>15 DEF Step

\* Whatever the Win32 calls do and whatever threads come, go or stand in a prefix,
\* the stages are over after a number of steps of the installing threads that is
\* fixed when they begin (hooks.h install_hooks, crawl.c start_native).
THEOREM InstallerOnlyAdvances == Spec => OnlyForward
<1>1. IInv => Ahead \in Nat \X Nat \X Nat \X Nat
  BY AheadType DEF IInv
<1>2. IInv /\ [Next]_vars => [(Step => Nearer) /\ (Others => UNCHANGED Ahead)]_vars
  <2>1. IInv /\ Step => Nearer  BY StepIsNearer DEF IInv
  <2>2. Others => UNCHANGED Ahead
    BY DEF Others, Enter, Advance, ThreadExit, ThreadStart, ForeignPatch, code, peers, local,
           book, Ahead, StagesLeft, TriesLeft, PhasesLeft, PhaseLeft
  <2> QED  BY <2>1, <2>2
<1> QED  BY <1>1, <1>2, Invariance, PTL DEF Spec, OnlyForward
=============================================================================
