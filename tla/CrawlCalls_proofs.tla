--------------------------- MODULE CrawlCalls_proofs ---------------------------
(***************************************************************************)
(* The redirected calls, for any threads, vehicles, stacks and nesting.    *)
(* Each stack of calls is paired with the native calls of its thread, and  *)
(* what it has saved leads back to the game's own rate.                    *)
(***************************************************************************)
EXTENDS CrawlCalls, SequenceTheorems, TLAPS

\* What a call of the routine saves.
SlotOf(fn) == IF fn \in Visual THEN fn ELSE "none"

\* Each saved return is that of a native call which comes back through the gateway,
\* in the order of nesting, and there is one for each of them.
Paired(ns, cs) ==
    /\ \A k \in 1..Len(cs) :
          /\ cs[k].home \in 1..Len(ns)
          /\ ns[cs[k].home].left /\ cs[k].of = ns[cs[k].home].of
          /\ cs[k].slot = SlotOf(ns[cs[k].home].fn)
    /\ \A k \in 1..Len(cs), l \in 1..Len(cs) : k < l => cs[k].home < cs[l].home
    /\ \A i \in 1..Len(ns) : ns[i].left => \E k \in 1..Len(cs) : cs[k].home = i

\* The call has saved what drawing routine d reads for vehicle v.
Saves(c, d, v) == c.slot = d /\ c.of = v

\* A rate is crawling's exactly while a call that saved it is under way; the first of these
\* calls has saved the game's, and every later one crawling's.
LeadsBack(cs, rate, d, v) ==
    /\ rate = "crawl" <=> \E k \in 1..Len(cs) : Saves(cs[k], d, v)
    /\ \A k \in 1..Len(cs) :
          Saves(cs[k], d, v) =>
             (cs[k].bits = "crawl" <=> \E l \in 1..Len(cs) : l < k /\ Saves(cs[l], d, v))

\* While the gate is open every derivative is pushed, unless it is still in its hook.
PitchesPushed ==
    enabled /\ ~stopped =>
       \A i \in 1..Len(native[Sim]) :
          native[Sim][i].fn = "PITCH" =>
             native[Sim][i].left \/ (i = Len(native[Sim]) /\ gate[Sim] # "through")

InHook(t) == gate[t] # "through" => native[t] # <<>> /\ ~native[t][Len(native[t])].left

Drawn(t) == \A i \in 1..Len(native[t]) : native[t][i].fn \in Visual => t = Drawer[native[t][i].of]

CallsInv ==
    /\ CallsTypeOK
    /\ \A t \in Thread : Paired(native[t], calls[t]) /\ InHook(t) /\ Drawn(t)
    /\ \A d \in Visual, v \in Vehicle : LeadsBack(calls[Drawer[v]], visual[d][v], d, v)
    /\ PitchesPushed /\ OwnInputOnly

-----------------------------------------------------------------------------
(* What the steps do to two stacks that are paired. *)

LEMMA PopType ==
    ASSUME NEW S, NEW s \in Seq(S), s # <<>>
    PROVE  /\ Pop(s) \in Seq(S) /\ Len(Pop(s)) = Len(s) - 1 /\ Len(s) \in Nat \ {0}
           /\ \A i \in 1..Len(s) - 1 : Pop(s)[i] = s[i]
<1> DEFINE m == Len(s) - 1
<1>1. Len(s) \in Nat \ {0} /\ m \in Nat /\ 1 \in Int /\ \A i \in 1..m : s[i] \in S
  OBVIOUS
<1> HIDE DEF m
<1>2. /\ SubSeq(s, 1, m) \in Seq(S)
      /\ Len(SubSeq(s, 1, m)) = IF 1 <= m THEN m - 1 + 1 ELSE 0
      /\ \A i \in 1..m - 1 + 1 : SubSeq(s, 1, m)[i] = s[1 + i - 1]
  BY <1>1, SubSeqProperties
<1>3. m - 1 + 1 = m /\ \A i \in 1..m : 1 + i - 1 = i
  BY <1>1
<1>4. Pop(s) = SubSeq(s, 1, m)
  BY DEF Pop, m
<1>5. Len(Pop(s)) = m /\ \A i \in 1..m : Pop(s)[i] = s[i]
  BY <1>1, <1>2, <1>3, <1>4
<1> QED  BY <1>1, <1>2, <1>4, <1>5 DEF m

LEMMA EnterPairs ==
    ASSUME NEW ns \in Seq(NativeCall), NEW cs \in Seq(Call), Paired(ns, cs),
           NEW n \in NativeCall, ~n.left
    PROVE  Paired(Append(ns, n), cs)
<1>1. /\ Len(Append(ns, n)) = Len(ns) + 1 /\ Len(ns) \in Nat
      /\ \A i \in 1..Len(ns) : Append(ns, n)[i] = ns[i]
      /\ Append(ns, n)[Len(ns) + 1] = n
  OBVIOUS
<1> DEFINE ms == Append(ns, n)
<1> HIDE DEF ms
<1>2. \A i \in 1..Len(ms) : ms[i].left => i \in 1..Len(ns)
  BY <1>1 DEF ms
<1>3. /\ Len(ms) = Len(ns) + 1 /\ \A i \in 1..Len(ns) : ms[i] = ns[i]
  BY <1>1 DEF ms
<1>4. \A k \in 1..Len(cs) : cs[k].home \in 1..Len(ms) /\ ms[cs[k].home] = ns[cs[k].home]
  BY <1>1, <1>3 DEF Paired
<1>5. \A i \in 1..Len(ms) : ms[i].left => i \in 1..Len(ns) /\ ns[i].left
  BY <1>2, <1>3
<1>6. Paired(ms, cs)
  BY <1>4, <1>5 DEF Paired
<1> QED  BY <1>6 DEF ms

LEMMA PushPairs ==
    ASSUME NEW ns \in Seq(NativeCall), NEW cs \in Seq(Call), Paired(ns, cs),
           NEW m \in Nat \ {0}, m = Len(ns), ~ns[m].left,
           NEW ms \in Seq(NativeCall), Len(ms) = m,
           \A i \in 1..m : i # m => ms[i] = ns[i],
           ms[m].left,
           NEW c \in Call, c.home = m, c.of = ms[m].of, c.slot = SlotOf(ms[m].fn)
    PROVE  Paired(ms, Append(cs, c))
<1> DEFINE ds == Append(cs, c)
           n  == Len(cs)
<1>1. /\ Len(ds) = n + 1 /\ n \in Nat /\ ds[n + 1] = c
      /\ \A k \in 1..n : ds[k] = cs[k]
  OBVIOUS
<1> HIDE DEF ds
<1>2. \A k \in 1..n : cs[k].home \in 1..m /\ cs[k].home # m /\ ds[k] = cs[k]
  BY <1>1 DEF Paired
<1>3. \A k \in 1..n + 1 :
         /\ ds[k].home \in 1..m /\ ms[ds[k].home].left /\ ds[k].of = ms[ds[k].home].of
         /\ ds[k].slot = SlotOf(ms[ds[k].home].fn)
  <2>1. ASSUME NEW k \in 1..n
        PROVE  /\ ds[k].home \in 1..m /\ ms[ds[k].home].left /\ ds[k].of = ms[ds[k].home].of
               /\ ds[k].slot = SlotOf(ms[ds[k].home].fn)
    <3>1. ds[k] = cs[k] /\ cs[k].home \in 1..m /\ ms[cs[k].home] = ns[cs[k].home]
      BY <1>2
    <3> QED  BY <3>1 DEF Paired
  <2>2. \A k \in 1..n + 1 : k \in 1..n \/ k = n + 1  BY <1>1
  <2> QED  BY <1>1, <2>1, <2>2
<1>4. ASSUME NEW k \in 1..n + 1, NEW l \in 1..n + 1, k < l
      PROVE  ds[k].home < ds[l].home
  <2>1. k \in 1..n  BY <1>1, <1>4
  <2>2. CASE l = n + 1
    BY <1>1, <1>2, <2>1, <2>2
  <2>3. CASE l # n + 1
    <3>1. l \in 1..n  BY <1>1, <2>3
    <3> QED  BY <1>2, <1>4, <2>1, <3>1 DEF Paired
  <2> QED  BY <2>2, <2>3
<1>5. ASSUME NEW i \in 1..m, ms[i].left PROVE \E k \in 1..n + 1 : ds[k].home = i
  <2>1. CASE i = m
    <3>1. n + 1 \in 1..n + 1  BY <1>1
    <3> QED  BY <1>1, <2>1, <3>1
  <2>2. CASE i # m
    <3>1. PICK k \in 1..n : cs[k].home = i
      BY <1>5, <2>2 DEF Paired
    <3>2. k \in 1..n + 1  BY <1>1
    <3> QED  BY <1>2, <3>1, <3>2
  <2> QED  BY <2>1, <2>2
<1>6. Paired(ms, ds)
  BY <1>1, <1>3, <1>4, <1>5 DEF Paired
<1> QED  BY <1>6 DEF ds

LEMMA PlainPairs ==
    ASSUME NEW ns \in Seq(NativeCall), NEW cs \in Seq(Call), Paired(ns, cs),
           ns # <<>>, ~ns[Len(ns)].left
    PROVE  Paired(Pop(ns), cs)
<1> DEFINE ms == Pop(ns)
           m  == Len(ns)
<1>1. /\ Len(ms) = m - 1 /\ m \in Nat \ {0} /\ \A i \in 1..m - 1 : ms[i] = ns[i]
  BY PopType
<1> HIDE DEF ms
<1>2. \A k \in 1..Len(cs) : cs[k].home \in 1..Len(ms) /\ ms[cs[k].home] = ns[cs[k].home]
  <2>1. SUFFICES ASSUME NEW k \in 1..Len(cs)
                 PROVE  cs[k].home \in 1..Len(ms) /\ ms[cs[k].home] = ns[cs[k].home]
    OBVIOUS
  <2>2. cs[k].home \in 1..m /\ ns[cs[k].home].left
    BY DEF Paired
  <2>3. cs[k].home # m
    BY <2>2
  <2>4. cs[k].home \in 1..m - 1
    BY <1>1, <2>2, <2>3
  <2> QED  BY <1>1, <2>4
<1>4. \A i \in 1..Len(ms) : i \in 1..m /\ ms[i] = ns[i]
  BY <1>1
<1>3. Paired(ms, cs)
  BY <1>2, <1>4 DEF Paired
<1> QED  BY <1>3 DEF ms

\* The call that returns next is the one that was saved last.
LEMMA LeavePairs ==
    ASSUME NEW ns \in Seq(NativeCall), NEW cs \in Seq(Call), Paired(ns, cs),
           ns # <<>>, ns[Len(ns)].left
    PROVE  /\ cs # <<>> /\ cs[Len(cs)].home = Len(ns)
           /\ Paired(Pop(ns), Pop(cs))
<1> DEFINE ms == Pop(ns)
           ds == Pop(cs)
           m  == Len(ns)
           n  == Len(cs)
<1>1. /\ Len(ms) = m - 1 /\ m \in Nat \ {0} /\ \A i \in 1..m - 1 : ms[i] = ns[i]
  BY PopType
<1>2. PICK k \in 1..n : cs[k].home = m
  BY <1>1 DEF Paired
<1>3. cs # <<>> /\ n \in Nat \ {0} /\ k \in Nat
  OBVIOUS
<1>4. k = n
  <2>1. SUFFICES ASSUME k < n PROVE FALSE
    BY <1>3
  <2>2. n \in 1..n /\ cs[k].home < cs[n].home /\ cs[n].home \in 1..m
    BY <1>3, <2>1 DEF Paired
  <2> QED  BY <1>1, <1>2, <2>2
<1>5. Len(ds) = n - 1 /\ \A j \in 1..n - 1 : ds[j] = cs[j]
  BY <1>3, PopType
<1> HIDE DEF ms, ds
<1>6. \A j \in 1..n - 1 : cs[j].home \in 1..m - 1 /\ j \in 1..n
  <2>1. SUFFICES ASSUME NEW j \in 1..n - 1 PROVE cs[j].home \in 1..m - 1 /\ j \in 1..n
    OBVIOUS
  <2>2. j \in 1..n /\ n \in 1..n /\ j < n  BY <1>3
  <2>3. cs[j].home \in 1..m /\ cs[j].home < cs[n].home  BY <2>2 DEF Paired
  <2> QED  BY <1>1, <1>2, <1>4, <2>2, <2>3
<1>7. ASSUME NEW i \in 1..m - 1, ms[i].left PROVE \E j \in 1..n - 1 : ds[j].home = i
  <2>1. PICK j \in 1..n : cs[j].home = i
    BY <1>1, <1>7 DEF Paired
  <2>2. j # n  BY <1>1, <1>2, <1>4, <2>1
  <2>3. j \in 1..n - 1  BY <1>3, <2>2
  <2> QED  BY <1>5, <2>1, <2>3
<1>8. /\ \A j \in 1..Len(ds) : j \in 1..n /\ ds[j] = cs[j]
      /\ \A j \in 1..Len(ds) : ds[j].home \in 1..Len(ms) /\ ms[ds[j].home] = ns[ds[j].home]
  BY <1>1, <1>3, <1>5, <1>6
<1>9. \A i \in 1..Len(ms) : ms[i].left => \E j \in 1..Len(ds) : ds[j].home = i
  BY <1>1, <1>5, <1>7
<1> HIDE DEF n, m
<1>10. Paired(ms, ds)
  BY <1>8, <1>9 DEF Paired, n, m
<1> QED  BY <1>2, <1>3, <1>4, <1>10 DEF ms, ds, n, m

LEMMA PushLeads ==
    ASSUME NEW cs \in Seq(Call), NEW rate, NEW d, NEW v, LeadsBack(cs, rate, d, v),
           NEW c \in Call, Saves(c, d, v) => c.bits = rate,
           NEW now, now = IF Saves(c, d, v) THEN "crawl" ELSE rate
    PROVE  LeadsBack(Append(cs, c), now, d, v)
<1> DEFINE ds == Append(cs, c)
           n  == Len(cs)
<1>1. /\ Len(ds) = n + 1 /\ n \in Nat /\ ds[n + 1] = c
      /\ \A k \in 1..n : ds[k] = cs[k]
      /\ \A k \in 1..n + 1 : k \in 1..n \/ k = n + 1
      /\ \A k \in 1..n : k \in 1..n + 1 /\ k < n + 1
      /\ n + 1 \in 1..n + 1
  OBVIOUS
<1> HIDE DEF ds, n
<1>2. now = "crawl" <=> \E k \in 1..n + 1 : Saves(ds[k], d, v)
  BY <1>1 DEF LeadsBack, n
<1>3. ASSUME NEW k \in 1..n + 1, Saves(ds[k], d, v)
      PROVE  ds[k].bits = "crawl" <=> \E l \in 1..n + 1 : l < k /\ Saves(ds[l], d, v)
  <2>1. CASE k \in 1..n
    <3>1. ds[k] = cs[k] /\ Saves(cs[k], d, v)  BY <1>1, <1>3, <2>1
    <3>2. \A l \in 1..n + 1 : l < k => l \in 1..n /\ ds[l] = cs[l]  BY <1>1, <2>1
    <3>3. \A l \in 1..n : l \in 1..n + 1 /\ ds[l] = cs[l]  BY <1>1
    <3> QED  BY <2>1, <3>1, <3>2, <3>3 DEF LeadsBack, n
  <2>2. CASE k = n + 1
    <3>1. c.bits = rate /\ ds[k] = c  BY <1>1, <1>3, <2>2
    <3>2. \A l \in 1..n + 1 : l < k => l \in 1..n /\ ds[l] = cs[l]  BY <1>1, <2>2
    <3>3. \A l \in 1..n : l \in 1..n + 1 /\ l < k /\ ds[l] = cs[l]  BY <1>1, <2>2
    <3> QED  BY <3>1, <3>2, <3>3 DEF LeadsBack, n
  <2> QED  BY <1>1, <2>1, <2>2
<1>4. LeadsBack(ds, now, d, v)
  BY <1>1, <1>2, <1>3 DEF LeadsBack
<1> QED  BY <1>4 DEF ds

LEMMA PopLeads ==
    ASSUME NEW cs \in Seq(Call), cs # <<>>, NEW rate, NEW d, NEW v,
           LeadsBack(cs, rate, d, v),
           NEW now, now = IF Saves(cs[Len(cs)], d, v) THEN cs[Len(cs)].bits ELSE rate
    PROVE  LeadsBack(Pop(cs), now, d, v)
<1> DEFINE ds == Pop(cs)
           n  == Len(cs)
<1>1. /\ Len(ds) = n - 1 /\ n \in Nat \ {0} /\ \A k \in 1..n - 1 : ds[k] = cs[k]
  BY PopType
<1>2. /\ \A k \in 1..n : k \in 1..n - 1 \/ k = n
      /\ \A k \in 1..n - 1 : k \in 1..n
      /\ n \in 1..n
      /\ \A k \in 1..n, l \in 1..n : l < k => l \in 1..n - 1
  BY <1>1
<1> HIDE DEF ds, n
<1>3. now = "crawl" <=> \E k \in 1..n - 1 : Saves(ds[k], d, v)
  <2>1. CASE Saves(cs[n], d, v)
    <3>1. now = "crawl" <=> \E l \in 1..n : l < n /\ Saves(cs[l], d, v)
      BY <1>2, <2>1 DEF LeadsBack, n
    <3>2. \A l \in 1..n - 1 : l \in 1..n /\ l < n /\ ds[l] = cs[l]  BY <1>1
    <3> QED  BY <1>2, <3>1, <3>2
  <2>2. CASE ~Saves(cs[n], d, v)
    <3>1. now = "crawl" <=> \E l \in 1..n : Saves(cs[l], d, v)
      BY <2>2 DEF LeadsBack, n
    <3> QED  BY <1>1, <1>2, <2>2, <3>1
  <2> QED  BY <2>1, <2>2
<1>4. ASSUME NEW k \in 1..n - 1, Saves(ds[k], d, v)
      PROVE  ds[k].bits = "crawl" <=> \E l \in 1..n - 1 : l < k /\ Saves(ds[l], d, v)
  <2>1. k \in 1..n /\ ds[k] = cs[k]  BY <1>1, <1>2
  <2>2. cs[k].bits = "crawl" <=> \E l \in 1..n : l < k /\ Saves(cs[l], d, v)
    BY <1>4, <2>1 DEF LeadsBack, n
  <2> QED  BY <1>1, <1>2, <2>1, <2>2
<1>5. LeadsBack(ds, now, d, v)
  BY <1>1, <1>3, <1>4 DEF LeadsBack
<1> QED  BY <1>5 DEF ds

-----------------------------------------------------------------------------
(* The steps. *)

LEMMA CallsStart == CallsInit => CallsInv
<1> SUFFICES ASSUME CallsInit PROVE CallsInv
  OBVIOUS
<1>1. /\ \A t \in Thread : native[t] = <<>> /\ calls[t] = <<>> /\ gate[t] = "through"
      /\ \A d \in Visual, v \in Vehicle : visual[d][v] = "game"
      /\ fed = "nobody" /\ ~enabled /\ Len(<<>>) = 0
      /\ \A v \in Vehicle : Drawer[v] \in Thread
  BY CallsAssumption DEF CallsInit, CallsAssumption
<1>2. CallsTypeOK
  <2>1. <<>> \in Seq(NativeCall) /\ <<>> \in Seq(Call)
    OBVIOUS
  <2>2. native \in [Thread -> Seq(NativeCall)] /\ calls \in [Thread -> Seq(Call)]
    BY <2>1 DEF CallsInit
  <2>3. /\ gate \in [Thread -> {"through", "enabled", "pause", "lock"}]
        /\ visual \in [Visual -> [Vehicle -> {"game", "crawl"}]]
    BY DEF CallsInit
  <2> QED  BY <2>2, <2>3 DEF CallsInit, CallsTypeOK
<1>3. Paired(<<>>, <<>>) /\ \A d, v : LeadsBack(<<>>, "game", d, v)
  BY DEF Paired, LeadsBack
<1> QED  BY <1>1, <1>2, <1>3 DEF CallsInv, InHook, Drawn, PitchesPushed, OwnInputOnly

LEMMA CallsType ==
    ASSUME CallsInv, NEW t \in Thread
    PROVE  /\ native[t] \in Seq(NativeCall) /\ calls[t] \in Seq(Call)
           /\ Paired(native[t], calls[t]) /\ InHook(t) /\ Drawn(t)
           /\ Sim \in Thread /\ \A v \in Vehicle : Drawer[v] \in Thread
BY CallsAssumption DEF CallsInv, CallsTypeOK, CallsAssumption

\* Nothing is pushed and nothing returns.
LEMMA Unpushed ==
    ASSUME CallsInv, UNCHANGED <<native, calls, visual>>,
           fed' \in {"nobody", "own"} \cup {fed},
           gate' \in [Thread -> {"through", "enabled", "pause", "lock"}],
           \A t \in Thread : gate'[t] # "through" => gate[t] # "through",
           enabled' \in BOOLEAN, blocked' \in BOOLEAN, stopped' \in BOOLEAN,
           PitchesPushed'
    PROVE  CallsInv'
<1>1. CallsTypeOK'  BY DEF CallsInv, CallsTypeOK
<1>2. OwnInputOnly'  BY DEF CallsInv, OwnInputOnly
<1> QED  BY <1>1, <1>2 DEF CallsInv, InHook, Drawn

\* Only the flags change, while no derivative is under way or to close the gate.
LEMMA FlagsKeep ==
    ASSUME CallsInv, UNCHANGED <<native, calls, visual, gate>>,
           fed' \in {"nobody", "own"} \cup {fed},
           enabled' \in BOOLEAN, blocked' \in BOOLEAN, stopped' \in BOOLEAN,
           native[Sim] = <<>> \/ ~enabled' \/ UNCHANGED <<enabled, stopped>>
    PROVE  CallsInv'
<1>1. PitchesPushed'
  <2>1. CASE native[Sim] = <<>>
    <3>1. \A i \in 1..Len(native'[Sim]) : FALSE  BY <2>1
    <3> QED  BY <3>1 DEF PitchesPushed
  <2>2. CASE ~enabled'
    BY <2>2 DEF PitchesPushed
  <2>3. CASE UNCHANGED <<enabled, stopped>>
    BY <2>3 DEF CallsInv, PitchesPushed
  <2> QED  BY <2>1, <2>2, <2>3
<1>2. gate' \in [Thread -> {"through", "enabled", "pause", "lock"}]
  BY DEF CallsInv, CallsTypeOK
<1> QED  BY <1>1, <1>2, Unpushed

\* A native call ends; nothing else of the stacks changes.
LEMMA PoppedPitches ==
    ASSUME CallsInv, NEW t \in Thread, native[t] # <<>>, gate' = gate,
           native' = [native EXCEPT ![t] = Pop(@)],
           enabled' => enabled, stopped' = stopped
    PROVE  /\ PitchesPushed' /\ native' \in [Thread -> Seq(NativeCall)]
           /\ native'[t] = Pop(native[t])
           /\ \A u \in Thread : Drawn(u)'
<1>1. /\ Pop(native[t]) \in Seq(NativeCall) /\ Len(Pop(native[t])) = Len(native[t]) - 1
      /\ Len(native[t]) \in Nat \ {0}
      /\ \A i \in 1..Len(native[t]) - 1 : Pop(native[t])[i] = native[t][i]
  BY CallsType, PopType
<1>2. /\ native'[t] = Pop(native[t]) /\ \A u \in Thread : u # t => native'[u] = native[u]
      /\ native' \in [Thread -> Seq(NativeCall)]
  BY <1>1 DEF CallsInv, CallsTypeOK
<1>3. PitchesPushed'
  <2>1. SUFFICES ASSUME enabled', ~stopped', NEW i \in 1..Len(native'[Sim]),
                        native'[Sim][i].fn = "PITCH"
                 PROVE  \/ native'[Sim][i].left
                        \/ i = Len(native'[Sim]) /\ gate[Sim] # "through"
    BY DEF PitchesPushed
  <2>2. CASE t = Sim
    <3>1. i \in 1..Len(native[Sim]) - 1 /\ i \in 1..Len(native[Sim]) /\ i # Len(native[Sim])
      BY <1>1, <1>2, <2>1, <2>2
    <3>2. native'[Sim][i] = native[Sim][i]  BY <1>1, <1>2, <2>2, <3>1
    <3> QED  BY <2>1, <3>1, <3>2 DEF CallsInv, PitchesPushed
  <2>3. CASE t # Sim
    <3>1. native'[Sim] = native[Sim]  BY <1>2, <2>3, CallsType
    <3> QED  BY <2>1, <3>1 DEF CallsInv, PitchesPushed
  <2> QED  BY <2>2, <2>3
<1>4. \A u \in Thread : Drawn(u)'
  <2>1. SUFFICES ASSUME NEW u \in Thread, NEW i \in 1..Len(native'[u]),
                        native'[u][i].fn \in Visual
                 PROVE  u = Drawer[native'[u][i].of]
    BY DEF Drawn
  <2>2. i \in 1..Len(native[u]) /\ native'[u][i] = native[u][i]
    BY <1>1, <1>2
  <2> QED  BY <2>1, <2>2, CallsType DEF Drawn
<1> QED  BY <1>2, <1>3, <1>4

LEMMA PlainReturnKeeps ==
    ASSUME CallsInv, NEW t \in Thread, PlainReturn(t)
    PROVE  CallsInv'
<1>1. /\ gate[t] = "through" /\ native[t] # <<>> /\ ~native[t][Len(native[t])].left
      /\ native' = [native EXCEPT ![t] = Pop(@)]
      /\ UNCHANGED <<calls, gate, visual, fed, enabled, blocked, stopped>>
  BY DEF PlainReturn, Top, flags
<1>2. /\ PitchesPushed' /\ native' \in [Thread -> Seq(NativeCall)]
      /\ native'[t] = Pop(native[t]) /\ \A u \in Thread : Drawn(u)'
  BY <1>1, PoppedPitches
<1>3. \A u \in Thread : u # t => native'[u] = native[u]
  BY <1>1
<1>4. Paired(native'[t], calls[t])
  BY <1>1, <1>2, CallsType, PlainPairs
<1>5. \A u \in Thread : Paired(native'[u], calls'[u]) /\ InHook(u)'
  BY <1>1, <1>3, <1>4, CallsType DEF InHook
<1>6. CallsTypeOK'
  BY <1>1, <1>2 DEF CallsInv, CallsTypeOK
<1> QED  BY <1>1, <1>2, <1>5, <1>6 DEF CallsInv, OwnInputOnly

LEMMA LeaveKeeps ==
    ASSUME CallsInv, NEW t \in Thread, hook_leave(t)
    PROVE  CallsInv'
<1> DEFINE ns == native[t]
           cs == calls[t]
           c  == cs[Len(cs)]
<1>1. /\ gate[t] = "through" /\ ns # <<>> /\ ns[Len(ns)].left
      /\ visual' = IF c.slot = "none" THEN visual
                   ELSE [visual EXCEPT ![c.slot][c.of] = c.bits]
      /\ native' = [native EXCEPT ![t] = SubSeq(@, 1, c.home - 1)]
      /\ calls' = [calls EXCEPT ![t] = Pop(@)]
      /\ UNCHANGED <<gate, fed>>
  BY DEF hook_leave, Top
<1>f. enabled' \in BOOLEAN /\ blocked' \in BOOLEAN /\ (enabled' => enabled) /\ stopped' = stopped
  <2>1. UNCHANGED <<enabled, blocked, stopped>> \/ fail
    BY DEF hook_leave, flags
  <2>2. enabled \in BOOLEAN /\ blocked \in BOOLEAN
    BY DEF CallsInv, CallsTypeOK
  <2>3. CASE UNCHANGED <<enabled, blocked, stopped>>
    BY <2>2, <2>3
  <2>4. CASE fail
    <3>1. enabled' = FALSE /\ blocked' = TRUE /\ stopped' = stopped  BY <2>4 DEF fail
    <3> QED  BY <3>1
  <2> QED  BY <2>1, <2>3, <2>4
<1>2. /\ ns \in Seq(NativeCall) /\ cs \in Seq(Call) /\ Paired(ns, cs)
  BY CallsType
<1>3. cs # <<>> /\ c.home = Len(ns) /\ Paired(Pop(ns), Pop(cs))
  BY <1>1, <1>2, LeavePairs
<1>4. native' = [native EXCEPT ![t] = Pop(@)]
  BY <1>1, <1>3 DEF Pop
<1>5. /\ PitchesPushed' /\ native' \in [Thread -> Seq(NativeCall)]
      /\ native'[t] = Pop(ns) /\ \A u \in Thread : Drawn(u)'
  BY <1>1, <1>f, <1>4, PoppedPitches
<1>6. /\ \A u \in Thread : u # t => native'[u] = native[u] /\ calls'[u] = calls[u]
      /\ calls' \in [Thread -> Seq(Call)] /\ calls'[t] = Pop(cs)
  BY <1>1, <1>2, <1>3, PopType DEF CallsInv, CallsTypeOK
<1>7. \A u \in Thread : Paired(native'[u], calls'[u]) /\ InHook(u)'
  BY <1>1, <1>3, <1>5, <1>6, CallsType DEF InHook
<1>8. /\ c \in Call /\ Len(cs) \in 1..Len(cs) /\ c.bits \in {"game", "crawl"}
      /\ c.slot \in Visual \cup {"none"} /\ c.of \in Vehicle
  <2>1. Len(cs) \in 1..Len(cs) /\ c \in Call  BY <1>2, <1>3
  <2> QED  BY <2>1 DEF Call
<1>9. c.slot # "none" => t = Drawer[c.of]
  <2>1. c.of = ns[c.home].of /\ c.slot \in {"none", ns[c.home].fn} /\ c.home \in 1..Len(ns)
    BY <1>2, <1>8 DEF Paired, SlotOf
  <2> QED  BY <1>8, <2>1, CallsType DEF Drawn
<1> HIDE DEF ns, cs, c
<1>10. ASSUME NEW d \in Visual, NEW v \in Vehicle
       PROVE  visual'[d][v] = IF Saves(c, d, v) THEN c.bits ELSE visual[d][v]
  <2>1. CASE c.slot = "none"
    <3>1. d # "none"  BY DEF Visual
    <3> QED  BY <1>1, <2>1, <3>1 DEF Saves
  <2>2. CASE c.slot # "none"
    BY <1>1, <1>8, <2>2 DEF Saves, CallsInv, CallsTypeOK
  <2> QED  BY <2>1, <2>2
<1>11. ASSUME NEW d \in Visual, NEW v \in Vehicle
       PROVE  LeadsBack(calls'[Drawer[v]], visual'[d][v], d, v)
  <2>1. LeadsBack(calls[Drawer[v]], visual[d][v], d, v) /\ Drawer[v] \in Thread
    BY CallsType DEF CallsInv
  <2>2. CASE Drawer[v] = t
    <3>1. calls[Drawer[v]] = cs /\ calls'[Drawer[v]] = Pop(cs)
      BY <1>6, <2>2 DEF cs
    <3> QED  BY <1>2, <1>3, <1>10, <2>1, <3>1, PopLeads DEF c
  <2>3. CASE Drawer[v] # t
    <3>1. ~Saves(c, d, v)
      <4>1. d # "none"  BY DEF Visual
      <4> QED  BY <1>9, <2>3, <4>1 DEF Saves
    <3>2. calls'[Drawer[v]] = calls[Drawer[v]]  BY <1>6, <2>1, <2>3
    <3> QED  BY <1>10, <2>1, <3>1, <3>2
  <2> QED  BY <2>2, <2>3
<1>12. visual' \in [Visual -> [Vehicle -> {"game", "crawl"}]]
  BY <1>1, <1>8 DEF CallsInv, CallsTypeOK
<1>13. CallsTypeOK'
  BY <1>1, <1>f, <1>5, <1>6, <1>12 DEF CallsInv, CallsTypeOK
<1> QED  BY <1>1, <1>5, <1>7, <1>11, <1>13 DEF CallsInv, OwnInputOnly

LEMMA EnterKeeps ==
    ASSUME CallsInv, NEW t \in Thread, NEW fn \in Pushing, NEW v \in Vehicle,
           NativeEnter(t, fn, v)
    PROVE  CallsInv'
<1> DEFINE ns == native[t]
           m  == Len(ns)
           n  == [fn |-> fn, of |-> v, left |-> FALSE]
           ms == Append(ns, n)
<1>1. /\ gate[t] = "through" /\ t = IF fn \in Visual THEN Drawer[v] ELSE Sim
      /\ native' = [native EXCEPT ![t] = Append(@, n)]
      /\ gate' = [gate EXCEPT ![t] = "enabled"]
      /\ UNCHANGED <<calls, visual, fed, enabled, blocked, stopped>>
  BY DEF NativeEnter, flags
<1>2. ns \in Seq(NativeCall) /\ calls[t] \in Seq(Call) /\ Paired(ns, calls[t])
  BY CallsType
<1>3. n \in NativeCall /\ ~n.left /\ n.fn = fn /\ n.of = v
  BY DEF NativeCall
<1>4. Paired(ms, calls[t])
  BY <1>2, <1>3, EnterPairs
<1>5. /\ ms \in Seq(NativeCall) /\ Len(ms) = m + 1 /\ m \in Nat /\ ms[m + 1] = n
      /\ \A i \in 1..m : ms[i] = ns[i]
  BY <1>2, <1>3
<1>6. /\ native'[t] = ms /\ \A u \in Thread : u # t => native'[u] = native[u]
      /\ native' \in [Thread -> Seq(NativeCall)]
      /\ gate'[t] = "enabled" /\ \A u \in Thread : u # t => gate'[u] = gate[u]
      /\ gate' \in [Thread -> {"through", "enabled", "pause", "lock"}]
  BY <1>1, <1>5 DEF CallsInv, CallsTypeOK
<1> HIDE DEF ms, n
<1>7. \A i \in 1..m + 1 : i \in 1..m \/ i = m + 1
  BY <1>5
<1>8. ms # <<>> /\ ~ms[Len(ms)].left
  BY <1>3, <1>5
<1>9. ASSUME NEW u \in Thread PROVE Paired(native'[u], calls'[u]) /\ InHook(u)' /\ Drawn(u)'
  <2>1. CASE u = t
    <3>1. Drawn(u)'
      <4>1. SUFFICES ASSUME NEW i \in 1..m + 1, ms[i].fn \in Visual PROVE t = Drawer[ms[i].of]
        BY <1>5, <1>6, <2>1 DEF Drawn
      <4>2. CASE i \in 1..m
        BY <1>5, <4>1, <4>2, CallsType DEF Drawn
      <4>3. CASE i = m + 1
        BY <1>1, <1>3, <1>5, <4>1, <4>3
      <4> QED  BY <1>7, <4>2, <4>3
    <3> QED  BY <1>1, <1>4, <1>6, <1>8, <2>1, <3>1 DEF InHook
  <2>2. CASE u # t
    BY <1>1, <1>6, <2>2, CallsType DEF InHook, Drawn
  <2> QED  BY <2>1, <2>2
<1>10. PitchesPushed'
  <2>1. SUFFICES ASSUME enabled, ~stopped, NEW i \in 1..Len(native'[Sim]),
                        native'[Sim][i].fn = "PITCH"
                 PROVE  \/ native'[Sim][i].left
                        \/ i = Len(native'[Sim]) /\ gate'[Sim] # "through"
    BY <1>1 DEF PitchesPushed
  <2>2. CASE t = Sim
    <3>1. CASE i \in 1..m
      <4>1. native'[Sim][i] = native[Sim][i]  BY <1>5, <1>6, <2>2, <3>1
      <4> QED  BY <1>1, <2>1, <2>2, <3>1, <4>1 DEF CallsInv, PitchesPushed
    <3>2. CASE i = m + 1
      BY <1>5, <1>6, <2>2, <3>2
    <3> QED  BY <1>5, <1>6, <1>7, <2>1, <2>2, <3>1, <3>2
  <2>3. CASE t # Sim
    <3>1. native'[Sim] = native[Sim] /\ gate'[Sim] = gate[Sim]
      BY <1>6, <2>3, CallsType
    <3> QED  BY <2>1, <3>1 DEF CallsInv, PitchesPushed
  <2> QED  BY <2>2, <2>3
<1>11. CallsTypeOK'
  BY <1>1, <1>6 DEF CallsInv, CallsTypeOK
<1> QED  BY <1>1, <1>9, <1>10, <1>11 DEF CallsInv, OwnInputOnly

\* The top of the native calls is marked.
LEMMA Marked ==
    ASSUME CallsInv, NEW t \in Thread, native[t] # <<>>,
           native' = [native EXCEPT ![t][InProgress(t)].left = TRUE]
    PROVE  /\ native' \in [Thread -> Seq(NativeCall)]
           /\ \A u \in Thread : u # t => native'[u] = native[u]
           /\ Len(native'[t]) = Len(native[t]) /\ Len(native[t]) \in Nat \ {0}
           /\ native'[t][Len(native[t])].left
           /\ \A i \in 1..Len(native[t]) :
                 /\ native'[t][i].fn = native[t][i].fn /\ native'[t][i].of = native[t][i].of
                 /\ i # Len(native[t]) => native'[t][i] = native[t][i]
<1> DEFINE ns == native[t]
           m  == Len(ns)
           e  == [ns[m] EXCEPT !.left = TRUE]
<1>1. ns \in Seq(NativeCall) /\ m \in Nat \ {0} /\ m \in 1..m
  BY CallsType
<1>2. ns[m] \in NativeCall
  BY <1>1
<1>3. e \in NativeCall /\ e.left /\ e.fn = ns[m].fn /\ e.of = ns[m].of
  BY <1>2 DEF NativeCall
<1>4. native' = [native EXCEPT ![t] = [ns EXCEPT ![m] = e]]
  BY DEF InProgress
<1> HIDE DEF ns, m, e
<1>5. /\ [ns EXCEPT ![m] = e] \in Seq(NativeCall) /\ Len([ns EXCEPT ![m] = e]) = m
      /\ \A i \in 1..m : [ns EXCEPT ![m] = e][i] = IF i = m THEN e ELSE ns[i]
  BY <1>1, <1>3, ExceptSeq DEF m
<1>6. native'[t] = [ns EXCEPT ![m] = e]
  BY <1>4 DEF CallsInv, CallsTypeOK
<1>7. native' \in [Thread -> Seq(NativeCall)] /\ \A u \in Thread : u # t => native'[u] = native[u]
  BY <1>4, <1>5 DEF CallsInv, CallsTypeOK
<1>8. \A i \in 1..m : /\ native'[t][i].fn = ns[i].fn /\ native'[t][i].of = ns[i].of
                      /\ i # m => native'[t][i] = ns[i]
  BY <1>3, <1>5, <1>6
<1>9. Len(native'[t]) = m /\ native'[t][m].left
  BY <1>1, <1>3, <1>5, <1>6
<1> QED  BY <1>1, <1>7, <1>8, <1>9 DEF ns, m

\* A call of the innermost native call is pushed; a drawing call saves the rate.
LEMMA PushKeeps ==
    ASSUME CallsInv, NEW t \in Thread, gate[t] = "lock",
           NEW c \in Call, c.home = InProgress(t), c.of = Top(native[t]).of,
           c.slot = SlotOf(Top(native[t]).fn),
           c.slot # "none" => c.bits = visual[c.slot][c.of],
           calls' = [calls EXCEPT ![t] = Append(@, c)],
           native' = [native EXCEPT ![t][InProgress(t)].left = TRUE],
           visual' = IF c.slot = "none" THEN visual
                     ELSE [visual EXCEPT ![c.slot][c.of] = "crawl"],
           gate' = [gate EXCEPT ![t] = "through"], fed' = fed,
           enabled' \in BOOLEAN, blocked' \in BOOLEAN, stopped' = stopped,
           enabled' => enabled
    PROVE  CallsInv'
<1> DEFINE ns == native[t]
           m  == Len(ns)
           ms == native'[t]
           cs == calls[t]
<1>1. /\ ns \in Seq(NativeCall) /\ cs \in Seq(Call) /\ Paired(ns, cs)
      /\ ns # <<>> /\ ~ns[m].left
  BY CallsType DEF InHook
<1>2. /\ native' \in [Thread -> Seq(NativeCall)] /\ ms \in Seq(NativeCall)
      /\ \A u \in Thread : u # t => native'[u] = native[u]
      /\ Len(ms) = m /\ m \in Nat \ {0} /\ ms[m].left
      /\ \A i \in 1..m : /\ ms[i].fn = ns[i].fn /\ ms[i].of = ns[i].of
                         /\ i # m => ms[i] = ns[i]
  <2>1. native' \in [Thread -> Seq(NativeCall)]  BY <1>1, Marked
  <2> QED  BY <1>1, <2>1, Marked
<1>3. /\ calls'[t] = Append(cs, c) /\ \A u \in Thread : u # t => calls'[u] = calls[u]
      /\ calls' \in [Thread -> Seq(Call)]
  BY <1>1 DEF CallsInv, CallsTypeOK
<1>4. /\ gate'[t] = "through" /\ \A u \in Thread : u # t => gate'[u] = gate[u]
      /\ gate' \in [Thread -> {"through", "enabled", "pause", "lock"}]
  BY DEF CallsInv, CallsTypeOK
<1>5. c.home = m /\ c.of = ms[m].of /\ c.slot = SlotOf(ms[m].fn) /\ m \in 1..m
  BY <1>2 DEF InProgress, Top
<1>6. c.slot \in Visual \cup {"none"} /\ c.of \in Vehicle /\ "none" \notin Visual
  BY DEF Call, Visual
<1>7. c.slot # "none" => t = Drawer[c.of]
  <2>1. SUFFICES ASSUME c.slot # "none" PROVE t = Drawer[c.of]
    OBVIOUS
  <2>2. ns[m].fn \in Visual /\ ns[m].of = c.of
    BY <1>2, <1>5, <1>6, <2>1 DEF SlotOf
  <2>3. \A i \in 1..m : ns[i].fn \in Visual => t = Drawer[ns[i].of]
    BY CallsType DEF Drawn
  <2> QED  BY <1>5, <2>2, <2>3
<1> HIDE DEF ns, m, ms, cs
<1>8. Paired(ms, Append(cs, c))
  BY <1>1, <1>2, <1>5, PushPairs DEF m
<1>9. ASSUME NEW u \in Thread PROVE Paired(native'[u], calls'[u]) /\ InHook(u)' /\ Drawn(u)'
  <2>1. CASE u = t
    <3>1. \A i \in 1..m : ns[i].fn \in Visual => t = Drawer[ns[i].of]
      BY CallsType DEF Drawn, ns, m
    <3>2. Drawn(t)'
      BY <1>2, <3>1 DEF Drawn, ms
    <3>3. Paired(native'[t], calls'[t]) /\ InHook(t)'
      BY <1>3, <1>4, <1>8 DEF InHook, ms
    <3> QED  BY <2>1, <3>2, <3>3
  <2>2. CASE u # t
    BY <1>2, <1>3, <1>4, <2>2, CallsType DEF InHook, Drawn
  <2> QED  BY <2>1, <2>2
<1>10. PitchesPushed'
  <2>1. SUFFICES ASSUME enabled', ~stopped', NEW i \in 1..Len(native'[Sim]),
                        native'[Sim][i].fn = "PITCH"
                 PROVE  \/ native'[Sim][i].left
                        \/ i = Len(native'[Sim]) /\ gate'[Sim] # "through"
    BY DEF PitchesPushed
  <2>2. CASE t = Sim
    <3>1. i \in 1..m /\ ms[i].fn = "PITCH"  BY <1>2, <2>1, <2>2 DEF ms
    <3>2. CASE i = m  BY <1>2, <2>2, <3>2 DEF ms
    <3>3. CASE i # m
      <4>1. ns[i].fn = "PITCH" /\ ms[i] = ns[i]  BY <1>2, <3>1, <3>3
      <4>2. ns[i].left  BY <2>1, <2>2, <3>1, <3>3, <4>1 DEF CallsInv, PitchesPushed, ns, m
      <4> QED  BY <2>2, <4>1, <4>2 DEF ms
    <3> QED  BY <3>2, <3>3
  <2>3. CASE t # Sim
    <3>1. native'[Sim] = native[Sim] /\ gate'[Sim] = gate[Sim]
      BY <1>2, <1>4, <2>3, CallsType
    <3> QED  BY <2>1, <3>1 DEF CallsInv, PitchesPushed
  <2> QED  BY <2>2, <2>3
<1>11. /\ visual' \in [Visual -> [Vehicle -> {"game", "crawl"}]]
       /\ \A d \in Visual, v \in Vehicle :
             visual'[d][v] = IF Saves(c, d, v) THEN "crawl" ELSE visual[d][v]
  <2>1. CASE c.slot = "none"
    BY <1>6, <2>1 DEF CallsInv, CallsTypeOK, Saves
  <2>2. CASE c.slot # "none"
    BY <1>6, <2>2 DEF CallsInv, CallsTypeOK, Saves
  <2> QED  BY <2>1, <2>2
<1>12. ASSUME NEW d \in Visual, NEW v \in Vehicle
       PROVE  LeadsBack(calls'[Drawer[v]], visual'[d][v], d, v)
  <2>1. LeadsBack(calls[Drawer[v]], visual[d][v], d, v) /\ Drawer[v] \in Thread
    BY CallsType DEF CallsInv
  <2>2. CASE Drawer[v] = t
    <3>1. calls[Drawer[v]] = cs /\ calls'[Drawer[v]] = Append(cs, c)
      BY <1>3, <2>2 DEF cs
    <3>2. Saves(c, d, v) => c.bits = visual[d][v]
      BY <1>6 DEF Saves
    <3>3. visual'[d][v] = IF Saves(c, d, v) THEN "crawl" ELSE visual[d][v]
      BY <1>11
    <3> QED  BY <1>1, <2>1, <3>1, <3>2, <3>3, PushLeads
  <2>3. CASE Drawer[v] # t
    <3>1. ~Saves(c, d, v)  BY <1>6, <1>7, <2>3 DEF Saves
    <3>2. calls'[Drawer[v]] = calls[Drawer[v]]  BY <1>3, <2>1, <2>3
    <3> QED  BY <1>11, <2>1, <3>1, <3>2
  <2> QED  BY <2>2, <2>3
<1>13. CallsTypeOK'
  BY <1>2, <1>3, <1>4, <1>11 DEF CallsInv, CallsTypeOK
<1> QED  BY <1>9, <1>10, <1>12, <1>13 DEF CallsInv, OwnInputOnly

\* What the hooks of the three kinds do, once the lock is taken and the gate open.
LEMMA HookEnterKeeps ==
    ASSUME CallsInv, NEW t \in Thread, hook_enter(t)
    PROVE  CallsInv'
<1> DEFINE n == Top(native[t])
<1>1. /\ gate[t] = "lock" /\ gate' = [gate EXCEPT ![t] = "through"] /\ fed' = fed
      /\ native[t] # <<>> /\ native[t] \in Seq(NativeCall) /\ InProgress(t) \in Nat
  BY CallsType DEF hook_enter, InHook, InProgress
<1>2. /\ gate' \in [Thread -> {"through", "enabled", "pause", "lock"}]
      /\ \A u \in Thread : gate'[u] # "through" => u # t /\ gate'[u] = gate[u]
      /\ {enabled, blocked, stopped} \subseteq BOOLEAN
  BY <1>1 DEF CallsInv, CallsTypeOK
<1>3. n \in NativeCall /\ Len(native[t]) \in 1..Len(native[t])
  BY <1>1 DEF Top
<1>4. n.fn \in Pushing /\ n.of \in Vehicle
  BY <1>3 DEF NativeCall
<1>5. /\ NewCall(t) \in Call /\ NewCall(t).home = InProgress(t) /\ NewCall(t).of = n.of
      /\ NewCall(t).slot = "none"
      /\ \A p \in BOOLEAN : LET c == [NewCall(t) EXCEPT !.pitch = p]
                            IN  /\ c \in Call /\ c.home = InProgress(t) /\ c.of = n.of
                                /\ c.slot = "none"
  BY <1>1, <1>4 DEF NewCall, Call
<1> HIDE DEF n
\* A call without a rate is pushed, or the push fails.
<1>6. ASSUME NEW c \in Call, c.home = InProgress(t), c.of = n.of, c.slot = "none", n.fn \notin Visual,
             push_call(t, c), visual' = visual
      PROVE  CallsInv'
  <2>1. CASE Len(calls[t]) = Depth
    <3>1. ~enabled' /\ blocked' /\ UNCHANGED <<stopped, calls, native>>
          /\ enabled' \in BOOLEAN /\ blocked' \in BOOLEAN
      BY <1>6, <2>1 DEF push_call, fail
    <3>2. PitchesPushed'  BY <3>1 DEF PitchesPushed
    <3> QED  BY <1>1, <1>2, <1>6, <3>1, <3>2, Unpushed
  <2>2. CASE Len(calls[t]) # Depth
    <3>1. /\ calls' = [calls EXCEPT ![t] = Append(@, c)]
          /\ native' = [native EXCEPT ![t][InProgress(t)].left = TRUE]
          /\ UNCHANGED <<enabled, blocked, stopped>>
      BY <1>6, <2>2 DEF push_call, flags
    <3>2. c.slot = SlotOf(n.fn)  BY <1>6 DEF SlotOf
    <3> QED  BY <1>1, <1>2, <1>6, <3>1, <3>2, PushKeeps DEF n
  <2> QED  BY <2>1, <2>2
\* Nothing is pushed, as there is nothing to do, or nothing more.
<1>7. ASSUME UNCHANGED <<native, calls, visual>>, enabled' \in BOOLEAN, blocked' \in BOOLEAN,
             stopped' = stopped, ~enabled' \/ (enabled' = enabled /\ (n.fn # "PITCH" \/ stopped))
      PROVE  CallsInv'
  <2>1. PitchesPushed'
    <3>1. SUFFICES ASSUME enabled', ~stopped', NEW i \in 1..Len(native[Sim]),
                          native[Sim][i].fn = "PITCH", ~native[Sim][i].left
                   PROVE  i = Len(native[Sim]) /\ gate'[Sim] # "through"
      BY <1>7 DEF PitchesPushed
    <3>2. i = Len(native[Sim]) /\ gate[Sim] # "through"
      BY <1>7, <3>1 DEF CallsInv, PitchesPushed
    <3>3. t # Sim
      BY <1>7, <3>1, <3>2 DEF n, Top
    <3> QED  BY <1>1, <3>2, <3>3, CallsType DEF CallsInv, CallsTypeOK
  <2> QED  BY <1>1, <1>2, <1>7, <2>1, Unpushed
<1>8. CASE enabled /\ ~stopped /\ n.fn = "PITCH"
  <2>1. EnterPitch(t)
    BY <1>8 DEF hook_enter, n
  <2>4. n.fn \notin Visual /\ SlotOf(n.fn) = "none"
    BY <1>8 DEF SlotOf, Visual
  <2>2. CASE \E eligible \in BOOLEAN : push_call(t, [NewCall(t) EXCEPT !.pitch = eligible])
    BY <1>5, <1>6, <2>1, <2>2, <2>4 DEF EnterPitch
  <2>3. CASE /\ calls' = [calls EXCEPT ![t] = Append(@, NewCall(t))]
             /\ native' = [native EXCEPT ![t][InProgress(t)].left = TRUE]
             /\ fail
    <3>1. ~enabled' /\ enabled' \in BOOLEAN /\ blocked' \in BOOLEAN /\ stopped' = stopped
      BY <2>3 DEF fail
    <3>2. visual' = visual  BY <2>1 DEF EnterPitch
    <3> QED  BY <1>1, <1>5, <2>3, <2>4, <3>1, <3>2, PushKeeps DEF n
  <2> QED  BY <2>1, <2>2, <2>3 DEF EnterPitch
<1>9. CASE enabled /\ ~stopped /\ n.fn = "SPLIT"
  <2>1. EnterSplit(t)
    BY <1>9 DEF hook_enter, n
  <2>2. n.fn \notin Visual
    BY <1>9 DEF Visual
  <2> QED  BY <1>5, <1>6, <2>1, <2>2 DEF EnterSplit
<1>10. CASE enabled /\ ~stopped /\ n.fn \in Visual
  <2> DEFINE c == [NewCall(t) EXCEPT !.slot = n.fn, !.bits = visual[n.fn][n.of]]
  <2>1. EnterVisual(t, n.fn, n.of) /\ n.fn \notin {"PITCH", "SPLIT"}
    BY <1>10 DEF hook_enter, n, Visual
  <2>2. visual[n.fn][n.of] \in {"game", "crawl"}
    BY <1>4, <1>10 DEF CallsInv, CallsTypeOK
  <2>3. /\ c \in Call /\ c.home = InProgress(t) /\ c.of = n.of /\ c.slot = n.fn
        /\ c.bits = visual[n.fn][n.of] /\ n.fn # "none" /\ c.slot = SlotOf(n.fn)
    BY <1>1, <1>4, <1>10, <2>2 DEF NewCall, Call, n, Visual, SlotOf
  <2> HIDE DEF c
  <2>4. CASE push_call(t, c) /\ visual' = IF Len(calls[t]) = Depth THEN visual
                                         ELSE [visual EXCEPT ![n.fn][n.of] = "crawl"]
    <3>1. CASE Len(calls[t]) = Depth
      <4>1. ~enabled' /\ UNCHANGED <<stopped, calls, native, visual>>
            /\ enabled' \in BOOLEAN /\ blocked' \in BOOLEAN
        BY <2>4, <3>1 DEF push_call, fail
      <4> QED  BY <1>7, <4>1
    <3>2. CASE Len(calls[t]) # Depth
      <4>1. /\ calls' = [calls EXCEPT ![t] = Append(@, c)]
            /\ native' = [native EXCEPT ![t][InProgress(t)].left = TRUE]
            /\ UNCHANGED <<enabled, blocked, stopped>>
            /\ visual' = [visual EXCEPT ![c.slot][c.of] = "crawl"]
        BY <2>3, <2>4, <3>2 DEF push_call, flags
      <4> QED  BY <1>1, <1>2, <2>3, <4>1, PushKeeps DEF n
    <3> QED  BY <3>1, <3>2
  <2>5. CASE fail /\ UNCHANGED <<calls, native, visual>>
    <3>1. ~enabled' /\ enabled' \in BOOLEAN /\ blocked' \in BOOLEAN /\ stopped' = stopped
      BY <2>5 DEF fail
    <3> QED  BY <1>7, <2>5, <3>1
  <2>6. CASE UNCHANGED <<calls, native, visual, flags>>
    BY <1>2, <1>7, <2>1, <2>6 DEF flags
  <2> QED  BY <2>1, <2>4, <2>5, <2>6 DEF EnterVisual, c
<1>11. CASE ~(enabled /\ ~stopped)
  <2>1. UNCHANGED <<native, calls, visual, flags>>
    BY <1>11 DEF hook_enter
  <2> QED  BY <1>2, <1>7, <1>11, <2>1 DEF flags
<1> QED  BY <1>4, <1>8, <1>9, <1>10, <1>11 DEF Pushing

\* A derivative gets the filtered input of the top of the stack, which is its own.
LEMMA VectorKeeps == ASSUME CallsInv, EnterVector PROVE CallsInv'
<1> DEFINE ns == native[Sim]
           cs == calls[Sim]
<1>1. /\ gate[Sim] = "through" /\ ns # <<>> /\ ns[Len(ns)].fn = "PITCH"
      /\ enabled /\ ~stopped /\ UNCHANGED <<native, calls, gate, visual>>
      /\ \/ fed' = "nobody" /\ UNCHANGED flags
         \/ fail /\ UNCHANGED fed
         \/ cs # <<>> /\ UNCHANGED flags
            /\ fed' = IF Top(cs).home = InProgress(Sim) THEN "own" ELSE "other"
  BY DEF EnterVector, Top
<1>2. ns \in Seq(NativeCall) /\ cs \in Seq(Call) /\ Paired(ns, cs) /\ Sim \in Thread
  BY CallsType, CallsAssumption DEF CallsAssumption
<1>3. ns[Len(ns)].left
  <2>1. Len(ns) \in 1..Len(ns)  BY <1>1, <1>2
  <2> QED  BY <1>1, <2>1 DEF CallsInv, PitchesPushed
<1>4. cs[Len(cs)].home = Len(ns)
  BY <1>1, <1>2, <1>3, LeavePairs
<1>5. fed' \in {"nobody", "own"} \cup {fed}
  BY <1>1, <1>4 DEF Top, InProgress
<1>6. /\ enabled' \in BOOLEAN /\ blocked' \in BOOLEAN /\ stopped' \in BOOLEAN
      /\ ~enabled' \/ UNCHANGED <<enabled, stopped>>
  <2>1. UNCHANGED <<enabled, blocked, stopped>> \/ fail  BY <1>1 DEF flags
  <2> QED  BY <2>1 DEF fail, CallsInv, CallsTypeOK
<1> QED  BY <1>1, <1>5, <1>6, FlagsKeep

LEMMA FastGateKeeps ==
    ASSUME CallsInv, NEW t \in Thread, FastGate(t)
    PROVE  CallsInv'
<1>1. /\ UNCHANGED <<native, calls, visual, fed, enabled, blocked, stopped>>
      /\ \/ gate[t] = "enabled"
            /\ gate' = [gate EXCEPT ![t] = IF enabled THEN "pause" ELSE "through"]
         \/ gate[t] = "pause"
            /\ gate' = [gate EXCEPT ![t] = IF stopped THEN "through" ELSE "lock"]
  BY DEF FastGate, flags
<1>2. /\ gate' \in [Thread -> {"through", "enabled", "pause", "lock"}]
      /\ \A u \in Thread : gate'[u] # "through" => gate[u] # "through"
      /\ enabled /\ ~stopped => \A u \in Thread : gate[u] # "through" => gate'[u] # "through"
  BY <1>1 DEF CallsInv, CallsTypeOK
<1>3. PitchesPushed'
  BY <1>1, <1>2, CallsType DEF CallsInv, PitchesPushed
<1>4. enabled' \in BOOLEAN /\ blocked' \in BOOLEAN /\ stopped' \in BOOLEAN
  BY <1>1 DEF CallsInv, CallsTypeOK
<1> QED  BY <1>1, <1>2, <1>3, <1>4, Unpushed

LEMMA CallsStep == CallsInv /\ [CallsNext]_callsVars => CallsInv'
<1> SUFFICES ASSUME CallsInv, [CallsNext]_callsVars PROVE CallsInv'
  OBVIOUS
<1>1. ASSUME NEW t \in Thread,
             \/ \E fn \in Pushing, v \in Vehicle : NativeEnter(t, fn, v)
             \/ FastGate(t) \/ hook_enter(t) \/ PlainReturn(t) \/ hook_leave(t)
      PROVE  CallsInv'
  BY <1>1, EnterKeeps, FastGateKeeps, HookEnterKeeps, PlainReturnKeeps, LeaveKeeps
<1>2. CASE EnterVector
  BY <1>2, VectorKeeps
<1>t. enabled \in BOOLEAN /\ blocked \in BOOLEAN /\ stopped \in BOOLEAN
  BY DEF CallsInv, CallsTypeOK
<1>3. CASE FrameFlags
  BY <1>3, <1>t, FlagsKeep DEF FrameFlags
<1>4. CASE ExitFlags
  BY <1>4, <1>t, FlagsKeep DEF ExitFlags, flags
<1>5. CASE PauseFlags
  BY <1>5, <1>t, FlagsKeep DEF PauseFlags
<1>6. CASE OtherFault
  <2>1. ~enabled' /\ enabled' \in BOOLEAN /\ blocked' \in BOOLEAN /\ stopped' = stopped
    BY <1>6 DEF OtherFault, fail
  <2> QED  BY <1>6, <1>t, <2>1, FlagsKeep DEF OtherFault
<1>7. CASE UNCHANGED callsVars
  BY <1>7, <1>t, FlagsKeep DEF callsVars
<1> QED  BY <1>1, <1>2, <1>3, <1>4, <1>5, <1>6, <1>7 DEF CallsNext

LEMMA CallsComeBack == CallsInv => CallsUndone
<1> SUFFICES ASSUME CallsInv PROVE ReturnsHome /\ RatesRestored
  BY DEF CallsUndone
<1>1. ReturnsHome
  <2>1. SUFFICES ASSUME NEW t \in Thread
                 PROVE  /\ \A i \in 1..Len(native[t]) :
                              native[t][i].left <=>
                                 \E k \in 1..Len(calls[t]) : calls[t][k].home = i
                        /\ \A k \in 1..Len(calls[t]), l \in 1..Len(calls[t]) :
                              k < l => calls[t][k].home < calls[t][l].home
    BY DEF ReturnsHome
  <2>2. Paired(native[t], calls[t]) /\ native[t] \in Seq(NativeCall)
    BY CallsType
  <2>3. \A i \in 1..Len(native[t]) : native[t][i].left \in BOOLEAN
    <3>1. \A i \in 1..Len(native[t]) : native[t][i] \in NativeCall  BY <2>2
    <3> QED  BY <3>1 DEF NativeCall
  <2> QED  BY <2>2, <2>3 DEF Paired
<1>2. RatesRestored
  <2>1. SUFFICES ASSUME NEW d \in Visual, NEW v \in Vehicle, visual[d][v] = "crawl"
                 PROVE  \E i \in 1..Len(native[Drawer[v]]) :
                           LET n == native[Drawer[v]][i] IN n.fn = d /\ n.of = v /\ n.left
    BY DEF RatesRestored
  <2>2. PICK k \in 1..Len(calls[Drawer[v]]) : Saves(calls[Drawer[v]][k], d, v)
    BY <2>1 DEF CallsInv, LeadsBack
  <2>3. Drawer[v] \in Thread /\ d # "none"
    BY CallsAssumption DEF CallsAssumption, Visual
  <2> DEFINE ns == native[Drawer[v]]
             c  == calls[Drawer[v]][k]
  <2>4. /\ c.home \in 1..Len(ns) /\ ns[c.home].left /\ c.of = ns[c.home].of
        /\ c.slot \in {"none", ns[c.home].fn}
    BY <2>3, CallsType DEF Paired, SlotOf
  <2>5. c.slot = d /\ c.of = v
    BY <2>2 DEF Saves
  <2> HIDE DEF ns, c
  <2>6. ns[c.home].fn = d /\ ns[c.home].of = v
    BY <2>3, <2>4, <2>5
  <2> QED  BY <2>4, <2>6 DEF ns
<1> QED  BY <1>1, <1>2

-----------------------------------------------------------------------------
(* To the game the redirected calls are calls like any other. *)

GameCall(n) == [fn |-> n.fn, of |-> n.of, given |-> n.fn \in Visual /\ n.left]

AsGame(ns) == [i \in 1..Len(ns) |-> GameCall(ns[i])]

GameCallSet == [fn : Pushing, of : Vehicle, given : BOOLEAN]

LEMMA GameCallsAre == GameCalls = [t \in Thread |-> AsGame(native[t])]
BY DEF GameCalls, AsGame, GameCall

LEMMA AsGameType ==
    ASSUME NEW ns \in Seq(NativeCall)
    PROVE  /\ AsGame(ns) \in Seq(GameCallSet) /\ Len(AsGame(ns)) = Len(ns) /\ Len(ns) \in Nat
           /\ \A i \in 1..Len(ns) : AsGame(ns)[i] = GameCall(ns[i])
<1>1. Len(ns) \in Nat /\ \A i \in 1..Len(ns) : ns[i] \in NativeCall
  OBVIOUS
<1>2. \A n \in NativeCall : GameCall(n) \in GameCallSet
  BY DEF NativeCall, GameCall, GameCallSet
<1>3. AsGame(ns) \in [1..Len(ns) -> GameCallSet]
  BY <1>1, <1>2 DEF AsGame
<1>4. AsGame(ns) \in Seq(GameCallSet)
  BY <1>1, <1>3
<1>5. Len(AsGame(ns)) = Len(ns)
  BY <1>1, <1>3
<1> QED  BY <1>1, <1>4, <1>5 DEF AsGame

\* A call that begins, ends or is marked does the same to the game's calls.
LEMMA AsGameBegins ==
    ASSUME NEW ns \in Seq(NativeCall), NEW n \in NativeCall
    PROVE  AsGame(Append(ns, n)) = Append(AsGame(ns), GameCall(n))
<1>1. /\ Append(ns, n) \in Seq(NativeCall) /\ Len(Append(ns, n)) = Len(ns) + 1 /\ Len(ns) \in Nat
      /\ \A i \in 1..Len(ns) : Append(ns, n)[i] = ns[i]
      /\ Append(ns, n)[Len(ns) + 1] = n
  BY AppendProperties
<1> DEFINE ms == Append(ns, n)
           gs == Append(AsGame(ns), GameCall(n))
<1>2. GameCall(n) \in GameCallSet
  BY DEF NativeCall, GameCall, GameCallSet
<1>3. /\ gs \in Seq(GameCallSet) /\ Len(gs) = Len(ns) + 1
      /\ \A i \in 1..Len(ns) : gs[i] = GameCall(ns[i])
      /\ gs[Len(ns) + 1] = GameCall(n)
  BY <1>2, AsGameType, AppendProperties
<1>4. /\ AsGame(ms) \in Seq(GameCallSet) /\ Len(AsGame(ms)) = Len(ns) + 1
      /\ \A i \in 1..Len(ns) + 1 : AsGame(ms)[i] = GameCall(ms[i])
  BY <1>1, AsGameType
<1> HIDE DEF ms, gs
<1>5. \A i \in 1..Len(ns) + 1 : AsGame(ms)[i] = gs[i]
  <2>1. \A i \in 1..Len(ns) + 1 : i \in 1..Len(ns) \/ i = Len(ns) + 1  BY <1>1
  <2>2. \A i \in 1..Len(ns) : i \in 1..Len(ns) + 1  BY <1>1
  <2> QED  BY <1>1, <1>3, <1>4, <2>1, <2>2 DEF ms
<1>6. AsGame(ms) = gs
  BY <1>3, <1>4, <1>5, SeqEqual
<1> QED  BY <1>6 DEF ms, gs

LEMMA AsGameEnds ==
    ASSUME NEW ns \in Seq(NativeCall), ns # <<>>
    PROVE  /\ AsGame(ns) # <<>>
           /\ AsGame(Pop(ns)) = SubSeq(AsGame(ns), 1, Len(AsGame(ns)) - 1)
<1> DEFINE gs == AsGame(ns)
           m  == Len(ns)
<1>1. /\ gs \in Seq(GameCallSet) /\ Len(gs) = m /\ m \in Nat
      /\ \A i \in 1..m : gs[i] = GameCall(ns[i])
  BY AsGameType
<1>2. /\ Pop(ns) \in Seq(NativeCall) /\ Len(Pop(ns)) = m - 1 /\ m \in Nat \ {0}
      /\ \A i \in 1..m - 1 : Pop(ns)[i] = ns[i]
  BY PopType
<1> HIDE DEF gs, m
<1>3. gs # <<>>
  BY <1>1, <1>2
<1>4. /\ Pop(gs) \in Seq(GameCallSet) /\ Len(Pop(gs)) = m - 1
      /\ \A i \in 1..m - 1 : Pop(gs)[i] = gs[i]
  BY <1>1, <1>3, PopType
<1>5. /\ AsGame(Pop(ns)) \in Seq(GameCallSet) /\ Len(AsGame(Pop(ns))) = m - 1
      /\ \A i \in 1..m - 1 : AsGame(Pop(ns))[i] = GameCall(Pop(ns)[i])
  BY <1>2, AsGameType
<1>6. \A i \in 1..m - 1 : AsGame(Pop(ns))[i] = Pop(gs)[i]
  <2>1. \A i \in 1..m - 1 : i \in 1..m  BY <1>2
  <2> QED  BY <1>1, <1>2, <1>4, <1>5, <2>1
<1>7. AsGame(Pop(ns)) = Pop(gs)
  BY <1>4, <1>5, <1>6, SeqEqual
<1> QED  BY <1>3, <1>7 DEF gs, Pop

LEMMA GameCallFields ==
    ASSUME NEW n
    PROVE  /\ GameCall(n).fn = n.fn /\ GameCall(n).of = n.of
           /\ GameCall(n).given <=> n.fn \in Visual /\ n.left
<1> DEFINE b == n.fn \in Visual /\ n.left
<1>1. GameCall(n) = [fn |-> n.fn, of |-> n.of, given |-> b]
  BY DEF GameCall
<1> HIDE DEF b
<1>2. GameCall(n).fn = n.fn /\ GameCall(n).of = n.of /\ GameCall(n).given = b
  BY <1>1
<1> QED  BY <1>2 DEF b

LEMMA SameGameCall ==
    ASSUME NEW g \in GameCallSet, NEW h \in GameCallSet, g.fn = h.fn, g.of = h.of
    PROVE  /\ g.given = h.given => g = h
           /\ h.given = TRUE => [g EXCEPT !.given = TRUE] = h
<1>1. ASSUME NEW a \in GameCallSet, NEW b \in GameCallSet,
             a.fn = b.fn, a.of = b.of, a.given = b.given
      PROVE  a = b
  BY <1>1 DEF GameCallSet
<1> DEFINE e == [g EXCEPT !.given = TRUE]
<1>2. e \in GameCallSet /\ e.fn = g.fn /\ e.of = g.of /\ e.given = TRUE
  BY DEF GameCallSet
<1> HIDE DEF e
<1>3. h.given = TRUE => e = h
  BY <1>1, <1>2
<1> QED  BY <1>1, <1>3 DEF e

LEMMA AsGameGives ==
    ASSUME NEW ns \in Seq(NativeCall), ns # <<>>, NEW ms \in Seq(NativeCall),
           Len(ms) = Len(ns), ms[Len(ns)].left,
           \A i \in 1..Len(ns) : /\ ms[i].fn = ns[i].fn /\ ms[i].of = ns[i].of
                                 /\ i # Len(ns) => ms[i] = ns[i]
    PROVE  /\ ns[Len(ns)].fn \notin Visual => AsGame(ms) = AsGame(ns)
           /\ ns[Len(ns)].fn \in Visual =>
                 AsGame(ms) = [AsGame(ns) EXCEPT ![Len(AsGame(ns))].given = TRUE]
<1> DEFINE gs == AsGame(ns)
           m  == Len(ns)
           g  == [gs[m] EXCEPT !.given = TRUE]
<1>1. /\ gs \in Seq(GameCallSet) /\ Len(gs) = m /\ m \in Nat \ {0} /\ m \in 1..m
      /\ \A i \in 1..m : gs[i] = GameCall(ns[i])
  BY AsGameType
<1>2. /\ AsGame(ms) \in Seq(GameCallSet) /\ Len(AsGame(ms)) = m
      /\ \A i \in 1..m : AsGame(ms)[i] = GameCall(ms[i])
  BY AsGameType
<1>3. \A i \in 1..m : i # m => AsGame(ms)[i] = gs[i]
  BY <1>1, <1>2
<1>4. /\ gs[m] \in GameCallSet /\ AsGame(ms)[m] \in GameCallSet
      /\ AsGame(ms)[m].fn = gs[m].fn /\ AsGame(ms)[m].of = gs[m].of
      /\ gs[m].fn = ns[m].fn
      /\ AsGame(ms)[m].given <=> ns[m].fn \in Visual
      /\ gs[m].given => ns[m].fn \in Visual
  <2>1. gs[m] \in GameCallSet /\ AsGame(ms)[m] \in GameCallSet
    BY <1>1, <1>2
  <2>2. gs[m] = GameCall(ns[m]) /\ AsGame(ms)[m] = GameCall(ms[m]) /\ ms[m].fn = ns[m].fn
        /\ ms[m].of = ns[m].of /\ ms[m].left
    BY <1>1, <1>2
  <2> HIDE DEF gs, m
  <2> QED  BY <2>1, <2>2, GameCallFields
<1>5. CASE ns[m].fn \notin Visual
  <2>1. gs[m].given = AsGame(ms)[m].given
    BY <1>4, <1>5 DEF GameCallSet
  <2>2. AsGame(ms)[m] = gs[m]
    BY <1>4, <2>1, SameGameCall
  <2>3. AsGame(ms) = gs
    <3> HIDE DEF gs, m
    <3> QED  BY <1>1, <1>2, <1>3, <2>2, SeqEqual
  <2> QED  BY <1>5, <2>3
<1>6. CASE ns[m].fn \in Visual
  <2>3. AsGame(ms)[m] = g
    <3>1. AsGame(ms)[m].given = TRUE
      BY <1>4, <1>6 DEF GameCallSet
    <3> QED  BY <1>4, <3>1, SameGameCall
  <2>4. g \in GameCallSet
    BY <1>1, <1>2, <2>3
  <2>5. AsGame(ms) = [gs EXCEPT ![m] = g]
    <3> HIDE DEF gs, m, g
    <3>1. /\ [gs EXCEPT ![m] = g] \in Seq(GameCallSet) /\ Len([gs EXCEPT ![m] = g]) = m
          /\ \A i \in 1..m : [gs EXCEPT ![m] = g][i] = IF i = m THEN g ELSE gs[i]
      BY <1>1, <2>4, ExceptSeq
    <3>2. \A i \in 1..m : AsGame(ms)[i] = [gs EXCEPT ![m] = g][i]
      BY <1>3, <2>3, <3>1
    <3> QED  BY <1>2, <3>1, <3>2, SeqEqual
  <2> QED  BY <1>1, <1>6, <2>5
<1> QED  BY <1>5, <1>6

\* Only the calls of one thread change.
LEMMA OneThread ==
    ASSUME CallsInv, NEW t \in Thread, NEW ms, native' = [native EXCEPT ![t] = ms]
    PROVE  GameCalls' = [GameCalls EXCEPT ![t] = AsGame(ms)]
<1>1. GameCalls' = [u \in Thread |-> AsGame(native'[u])]
  BY DEF GameCalls, AsGame, GameCall
<1>2. \A u \in Thread : native'[u] = IF u = t THEN ms ELSE native[u]
  BY DEF CallsInv, CallsTypeOK
<1> QED  BY <1>1, <1>2, GameCallsAre

\* A vehicle's rate is crawling's exactly while a call that was given it is in progress.
RatesHold == visual = Native!Rates

LEMMA RatesFollow == CallsInv => RatesHold
<1> SUFFICES ASSUME CallsInv PROVE visual = Native!Rates
  BY DEF RatesHold
<1>1. ASSUME NEW d \in Visual, NEW v \in Vehicle
      PROVE  Native!Given(d, v) <=> visual[d][v] = "crawl"
  <2> DEFINE r == [fn |-> d, of |-> v, given |-> TRUE]
  <2>0. r \in GameCallSet /\ r.fn = d /\ r.of = v /\ r.given = TRUE /\ d # "none"
    BY DEF GameCallSet, Pushing, Visual
  <2> HIDE DEF r
  <2>g. Native!Given(d, v) <=> \E t \in Thread : \E i \in DOMAIN GameCalls[t] : GameCalls[t][i] = r
    BY DEF Native!Given, r
  <2>1. ASSUME NEW t \in Thread, NEW i \in DOMAIN GameCalls[t], GameCalls[t][i] = r
        PROVE  visual[d][v] = "crawl"
    <3>1. /\ native[t] \in Seq(NativeCall) /\ Paired(native[t], calls[t]) /\ Drawn(t)
          /\ GameCalls[t] = AsGame(native[t])
      BY CallsType, GameCallsAre
    <3> DEFINE ns == native[t]
               cs == calls[t]
    <3>2. i \in 1..Len(ns) /\ GameCall(ns[i]) = r
      BY <2>1, <3>1, AsGameType
    <3>3. ns[i].fn = d /\ ns[i].of = v /\ ns[i].left
      BY <2>0, <3>2, GameCallFields
    <3>4. t = Drawer[v]
      BY <3>1, <3>2, <3>3 DEF Drawn
    <3>5. PICK k \in 1..Len(cs) : cs[k].home = i
      BY <3>1, <3>2, <3>3 DEF Paired
    <3>6. Saves(cs[k], d, v)
      BY <3>1, <3>3, <3>5 DEF Paired, Saves, SlotOf
    <3>7. LeadsBack(cs, visual[d][v], d, v)
      BY <3>4 DEF CallsInv
    <3> QED  BY <3>6, <3>7 DEF LeadsBack
  <2>2. ASSUME visual[d][v] = "crawl" PROVE Native!Given(d, v)
    <3> DEFINE t == Drawer[v]
               ns == native[t]
    <3>1. PICK i \in 1..Len(ns) : ns[i].fn = d /\ ns[i].of = v /\ ns[i].left
      BY <2>2, CallsComeBack DEF CallsUndone, RatesRestored
    <3>2. t \in Thread /\ ns \in Seq(NativeCall) /\ GameCalls[t] = AsGame(ns)
      <4>1. t \in Thread  BY CallsAssumption DEF CallsAssumption
      <4> QED  BY <4>1, CallsType, GameCallsAre
    <3> HIDE DEF ns, t
    <3>3. AsGame(ns)[i] \in GameCallSet /\ AsGame(ns)[i] = GameCall(ns[i])
          /\ DOMAIN AsGame(ns) = 1..Len(ns)
      <4>1. AsGame(ns) \in Seq(GameCallSet) /\ Len(AsGame(ns)) = Len(ns)
            /\ AsGame(ns)[i] = GameCall(ns[i])
        BY <3>2, AsGameType
      <4>2. DOMAIN AsGame(ns) = 1..Len(ns)
        BY DEF AsGame
      <4> QED  BY <4>1, <4>2
    <3>4. AsGame(ns)[i].fn = d /\ AsGame(ns)[i].of = v /\ AsGame(ns)[i].given
      BY <3>1, <3>3, GameCallFields
    <3>5. AsGame(ns)[i].given = r.given
      BY <2>0, <3>3, <3>4 DEF GameCallSet
    <3>6. AsGame(ns)[i] = r
      BY <2>0, <3>3, <3>4, <3>5, SameGameCall
    <3> QED  BY <2>g, <3>2, <3>3, <3>6
  <2> QED  BY <2>g, <2>1, <2>2
<1>2. visual \in [Visual -> [Vehicle -> {"game", "crawl"}]]
  BY DEF CallsInv, CallsTypeOK
<1>3. Native!Rates = [d \in Visual |-> [v \in Vehicle |->
                         IF Native!Given(d, v) THEN "crawl" ELSE "game"]]
  BY DEF Native!Rates
<1>4. \A d \in Visual, v \in Vehicle :
         visual[d][v] = IF Native!Given(d, v) THEN "crawl" ELSE "game"
  BY <1>1, <1>2
<1> QED  BY <1>2, <1>3, <1>4

-----------------------------------------------------------------------------
(* Each step of the redirected calls is one of the game's, or none. *)

LEMMA EnterBegins ==
    ASSUME CallsInv, NEW t \in Thread, NEW fn \in Pushing, NEW v \in Vehicle,
           NativeEnter(t, fn, v)
    PROVE  Native!Begin(t, fn, v)
<1> DEFINE n == [fn |-> fn, of |-> v, left |-> FALSE]
<1>1. native' = [native EXCEPT ![t] = Append(native[t], n)]
  BY DEF NativeEnter
<1>2. n \in NativeCall /\ native[t] \in Seq(NativeCall)
  BY CallsType DEF NativeCall
<1>3. GameCall(n) = [fn |-> fn, of |-> v, given |-> FALSE]
  <2>1. (n.fn \in Visual /\ n.left) = FALSE  OBVIOUS
  <2> QED  BY <2>1 DEF GameCall
<1> HIDE DEF n
<1>4. GameCalls' = [GameCalls EXCEPT ![t] = Append(AsGame(native[t]), GameCall(n))]
  BY <1>1, <1>2, OneThread, AsGameBegins
<1>5. GameCalls[t] = AsGame(native[t])
  BY GameCallsAre
<1> QED  BY <1>3, <1>4, <1>5 DEF Native!Begin

LEMMA PopEnds ==
    ASSUME CallsInv, NEW t \in Thread, native[t] # <<>>, native' = [native EXCEPT ![t] = Pop(@)]
    PROVE  Native!End(t)
<1>1. native[t] \in Seq(NativeCall) /\ GameCalls[t] = AsGame(native[t])
  BY CallsType, GameCallsAre
<1>2. GameCalls' = [GameCalls EXCEPT ![t] = AsGame(Pop(native[t]))]
  BY OneThread
<1>3. /\ AsGame(native[t]) # <<>>
      /\ AsGame(Pop(native[t])) = SubSeq(AsGame(native[t]), 1, Len(AsGame(native[t])) - 1)
  BY <1>1, AsGameEnds
<1> QED  BY <1>1, <1>2, <1>3 DEF Native!End

\* The address of the innermost call is replaced.
LEMMA MarkGives ==
    ASSUME CallsInv, NEW t \in Thread, native[t] # <<>>,
           native' = [native EXCEPT ![t][InProgress(t)].left = TRUE]
    PROVE  /\ Top(native[t]).fn \notin Visual => UNCHANGED GameCalls
           /\ Top(native[t]).fn \in Visual => Native!Give(t)
<1> DEFINE ns == native[t]
           ms == native'[t]
<1>1. /\ native' \in [Thread -> Seq(NativeCall)] /\ \A u \in Thread : u # t => native'[u] = native[u]
      /\ Len(ms) = Len(ns) /\ Len(ns) \in Nat \ {0} /\ ms[Len(ns)].left
      /\ \A i \in 1..Len(ns) : /\ ms[i].fn = ns[i].fn /\ ms[i].of = ns[i].of
                               /\ i # Len(ns) => ms[i] = ns[i]
  BY Marked
<1>2. /\ ns \in Seq(NativeCall) /\ ms \in Seq(NativeCall) /\ GameCalls[t] = AsGame(ns)
      /\ GameCalls = [u \in Thread |-> AsGame(native[u])]
  BY <1>1, CallsType, GameCallsAre
<1>3. native' = [native EXCEPT ![t] = ms]
  BY <1>1 DEF CallsInv, CallsTypeOK
<1>4. GameCalls' = [GameCalls EXCEPT ![t] = AsGame(ms)]
  BY <1>3, OneThread
<1> HIDE DEF ns, ms
<1>5. /\ ns[Len(ns)].fn \notin Visual => AsGame(ms) = AsGame(ns)
      /\ ns[Len(ns)].fn \in Visual =>
            AsGame(ms) = [AsGame(ns) EXCEPT ![Len(AsGame(ns))].given = TRUE]
  BY <1>1, <1>2, AsGameGives DEF ns
<1>6. /\ Len(AsGame(ns)) = Len(ns) /\ AsGame(ns)[Len(ns)].fn = ns[Len(ns)].fn
      /\ AsGame(ns) # <<>>
  <2>1. Len(AsGame(ns)) = Len(ns) /\ AsGame(ns)[Len(ns)] = GameCall(ns[Len(ns)])
    <3>1. Len(ns) \in 1..Len(ns)  BY <1>1
    <3> QED  BY <1>2, <3>1, AsGameType
  <2> QED  BY <1>1, <2>1, GameCallFields
<1>7. CASE ns[Len(ns)].fn \notin Visual
  <2>1. GameCalls' = GameCalls
    BY <1>2, <1>4, <1>5, <1>7
  <2> QED  BY <1>7, <2>1 DEF Top, ns
<1>8. CASE ns[Len(ns)].fn \in Visual
  <2>1. GameCalls' = [GameCalls EXCEPT ![t][Len(GameCalls[t])].given = TRUE]
    BY <1>2, <1>4, <1>5, <1>8
  <2> QED  BY <1>2, <1>6, <1>8, <2>1 DEF Top, ns, Native!Give
<1> QED  BY <1>7, <1>8

LEMMA Silent ==
    ASSUME UNCHANGED <<native, visual>>
    PROVE  UNCHANGED <<GameCalls, visual>>
BY DEF GameCalls

LEMMA HookGives ==
    ASSUME CallsInv, NEW t \in Thread, hook_enter(t)
    PROVE  Native!Give(t) \/ UNCHANGED <<GameCalls, visual>>
<1> DEFINE n == Top(native[t])
<1>1. native[t] # <<>> /\ native[t] \in Seq(NativeCall)
  BY CallsType DEF hook_enter, InHook
<1>2. n.fn \in Pushing
  <2>1. Len(native[t]) \in 1..Len(native[t])  BY <1>1
  <2>2. native[t][Len(native[t])] \in NativeCall  BY <1>1, <2>1
  <2> QED  BY <2>2 DEF NativeCall, Top
<1> HIDE DEF n
<1>3. ASSUME NEW c, push_call(t, c), n.fn \notin Visual, visual' = visual
      PROVE  UNCHANGED <<GameCalls, visual>>
  <2>1. UNCHANGED native \/ native' = [native EXCEPT ![t][InProgress(t)].left = TRUE]
    BY <1>3 DEF push_call
  <2> QED  BY <1>1, <1>3, <2>1, MarkGives, Silent DEF n
<1>4. CASE enabled /\ ~stopped /\ n.fn = "PITCH"
  <2>1. EnterPitch(t) /\ n.fn \notin Visual
    BY <1>4 DEF hook_enter, n, Visual
  <2>2. CASE \E eligible \in BOOLEAN : push_call(t, [NewCall(t) EXCEPT !.pitch = eligible])
    BY <1>3, <2>1, <2>2 DEF EnterPitch
  <2>3. CASE native' = [native EXCEPT ![t][InProgress(t)].left = TRUE]
    <3>1. visual' = visual  BY <2>1 DEF EnterPitch
    <3> QED  BY <1>1, <2>1, <2>3, <3>1, MarkGives DEF n
  <2> QED  BY <2>1, <2>2, <2>3 DEF EnterPitch
<1>5. CASE enabled /\ ~stopped /\ n.fn = "SPLIT"
  <2>1. EnterSplit(t) /\ n.fn \notin Visual
    BY <1>5 DEF hook_enter, n, Visual
  <2> QED  BY <1>3, <2>1 DEF EnterSplit
<1>6. CASE enabled /\ ~stopped /\ n.fn \in Visual
  <2> DEFINE c == [NewCall(t) EXCEPT !.slot = n.fn, !.bits = visual[n.fn][n.of]]
  <2>1. EnterVisual(t, n.fn, n.of)
    BY <1>6 DEF hook_enter, n, Visual
  <2> HIDE DEF c
  <2>2. CASE push_call(t, c) /\ visual' = IF Len(calls[t]) = Depth THEN visual
                                         ELSE [visual EXCEPT ![n.fn][n.of] = "crawl"]
    <3>1. CASE Len(calls[t]) = Depth
      BY <2>2, <3>1, Silent DEF push_call
    <3>2. CASE Len(calls[t]) # Depth
      <4>1. native' = [native EXCEPT ![t][InProgress(t)].left = TRUE]
        BY <2>2, <3>2 DEF push_call
      <4> QED  BY <1>1, <1>6, <4>1, MarkGives DEF n
    <3> QED  BY <3>1, <3>2
  <2>3. CASE UNCHANGED <<native, visual>>
    BY <2>3, Silent
  <2> QED  BY <2>1, <2>2, <2>3 DEF EnterVisual, c
<1>7. CASE ~(enabled /\ ~stopped)
  BY <1>7, Silent DEF hook_enter
<1> QED  BY <1>2, <1>4, <1>5, <1>6, <1>7 DEF Pushing

LEMMA StartsAsEver == CallsInit => Native!Init
<1> SUFFICES ASSUME CallsInit PROVE Native!Init
  OBVIOUS
<1>1. \A t \in Thread : AsGame(native[t]) = <<>>
  BY DEF CallsInit, AsGame
<1>2. GameCalls = [t \in Thread |-> <<>>]
  BY <1>1, GameCallsAre
<1>3. visual = Native!Rates
  BY CallsStart, RatesFollow DEF RatesHold
<1> QED  BY <1>2, <1>3 DEF Native!Init

LEMMA StepsAsEver == CallsInv /\ RatesHold' /\ [CallsNext]_callsVars => [Native!Next]_(Native!vars)
<1> SUFFICES ASSUME CallsInv, RatesHold', [CallsNext]_callsVars
             PROVE  Native!Next \/ UNCHANGED <<GameCalls, visual>>
  BY DEF Native!vars
<1>1. visual' = (Native!Rates)'
  BY DEF RatesHold
<1>2. ASSUME NEW t \in Thread, NEW fn \in Pushing, NEW v \in Vehicle, NativeEnter(t, fn, v)
      PROVE  Native!Next
  BY <1>1, <1>2, EnterBegins DEF Native!Next
<1>3. ASSUME NEW t \in Thread, PlainReturn(t) PROVE Native!Next
  <2>1. Native!End(t)
    BY <1>3, PopEnds DEF PlainReturn
  <2> QED  BY <1>1, <2>1 DEF Native!Next
<1>4. ASSUME NEW t \in Thread, hook_leave(t) PROVE Native!Next
  <2>1. native[t] # <<>> /\ native[t] \in Seq(NativeCall) /\ calls[t] \in Seq(Call)
        /\ Paired(native[t], calls[t]) /\ native[t][Len(native[t])].left
    BY <1>4, CallsType DEF hook_leave, Top
  <2>2. calls[t][Len(calls[t])].home = Len(native[t])
    BY <2>1, LeavePairs
  <2>3. native' = [native EXCEPT ![t] = Pop(@)]
    BY <1>4, <2>2 DEF hook_leave, Top, Pop
  <2>4. Native!End(t)
    BY <2>1, <2>3, PopEnds
  <2> QED  BY <1>1, <2>4 DEF Native!Next
<1>5. ASSUME NEW t \in Thread, hook_enter(t)
      PROVE  Native!Next \/ UNCHANGED <<GameCalls, visual>>
  BY <1>1, <1>5, HookGives DEF Native!Next
<1>6. CASE UNCHANGED <<native, visual>>
  BY <1>6, Silent
<1>7. \/ \E t \in Thread :
            \/ \E fn \in Pushing, v \in Vehicle : NativeEnter(t, fn, v)
            \/ hook_enter(t) \/ PlainReturn(t) \/ hook_leave(t)
      \/ UNCHANGED <<native, visual>>
  BY DEF CallsNext, FastGate, EnterVector, FrameFlags, ExitFlags, PauseFlags, OtherFault,
         callsVars
<1> QED  BY <1>2, <1>3, <1>4, <1>5, <1>6, <1>7
=============================================================================
