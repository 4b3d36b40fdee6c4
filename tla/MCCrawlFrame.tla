---------------------------- MODULE MCCrawlFrame ----------------------------
(***************************************************************************)
(* CrawlFrame with two vehicles: one can be uncoupled from the other, and  *)
(* one can be derailed while the other is not.                             *)
(***************************************************************************)
EXTENDS CrawlFrame

CONSTANTS engine, wagon

Vehicles == {engine, wagon}

\* What the status reports does not depend on how many vehicles there are.
OneVehicle == {engine}

\* Everything but a failure of the stages after the crawl hooks.
Installed == FaultKinds \ {"install"}

\* Only that failure.
NotInstalled == {"install"}
=============================================================================
