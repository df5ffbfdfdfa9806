---- MODULE MCBridgeRegistry ----
(* The registry with an event loop that is late by a bounded delay, smaller in the *)
(* behaviours called punctual than in the others.                                  *)
EXTENDS BridgeRegistry

CONSTANT PunctualDelay   \* how late a touch is, at most, in punctual behaviours

VARIABLE punctual        \* the event loop is never stalled for longer

PunctualInit == Init /\ punctual \in BOOLEAN

PunctualNext ==
  /\ Next
  /\ punctual => \A s \in Session : slept'[s] <= TouchInterval + PunctualDelay
  /\ UNCHANGED punctual

PunctualSpec == PunctualInit /\ [][PunctualNext]_<<vars, punctual>>

\* While touches run on time, late by less than a ttl minus an interval, expiry never
\* takes the seat of a live session.
SeatsKeptWhenPunctual == punctual => LiveSessionKeepsSeat

====
