---------------------------- MODULE EventWindows ----------------------------
(***************************************************************************)
(* The windows of one triggered event (events/service.go): the week in which *)
(* the whole site is free.  Whoever wants it open calls OpenWindow, whoever  *)
(* wants to know asks which window is open at a time.                        *)
(***************************************************************************)
EXTENDS Site

CONSTANTS
    WindowLength,  \* ticks a window stays open
    InitWindows    \* plan -> windows opened before

ASSUME WindowAssumption ==
    /\ WindowLength \in Nat \ {0, 1}
    /\ \A p \in Plans : \A w \in InitWindows[p] :
          w.from \in Nat /\ w.to = w.from + WindowLength

VARIABLE windows       \* rows of event_windows: from (inclusive) and to (exclusive)

WindowsInit == windows = InitWindows[call]

(* OpenWindows: half-open, so that windows back to back neither overlap nor  *)
(* gap; of two that are open the later one.                                  *)
OpenAt(t) == {w \in windows : w.from <= t /\ t < w.to}
Ends(t)   == IF OpenAt(t) = {} THEN 0
             ELSE (CHOOSE w \in OpenAt(t) : \A v \in OpenAt(t) : v.from <= w.from).to

(* OpenWindow: a running window is left alone, otherwise one is made from    *)
(* the time read here.                                                       *)
WindowRead(r, running, absent, failed) ==
    /\ \/ /\ NoFault
          /\ IF OpenAt(clock) # {} THEN Goto(r, running)
             ELSE Note(r, absent, [Seen(r) EXCEPT !.now = clock])
       \/ Fault /\ Goto(r, failed)
    /\ UNCHANGED <<timeVars, windows>>

Window(from) == [from |-> from, to |-> from + WindowLength]

Inserted(r) == IF \E w \in windows : w.from = Seen(r).now THEN windows
             ELSE windows \cup {Window(Seen(r).now)}

(* The insert: UNIQUE (event, second) settles two callers of one second; the *)
(* one that took no row reads the other's.  The insert fails, or that read   *)
(* does, or the insert commits and is reported to have failed.               *)
WindowInsert(r, next, failed) ==
    /\ \/ NoFault /\ Goto(r, next) /\ windows' = Inserted(r)
       \/ Fault /\ Goto(r, failed) /\ windows' \in {windows, Inserted(r)}
    /\ UNCHANGED timeVars
=============================================================================
