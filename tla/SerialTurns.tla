---------------------------- MODULE SerialTurns ----------------------------
(***************************************************************************)
(* What the session lock of the chat API promises.  Turns take the session *)
(* one after the other: a turn begins only when the turns before it have   *)
(* ended or are in overtime, that is, have lost the session although they  *)
(* still work in it.  Only one that is in overtime can, when it ends, put  *)
(* the next one into overtime.  A turn records its answer at most once and *)
(* only between its beginning and its end; it may end without an answer    *)
(* (it failed, was aborted, or had nothing to say).                        *)
(***************************************************************************)
CONSTANT Turn

VARIABLES
    holders,   \* the turns that work in the session
    overtime,  \* those of them that have lost it
    recorded   \* turns whose answer is recorded

vars == <<holders, overtime, recorded>>

Init == holders = {} /\ overtime = {} /\ recorded = {}

Begin(t) ==
    /\ t \notin holders /\ holders = overtime
    /\ holders' = holders \cup {t}
    /\ UNCHANGED <<overtime, recorded>>

Overrun(t) ==
    /\ t \in holders \ overtime
    /\ overtime' = overtime \cup {t}
    /\ UNCHANGED <<holders, recorded>>

Record(t) ==
    /\ t \in holders \ recorded
    /\ recorded' = recorded \cup {t}
    /\ UNCHANGED <<holders, overtime>>

EndInTime(t) ==
    /\ t \in holders \ overtime
    /\ holders' = holders \ {t}
    /\ UNCHANGED <<overtime, recorded>>

EndLate(t) ==
    /\ t \in overtime
    /\ holders' = holders \ {t}
    /\ overtime' \in {overtime \ {t}, holders \ {t}}
    /\ UNCHANGED recorded

Next ==
    \E t \in Turn :
        Begin(t) \/ Overrun(t) \/ Record(t) \/ EndInTime(t) \/ EndLate(t)

Spec == Init /\ [][Next]_vars
=============================================================================
