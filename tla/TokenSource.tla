----------------------------- MODULE TokenSource -----------------------------
(***************************************************************************)
(* What the token source of the Apple Business Manager client promises its *)
(* callers: a call that answers with a token answers with one that the     *)
(* endpoint issued, and that was obtained or still valid while the call    *)
(* was under way.                                                          *)
(***************************************************************************)
CONSTANTS
  Procs,    \* processes; each has at most one call under way
  Tokens,
  Failed,   \* the answer of a call that fails
  None

VARIABLES
  valid,    \* the tokens that are valid
  good,     \* what each call under way may answer with
  calling,  \* the processes with a call under way
  answer    \* what the last call of each process answered

vars == <<valid, good, calling, answer>>

Init ==
  /\ valid = {}
  /\ good = [p \in Procs |-> {}]
  /\ calling = {}
  /\ answer = [p \in Procs |-> None]

Begin(p) ==
  /\ p \notin calling
  /\ calling' = calling \cup {p}
  /\ good' = [good EXCEPT ![p] = valid]
  /\ answer' = [answer EXCEPT ![p] = None]
  /\ UNCHANGED valid

\* A call obtains a new token, which is valid unless its lifetime is too short.
Issue(p, t) ==
  /\ p \in calling
  /\ \/ /\ valid' = valid \cup {t}
        /\ good' = [q \in Procs |-> IF q \in calling THEN good[q] \cup {t} ELSE good[q]]
     \/ /\ valid' = valid
        /\ good' = [good EXCEPT ![p] = @ \cup {t}]
  /\ UNCHANGED <<calling, answer>>

Lapse ==
  /\ valid' \in SUBSET valid
  /\ UNCHANGED <<good, calling, answer>>

End(p, t) ==
  /\ p \in calling
  /\ t \in good[p] \cup {Failed}
  /\ answer' = [answer EXCEPT ![p] = t]
  /\ calling' = calling \ {p}
  /\ good' = [good EXCEPT ![p] = {}]
  /\ UNCHANGED valid

\* The process is restarted; nobody is answered.
Restart(p) ==
  /\ calling' = calling \ {p}
  /\ good' = [good EXCEPT ![p] = {}]
  /\ answer' = [answer EXCEPT ![p] = None]
  /\ UNCHANGED valid

Next ==
  \/ \E p \in Procs :
       \/ Begin(p) \/ Restart(p)
       \/ \E t \in Tokens : Issue(p, t)
       \/ \E t \in Tokens \cup {Failed} : End(p, t)
  \/ Lapse

Spec == Init /\ [][Next]_vars
==============================================================================
