------------------------------ MODULE TokenCache ------------------------------
(***************************************************************************)
(* How nanoca gets the access tokens for Apple Business Manager: abm/jwt.go *)
(* and the ReuseTokenSource it is wrapped in.                              *)
(*                                                                         *)
(* A process keeps its last token in memory.  When that has expired it     *)
(* looks into a file, which all processes of one client id and working     *)
(* directory share, and when there is nothing of use it asks the endpoint  *)
(* and overwrites the file.  Every system call on the file is one step;    *)
(* os.WriteFile is two, since opening the file truncates it.  The mutex of *)
(* ReuseTokenSource lets a process make one call at a time.                *)
(*                                                                         *)
(* A token is told apart from others by the time at which it expires.      *)
(***************************************************************************)
EXTENDS Integers

CONSTANTS
  Procs,      \* processes that share the file
  Lifetimes,  \* how long the endpoint lets a token live, or NoExpiry
  MaxLife,    \* the longest of them
  CacheLife,  \* a week: how long an entry of the file is used
  Delta,      \* expiryDelta: how early oauth2 takes a token for expired
  MaxTime,    \* bounds the clock
  NoExpiry,   \* the endpoint states no lifetime
  Failed,     \* the answer of a call that returns an error
  None

ASSUME TokenCacheAssumption ==
  /\ CacheLife \in Nat /\ Delta \in Nat /\ MaxTime \in Nat /\ MaxLife \in Nat
  /\ Lifetimes \subseteq 0 .. MaxLife \cup {NoExpiry}
  /\ NoExpiry \notin Nat /\ Failed \notin Nat /\ None \notin Nat
  /\ NoExpiry # Failed /\ NoExpiry # None /\ Failed # None

Tokens == 0 .. (MaxTime + MaxLife) \cup {NoExpiry}

\* What is at the path of the cache.  Damaged: content that is not JSON.
Files == [state : {"absent", "empty", "damaged", "entry"},
          token : Tokens \cup {None},
          until : Nat]

NoEntry(state) == [state |-> state, token |-> None, until |-> 0]

Absent  == NoEntry("absent")
Empty   == NoEntry("empty")
Damaged == NoEntry("damaged")

Entry(t, until) == [state |-> "entry", token |-> t, until |-> until]

VARIABLES
  now,      \* the clock
  file,     \* the cache file
  memory,   \* the token ReuseTokenSource holds
  pc,       \* the step a process takes next
  got,      \* the token it has obtained
  until,    \* the ExpiresAt it is about to write
  linked,   \* whether the file it has opened is still the one at the path
  answer,   \* what its last call returned
  healthy,  \* from now on neither endpoint nor disk nor process fails
  issued,   \* history: the tokens the endpoint has issued
  good      \* history: tokens that have been valid, or obtained, during a call

local   == <<memory, pc, got, until, linked>>
history == <<issued, good>>
vars    == <<now, file, local, answer, healthy, history>>

Steps == {"idle", "reuse", "load", "remove", "fetch", "create", "write"}

TypeOK ==
  /\ now \in 0 .. MaxTime
  /\ file \in Files
  /\ memory \in [Procs -> Tokens \cup {None}]
  /\ pc \in [Procs -> Steps]
  /\ got \in [Procs -> Tokens \cup {None}]
  /\ until \in [Procs -> Nat]
  /\ linked \in [Procs -> BOOLEAN]
  /\ answer \in [Procs -> Tokens \cup {None, Failed}]
  /\ healthy \in BOOLEAN
  /\ issued \subseteq Tokens
  /\ good \in [Procs -> SUBSET Tokens]

Init ==
  /\ now = 0
  /\ file = Absent
  /\ memory = [p \in Procs |-> None]
  /\ pc = [p \in Procs |-> "idle"]
  /\ got = [p \in Procs |-> None]
  /\ until = [p \in Procs |-> 0]
  /\ linked = [p \in Procs |-> FALSE]
  /\ answer = [p \in Procs |-> None]
  /\ healthy = FALSE
  /\ issued = {}
  /\ good = [p \in Procs |-> {}]

-----------------------------------------------------------------------------
MayFail == ~healthy

Goto(p, step) == pc' = [pc EXCEPT ![p] = step]

\* oauth2's Token.Valid.
Valid(t) == t # None /\ (t # NoExpiry => now + Delta <= t)

\* Mutant: only the week counts.
IsValidWeekOnly(entry) == now < entry.until

\* cachedToken.isValid.
IsValid(entry) == now < entry.until /\ Valid(entry.token)

\* A call ends: its locals are gone.
Return(p, result) ==
  /\ answer' = [answer EXCEPT ![p] = result]
  /\ Goto(p, "idle")
  /\ got' = [got EXCEPT ![p] = None]
  /\ until' = [until EXCEPT ![p] = 0]
  /\ linked' = [linked EXCEPT ![p] = FALSE]
  /\ good' = [good EXCEPT ![p] = {}]

\* ReuseTokenSource keeps the token it hands out.
ReturnToken(p, t) ==
  /\ Return(p, t)
  /\ memory' = [memory EXCEPT ![p] = t]

Fail(p) == Return(p, Failed) /\ UNCHANGED memory

-----------------------------------------------------------------------------
\* The HTTP client needs a token for a request to Apple Business Manager.
Call(p) ==
  /\ pc[p] = "idle"
  /\ Goto(p, "reuse")
  /\ answer' = [answer EXCEPT ![p] = None]
  /\ good' = [good EXCEPT ![p] = {t \in issued : Valid(t)}]
  /\ UNCHANGED <<now, file, memory, got, until, linked, healthy, issued>>

\* ReuseTokenSource: the token in memory is used while it is valid.
Reuse(p) ==
  /\ pc[p] = "reuse"
  /\ \/ /\ Valid(memory[p])
        /\ ReturnToken(p, memory[p])
     \/ /\ ~Valid(memory[p])
        /\ Goto(p, "load")
        /\ UNCHANGED <<memory, got, until, linked, answer, good>>
  /\ UNCHANGED <<now, file, healthy, issued>>

\* Mutant: an error of loadCachedToken ends the call.
LoadStrict(p) ==
  /\ pc[p] = "load"
  /\ \/ /\ file.state = "entry" /\ IsValid(file)
        /\ ReturnToken(p, file.token)
     \/ /\ file.state \in {"empty", "damaged"} \/ MayFail
        /\ Fail(p)
     \/ /\ file.state = "absent" \/ (file.state = "entry" /\ ~IsValid(file))
        /\ Goto(p, IF file.state = "entry" THEN "remove" ELSE "fetch")
        /\ UNCHANGED <<memory, got, until, linked, answer, good>>
  /\ UNCHANGED <<now, file, healthy, issued>>

\* loadCachedToken.  Token goes on to the endpoint after an error (the file cannot
\* be read, or is not JSON) as it does when there is no file.
Load(p) ==
  /\ pc[p] = "load"
  /\ \/ /\ file.state = "entry" /\ IsValid(file)
        /\ ReturnToken(p, file.token)
     \/ /\ \/ file.state # "entry" /\ Goto(p, "fetch")
           \/ file.state = "entry" /\ ~IsValid(file) /\ Goto(p, "remove")
           \/ MayFail /\ Goto(p, "fetch")
        /\ UNCHANGED <<memory, got, until, linked, answer, good>>
  /\ UNCHANGED <<now, file, healthy, issued>>

\* os.Remove takes away whatever is at the path by now.
Remove(p) ==
  /\ pc[p] = "remove"
  /\ \/ /\ file' = Absent
        /\ linked' = [q \in Procs |-> FALSE]
     \/ MayFail /\ UNCHANGED <<file, linked>>
  /\ Goto(p, "fetch")
  /\ UNCHANGED <<now, memory, got, until, answer, healthy, history>>

\* The token the endpoint issues now, for a lifetime.
NewToken(life) == IF life = NoExpiry THEN NoExpiry ELSE now + life

\* Mutant: an error of the endpoint is not noticed.
FetchUnchecked(p) ==
  /\ pc[p] = "fetch"
  /\ \/ \E life \in Lifetimes :
          LET t == NewToken(life) IN
            /\ issued' = issued \cup {t}
            /\ got' = [got EXCEPT ![p] = t]
            /\ good' = [q \in Procs |-> IF q = p \/ (pc[q] # "idle" /\ Valid(t))
                                          THEN good[q] \cup {t} ELSE good[q]]
     \/ MayFail /\ UNCHANGED <<got, issued, good>>
  /\ Goto(p, "create")
  /\ UNCHANGED <<now, file, memory, until, linked, answer, healthy>>

\* createJWT, and the exchange of the JWT for a token.
Fetch(p) ==
  /\ pc[p] = "fetch"
  /\ \/ \E life \in Lifetimes :
          LET t == NewToken(life) IN
            /\ issued' = issued \cup {t}
            /\ got' = [got EXCEPT ![p] = t]
            /\ good' = [q \in Procs |-> IF q = p \/ (pc[q] # "idle" /\ Valid(t))
                                          THEN good[q] \cup {t} ELSE good[q]]
            /\ Goto(p, "create")
            /\ UNCHANGED <<memory, until, linked, answer>>
     \/ MayFail /\ Fail(p) /\ UNCHANGED issued
  /\ UNCHANGED <<now, file, healthy>>

\* saveCachedToken up to the opening of the file, which truncates it.  On an error
\* Token returns none, although it has a token.
CreateFile(p) ==
  /\ pc[p] = "create"
  /\ \/ /\ file' = Empty
        /\ linked' = [linked EXCEPT ![p] = TRUE]
        /\ until' = [until EXCEPT ![p] = now + CacheLife]
        /\ Goto(p, "write")
        /\ UNCHANGED <<memory, got, answer, good>>
     \/ MayFail /\ Fail(p) /\ UNCHANGED file
  /\ UNCHANGED <<now, healthy, issued>>

\* What the file holds once content has been written over it from its start: if that
\* is shorter than what another process has written there, a piece of that remains.
Overwritten(content) ==
  {content} \cup (IF file.state = "empty" THEN {} ELSE {Damaged})

\* A write that fails may have written a part.
WriteFile(p) ==
  /\ pc[p] = "write"
  /\ \/ /\ IF linked[p] THEN file' \in Overwritten(Entry(got[p], until[p])) ELSE UNCHANGED file
        /\ ReturnToken(p, got[p])
     \/ /\ MayFail
        /\ IF linked[p] THEN file' \in {file, Damaged} ELSE UNCHANGED file
        /\ Fail(p)
  /\ UNCHANGED <<now, healthy, issued>>

-----------------------------------------------------------------------------
\* A process dies and is started again.  The file stays as it is.
Restart(p) ==
  /\ MayFail
  /\ Return(p, None)
  /\ memory' = [memory EXCEPT ![p] = None]
  /\ UNCHANGED <<now, file, healthy, issued>>

\* Failures come to an end.
Recover ==
  /\ ~healthy
  /\ healthy' = TRUE
  /\ UNCHANGED <<now, file, local, answer, history>>

Tick ==
  /\ now < MaxTime
  /\ now' = now + 1
  /\ UNCHANGED <<file, local, answer, healthy, history>>

Continue(p) ==
  \/ Reuse(p) \/ Load(p) \/ Remove(p) \/ Fetch(p) \/ CreateFile(p) \/ WriteFile(p)

Next == Tick \/ Recover \/ \E p \in Procs : Call(p) \/ Continue(p) \/ Restart(p)

Spec == Init /\ [][Next]_vars

\* Processes run, and the endpoint answers, once failures have come to an end.
FairSpec == Spec /\ \A p \in Procs : WF_vars(healthy /\ Continue(p))
==============================================================================
