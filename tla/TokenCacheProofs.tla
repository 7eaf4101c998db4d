--------------------------- MODULE TokenCacheProofs ---------------------------
(* Theorems about TokenCache, for any number of processes and any times.   *)
EXTENDS TokenCacheProperties, TLAPS

\* The rest of CacheInv, once TypeOK is known.
Facts(p) ==
  /\ memory[p] # None => memory[p] \in issued
  /\ pc[p] # "idle" => {t \in issued : Valid(t)} \subseteq good[p]
  /\ pc[p] = "idle" => good[p] = {}
  /\ pc[p] \in {"create", "write"} => got[p] \in good[p] \cap issued

FileFacts == file.state = "entry" => file.token \in issued

LEMMA CacheInvParts ==
  CacheInv <=> TypeOK /\ FileFacts /\ \A p \in Procs : Facts(p)
  BY DEF CacheInv, Facts, FileFacts

\* The times at which tokens expire stay in range.
LEMMA NewTokenType ==
  ASSUME now \in 0 .. MaxTime, NEW life \in Lifetimes
  PROVE  NewToken(life) \in Tokens
  <1>1. CASE life = NoExpiry
    BY <1>1 DEF NewToken, Tokens
  <1>2. CASE life # NoExpiry
    <2>1. life \in 0 .. MaxLife BY <1>2, TokenCacheAssumption
    <2>2. now + life \in 0 .. (MaxTime + MaxLife) BY <2>1, TokenCacheAssumption
    <2> QED BY <1>2, <2>2 DEF NewToken, Tokens
  <1> QED BY <1>1, <1>2

LEMMA ConstantTypes ==
  /\ Absent \in Files /\ Empty \in Files /\ Damaged \in Files
  /\ \A t \in Tokens : \A u \in Nat : Entry(t, u) \in Files
  /\ None \notin Tokens /\ Failed \notin Tokens
  BY TokenCacheAssumption DEF Absent, Empty, Damaged, NoEntry, Entry, Files, Tokens

LEMMA InitInv == Init => CacheInv
  <1> SUFFICES ASSUME Init PROVE CacheInv OBVIOUS
  <1>0. 0 \in 0 .. MaxTime BY TokenCacheAssumption
  <1>1. TypeOK
    BY <1>0, ConstantTypes DEF Init, TypeOK, Steps
  <1>2. FileFacts /\ \A p \in Procs : Facts(p)
    BY DEF Init, FileFacts, Facts, Absent, NoEntry
  <1> QED BY <1>1, <1>2, CacheInvParts

\* A process that ends its call, and leaves the others alone, keeps the facts.
LEMMA ReturnFacts ==
  ASSUME CacheInv, NEW p \in Procs, NEW result \in Tokens \cup {None, Failed},
         Return(p, result), memory'[p] \in issued \cup {None},
         \A q \in Procs \ {p} : memory'[q] = memory[q],
         UNCHANGED <<now, issued>>
  PROVE  \A q \in Procs : Facts(q)'
  <1> TAKE q \in Procs
  <1>1. Facts(q) /\ TypeOK BY CacheInvParts
  <1>2. CASE q = p
    BY <1>1, <1>2 DEF Facts, Return, Goto, TypeOK
  <1>3. CASE q # p
    BY <1>1, <1>3 DEF Facts, Return, Goto, TypeOK, Valid
  <1> QED BY <1>2, <1>3

LEMMA ReturnTypes ==
  ASSUME TypeOK, NEW p \in Procs, NEW result \in Tokens \cup {None, Failed},
         Return(p, result)
  PROVE  /\ pc' \in [Procs -> Steps]
         /\ got' \in [Procs -> Tokens \cup {None}]
         /\ until' \in [Procs -> Nat]
         /\ linked' \in [Procs -> BOOLEAN]
         /\ answer' \in [Procs -> Tokens \cup {None, Failed}]
         /\ good' \in [Procs -> SUBSET Tokens]
  BY DEF TypeOK, Return, Goto, Steps

\* A call that ends and touches neither the clock nor the tokens issued.
LEMMA ReturnInv ==
  ASSUME CacheInv, NEW p \in Procs, NEW result \in Tokens \cup {None, Failed},
         Return(p, result), memory' \in [Procs -> Tokens \cup {None}],
         memory'[p] \in issued \cup {None},
         \A q \in Procs \ {p} : memory'[q] = memory[q],
         file' \in Files, FileFacts', UNCHANGED <<now, healthy, issued>>
  PROVE  CacheInv'
  <1>1. \A q \in Procs : Facts(q)' BY ReturnFacts
  <1>2. TypeOK BY CacheInvParts
  <1>3. TypeOK' BY <1>2, ReturnTypes DEF TypeOK
  <1> QED BY <1>1, <1>3, CacheInvParts DEF CacheInv, FileFacts, Facts

LEMMA ReturnTokenInv ==
  ASSUME CacheInv, NEW p \in Procs, NEW t \in issued, ReturnToken(p, t),
         file' \in Files, FileFacts', UNCHANGED <<now, healthy, issued>>
  PROVE  CacheInv'
  <1>1. TypeOK BY CacheInvParts
  <1>2. t \in Tokens BY <1>1 DEF TypeOK
  <1>3. memory' \in [Procs -> Tokens \cup {None}] /\ memory'[p] = t
        /\ \A q \in Procs \ {p} : memory'[q] = memory[q]
    BY <1>1, <1>2 DEF TypeOK, ReturnToken
  <1> QED BY <1>2, <1>3, ReturnInv DEF ReturnToken

LEMMA FailInv ==
  ASSUME CacheInv, NEW p \in Procs, Fail(p),
         file' \in Files, FileFacts', UNCHANGED <<now, healthy, issued>>
  PROVE  CacheInv'
  <1>1. TypeOK /\ Facts(p) BY CacheInvParts
  <1>2. memory[p] \in issued \cup {None} /\ memory \in [Procs -> Tokens \cup {None}]
    BY <1>1 DEF TypeOK, Facts
  <1> QED BY <1>2, ReturnInv DEF Fail

LEMMA CallInv == ASSUME CacheInv, NEW p \in Procs, Call(p) PROVE CacheInv'
  <1>1. TypeOK /\ FileFacts /\ \A q \in Procs : Facts(q) BY CacheInvParts
  <1>2. TypeOK' BY <1>1 DEF TypeOK, Call, Goto, Steps
  <1>3. FileFacts' BY <1>1 DEF FileFacts, Call
  <1>4. ASSUME NEW q \in Procs PROVE Facts(q)'
    <2>1. Facts(q) BY <1>1
    <2> QED BY <1>1, <2>1 DEF Facts, TypeOK, Call, Goto, Valid
  <1> QED BY <1>2, <1>3, <1>4 DEF CacheInv, FileFacts, Facts

\* A step that only moves a process on, before it has got a token.
LEMMA MoveInv ==
  ASSUME CacheInv, NEW p \in Procs, NEW step \in {"load", "remove", "fetch"},
         pc[p] # "idle", Goto(p, step), file' \in Files, FileFacts',
         linked' \in [Procs -> BOOLEAN],
         UNCHANGED <<now, memory, got, until, answer, good, healthy, issued>>
  PROVE  CacheInv'
  <1>1. TypeOK /\ \A q \in Procs : Facts(q) BY CacheInvParts
  <1>2. TypeOK' BY <1>1 DEF TypeOK, Goto, Steps
  <1>4. ASSUME NEW q \in Procs PROVE Facts(q)'
    <2>1. Facts(q) BY <1>1
    <2> QED BY <1>1, <2>1 DEF Facts, TypeOK, Goto, Valid
  <1> QED BY <1>2, <1>4 DEF CacheInv, FileFacts, Facts

LEMMA ReuseInv == ASSUME CacheInv, NEW p \in Procs, Reuse(p) PROVE CacheInv'
  <1>1. TypeOK /\ FileFacts /\ Facts(p) BY CacheInvParts
  <1>2. file' \in Files /\ FileFacts' /\ UNCHANGED <<now, healthy>>
    BY <1>1 DEF Reuse, TypeOK, FileFacts
  <1>3. CASE Valid(memory[p]) /\ ReturnToken(p, memory[p])
    <2>1. memory[p] \in issued BY <1>1, <1>3 DEF Facts, Valid
    <2> QED BY <1>2, <1>3, <2>1, ReturnTokenInv DEF Reuse
  <1>4. CASE Goto(p, "load") /\ UNCHANGED <<memory, got, until, linked, answer, good>>
    <2>1. linked' \in [Procs -> BOOLEAN] BY <1>1, <1>4 DEF TypeOK
    <2>2. pc[p] # "idle" BY DEF Reuse
    <2> QED BY <1>2, <1>4, <2>1, <2>2, MoveInv DEF Reuse
  <1> QED BY <1>3, <1>4 DEF Reuse

LEMMA LoadInv == ASSUME CacheInv, NEW p \in Procs, Load(p) PROVE CacheInv'
  <1>1. TypeOK /\ FileFacts BY CacheInvParts
  <1>2. file' \in Files /\ FileFacts' /\ UNCHANGED <<now, healthy>>
    BY <1>1 DEF Load, TypeOK, FileFacts
  <1>3. CASE file.state = "entry" /\ ReturnToken(p, file.token)
    <2>1. file.token \in issued BY <1>1, <1>3 DEF FileFacts
    <2> QED BY <1>2, <1>3, <2>1, ReturnTokenInv DEF Load
  <1>4. CASE /\ Goto(p, "fetch") \/ Goto(p, "remove")
             /\ UNCHANGED <<memory, got, until, linked, answer, good>>
    <2>1. linked' \in [Procs -> BOOLEAN] BY <1>1, <1>4 DEF TypeOK
    <2>2. pc[p] # "idle" BY DEF Load
    <2> QED BY <1>2, <1>4, <2>1, <2>2, MoveInv DEF Load
  <1> QED BY <1>3, <1>4 DEF Load

LEMMA RemoveInv == ASSUME CacheInv, NEW p \in Procs, Remove(p) PROVE CacheInv'
  <1>1. TypeOK /\ FileFacts BY CacheInvParts
  <1>2. file' \in Files BY <1>1, ConstantTypes DEF Remove, TypeOK
  <1>3. FileFacts' BY <1>1 DEF Remove, FileFacts, Absent, NoEntry, history
  <1>4. linked' \in [Procs -> BOOLEAN] BY <1>1 DEF Remove, TypeOK
  <1>5. pc[p] # "idle" BY DEF Remove
  <1> QED BY <1>2, <1>3, <1>4, <1>5, MoveInv DEF Remove, history

LEMMA FetchInv == ASSUME CacheInv, NEW p \in Procs, Fetch(p) PROVE CacheInv'
  <1>1. TypeOK /\ FileFacts /\ \A q \in Procs : Facts(q) BY CacheInvParts
  <1>2. CASE Fail(p) /\ UNCHANGED issued
    BY <1>1, <1>2, FailInv DEF Fetch, TypeOK, FileFacts
  <1>3. ASSUME NEW life \in Lifetimes, NEW t, t = NewToken(life),
               issued' = issued \cup {t},
               got' = [got EXCEPT ![p] = t],
               good' = [q \in Procs |-> IF q = p \/ (pc[q] # "idle" /\ Valid(t))
                                          THEN good[q] \cup {t} ELSE good[q]],
               Goto(p, "create"), UNCHANGED <<memory, until, linked, answer>>
        PROVE  CacheInv'
    <2>1. t \in Tokens BY <1>1, <1>3, NewTokenType DEF TypeOK
    <2>2. pc[p] = "fetch" /\ UNCHANGED <<now, file, healthy>> BY DEF Fetch
    <2>3. TypeOK' BY <1>1, <1>3, <2>1, <2>2 DEF TypeOK, Goto, Steps
    <2>4. FileFacts' BY <1>1, <1>3, <2>2 DEF FileFacts
    <2>5. ASSUME NEW q \in Procs PROVE Facts(q)'
      <3>1. Facts(q) BY <1>1
      <3> QED BY <1>1, <1>3, <2>1, <2>2, <3>1 DEF Facts, TypeOK, Goto, Valid
    <2> QED BY <2>3, <2>4, <2>5 DEF CacheInv, FileFacts, Facts
  <1> QED BY <1>2, <1>3 DEF Fetch

LEMMA CreateFileInv == ASSUME CacheInv, NEW p \in Procs, CreateFile(p) PROVE CacheInv'
  <1>1. TypeOK /\ FileFacts /\ \A q \in Procs : Facts(q) BY CacheInvParts
  <1>2. CASE Fail(p) /\ UNCHANGED file
    BY <1>1, <1>2, FailInv DEF CreateFile, TypeOK, FileFacts
  <1>3. CASE /\ file' = Empty
             /\ linked' = [linked EXCEPT ![p] = TRUE]
             /\ until' = [until EXCEPT ![p] = now + CacheLife]
             /\ Goto(p, "write")
             /\ UNCHANGED <<memory, got, answer, good>>
    <2>1. pc[p] = "create" /\ UNCHANGED <<now, healthy, issued>> BY DEF CreateFile
    <2>2. now + CacheLife \in Nat BY <1>1, TokenCacheAssumption DEF TypeOK
    <2>3. TypeOK' BY <1>1, <1>3, <2>1, <2>2, ConstantTypes DEF TypeOK, Goto, Steps
    <2>4. FileFacts' BY <1>3 DEF FileFacts, Empty, NoEntry
    <2>5. ASSUME NEW q \in Procs PROVE Facts(q)'
      <3>1. Facts(q) BY <1>1
      <3> QED BY <1>1, <1>3, <2>1, <3>1 DEF Facts, TypeOK, Goto, Valid
    <2> QED BY <2>3, <2>4, <2>5 DEF CacheInv, FileFacts, Facts
  <1> QED BY <1>2, <1>3 DEF CreateFile

LEMMA WriteFileInv == ASSUME CacheInv, NEW p \in Procs, WriteFile(p) PROVE CacheInv'
  <1>1. TypeOK /\ FileFacts /\ Facts(p) BY CacheInvParts
  <1>2. got[p] \in issued /\ got[p] \in Tokens /\ until[p] \in Nat
        /\ UNCHANGED <<now, healthy, issued>>
    BY <1>1 DEF WriteFile, TypeOK, Facts
  <1>3. CASE /\ IF linked[p] THEN file' \in Overwritten(Entry(got[p], until[p]))
                             ELSE UNCHANGED file
             /\ ReturnToken(p, got[p])
    <2>1. file' \in {file, Entry(got[p], until[p]), Damaged}
      BY <1>3 DEF Overwritten
    <2>2. file' \in Files BY <1>1, <1>2, <2>1, ConstantTypes DEF TypeOK
    <2>3. FileFacts' BY <1>1, <1>2, <2>1 DEF FileFacts, Entry, Damaged, NoEntry
    <2> QED BY <1>2, <1>3, <2>2, <2>3, ReturnTokenInv
  <1>4. CASE /\ IF linked[p] THEN file' \in {file, Damaged} ELSE UNCHANGED file
             /\ Fail(p)
    <2>1. file' \in {file, Damaged} BY <1>4
    <2>2. file' \in Files BY <1>1, <2>1, ConstantTypes DEF TypeOK
    <2>3. FileFacts' BY <1>1, <1>2, <2>1 DEF FileFacts, Damaged, NoEntry
    <2> QED BY <1>2, <1>4, <2>2, <2>3, FailInv
  <1> QED BY <1>3, <1>4 DEF WriteFile

LEMMA RestartInv == ASSUME CacheInv, NEW p \in Procs, Restart(p) PROVE CacheInv'
  <1>1. TypeOK /\ FileFacts BY CacheInvParts
  <1>2. memory' \in [Procs -> Tokens \cup {None}] /\ memory'[p] = None
        /\ \A q \in Procs \ {p} : memory'[q] = memory[q]
    BY <1>1 DEF Restart, TypeOK
  <1>3. file' \in Files /\ FileFacts' BY <1>1 DEF Restart, TypeOK, FileFacts
  <1> QED BY <1>2, <1>3, ReturnInv DEF Restart

LEMMA TickInv == ASSUME CacheInv, Tick PROVE CacheInv'
  <1>1. TypeOK /\ FileFacts /\ \A q \in Procs : Facts(q) BY CacheInvParts
  <1>2. now' = now + 1 /\ UNCHANGED <<file, local, answer, healthy, history>> /\ now < MaxTime
    BY DEF Tick
  <1>3. now \in Int /\ now' \in 0 .. MaxTime
    BY <1>1, <1>2, TokenCacheAssumption DEF TypeOK
  <1>4. TypeOK' BY <1>1, <1>2, <1>3 DEF TypeOK, local, history
  <1>5. ASSUME NEW t \in issued, Valid(t)' PROVE Valid(t)
    <2>1. t \in Tokens BY <1>1, <1>5 DEF TypeOK
    <2>2. t # NoExpiry => t \in Int BY <2>1 DEF Tokens
    <2> QED BY <1>2, <1>3, <1>5, <2>2, TokenCacheAssumption DEF Valid
  <1>6. ASSUME NEW q \in Procs PROVE Facts(q)'
    <2>1. Facts(q) BY <1>1
    <2>2. UNCHANGED <<memory, pc, got, issued, good>> BY <1>2 DEF local, history
    <2> QED BY <1>5, <2>1, <2>2 DEF Facts
  <1>7. FileFacts' BY <1>1, <1>2 DEF FileFacts, history
  <1> QED BY <1>4, <1>6, <1>7 DEF CacheInv, FileFacts, Facts

LEMMA RecoverInv == ASSUME CacheInv, Recover PROVE CacheInv'
  BY DEF CacheInv, Recover, TypeOK, Valid, local, history

LEMMA StutterInv == ASSUME CacheInv, UNCHANGED vars PROVE CacheInv'
  BY DEF CacheInv, vars, TypeOK, Valid, local, history

LEMMA NextInv == CacheInv /\ [Next]_vars => CacheInv'
  <1> SUFFICES ASSUME CacheInv, [Next]_vars PROVE CacheInv' OBVIOUS
  <1>1. ASSUME NEW p \in Procs, Call(p) \/ Continue(p) \/ Restart(p) PROVE CacheInv'
    BY <1>1, CallInv, ReuseInv, LoadInv, RemoveInv, FetchInv, CreateFileInv, WriteFileInv,
       RestartInv DEF Continue
  <1> QED BY <1>1, TickInv, RecoverInv, StutterInv DEF Next

\* The cache file and the memory of every process hold nothing but tokens that were
\* issued, for any number of processes, lifetimes and restarts.
THEOREM CacheInvariance == Spec => []CacheInv
  BY InitInv, NextInv, PTL DEF Spec

-----------------------------------------------------------------------------
(* TokenCache implements TokenSource.                                      *)

LEMMA InitPromise == Init => Source!Init
  BY DEF Init, Source!Init

\* A call that ends is an End of the abstract source, if the answer is good.
LEMMA ReturnPromise ==
  ASSUME CacheInv, NEW p \in Procs, pc[p] # "idle",
         NEW t \in Tokens \cup {Failed}, t \in good[p] \cup {Failed},
         Return(p, t), UNCHANGED <<now, issued>>
  PROVE  Source!Next
  <1>1. TypeOK BY CacheInvParts
  <1>2. {x \in issued : Valid(x)}' = {x \in issued : Valid(x)} BY DEF Valid
  <1>3. {q \in Procs : pc[q] # "idle"}' = {q \in Procs : pc[q] # "idle"} \ {p}
    BY <1>1 DEF Return, Goto, TypeOK
  <1>4. Source!End(p, t) BY <1>2, <1>3 DEF Source!End, Return
  <1> QED BY <1>4 DEF Source!Next

\* A step that begins no call, ends none and obtains nothing is none of the source.
LEMMA MovePromise ==
  ASSUME CacheInv, NEW p \in Procs, NEW step \in Steps \ {"idle"}, pc[p] # "idle", Goto(p, step),
         UNCHANGED <<now, issued, good, answer>>
  PROVE  UNCHANGED Source!vars
  <1>1. TypeOK BY CacheInvParts
  <1>2. {x \in issued : Valid(x)}' = {x \in issued : Valid(x)} BY DEF Valid
  <1>3. {q \in Procs : pc[q] # "idle"}' = {q \in Procs : pc[q] # "idle"}
    BY <1>1 DEF Goto, TypeOK
  <1> QED BY <1>2, <1>3 DEF Source!vars

LEMMA CallPromise == ASSUME CacheInv, NEW p \in Procs, Call(p) PROVE Source!Next
  <1>1. TypeOK BY CacheInvParts
  <1>2. {x \in issued : Valid(x)}' = {x \in issued : Valid(x)} BY DEF Valid, Call
  <1>3. {q \in Procs : pc[q] # "idle"}' = {q \in Procs : pc[q] # "idle"} \cup {p}
    BY <1>1 DEF Call, Goto, TypeOK
  <1>4. Source!Begin(p) BY <1>2, <1>3 DEF Source!Begin, Call
  <1> QED BY <1>4 DEF Source!Next

LEMMA FetchPromise == ASSUME CacheInv, NEW p \in Procs, Fetch(p) PROVE Source!Next
  <1>1. TypeOK /\ pc[p] = "fetch" /\ UNCHANGED now BY CacheInvParts DEF Fetch
  <1>2. CASE Fail(p) /\ UNCHANGED issued
    BY <1>1, <1>2, ReturnPromise DEF Fail
  <1>3. ASSUME NEW life \in Lifetimes, NEW t, t = NewToken(life),
               issued' = issued \cup {t},
               good' = [q \in Procs |-> IF q = p \/ (pc[q] # "idle" /\ Valid(t))
                                          THEN good[q] \cup {t} ELSE good[q]],
               Goto(p, "create"), UNCHANGED answer
        PROVE  Source!Next
    <2>1. t \in Tokens BY <1>1, <1>3, NewTokenType DEF TypeOK
    <2>2. {q \in Procs : pc[q] # "idle"}' = {q \in Procs : pc[q] # "idle"}
      BY <1>1, <1>3 DEF Goto, TypeOK
    <2>3. CASE Valid(t)
      <3>1. {x \in issued : Valid(x)}' = {x \in issued : Valid(x)} \cup {t}
        BY <1>1, <1>3, <2>3 DEF Valid
      <3>2. good' = [q \in Procs |-> IF q \in {r \in Procs : pc[r] # "idle"}
                                       THEN good[q] \cup {t} ELSE good[q]]
        BY <1>1, <1>3, <2>3
      <3>3. Source!Issue(p, t) BY <1>1, <1>3, <2>2, <3>1, <3>2 DEF Source!Issue
      <3> QED BY <2>1, <3>3 DEF Source!Next
    <2>4. CASE ~Valid(t)
      <3>1. {x \in issued : Valid(x)}' = {x \in issued : Valid(x)}
        BY <1>1, <1>3, <2>4 DEF Valid
      <3>2. good' = [good EXCEPT ![p] = @ \cup {t}]
        BY <1>1, <1>3, <2>4 DEF TypeOK
      <3>3. Source!Issue(p, t) BY <1>1, <1>3, <2>2, <3>1, <3>2 DEF Source!Issue
      <3> QED BY <2>1, <3>3 DEF Source!Next
    <2> QED BY <2>3, <2>4
  <1> QED BY <1>2, <1>3 DEF Fetch

LEMMA ContinuePromise ==
  ASSUME CacheInv, NEW p \in Procs, Continue(p) PROVE [Source!Next]_Source!vars
  <1>1. TypeOK /\ FileFacts /\ Facts(p) BY CacheInvParts
  <1>2. CASE Reuse(p)
    <2>1. CASE Valid(memory[p]) /\ ReturnToken(p, memory[p])
      <3>1. memory[p] \in good[p] /\ memory[p] \in Tokens
        BY <1>1, <1>2, <2>1 DEF Facts, Valid, Reuse, TypeOK
      <3> QED BY <1>2, <2>1, <3>1, ReturnPromise DEF Reuse, ReturnToken
    <2>2. CASE Goto(p, "load") /\ UNCHANGED <<memory, got, until, linked, answer, good>>
      BY <1>2, <2>2, MovePromise DEF Reuse, Steps
    <2> QED BY <1>2, <2>1, <2>2 DEF Reuse
  <1>3. CASE Load(p)
    <2>1. CASE file.state = "entry" /\ IsValid(file) /\ ReturnToken(p, file.token)
      <3>1. file.token \in good[p] /\ file.token \in Tokens
        BY <1>1, <1>3, <2>1 DEF Facts, FileFacts, IsValid, Load, TypeOK
      <3> QED BY <1>3, <2>1, <3>1, ReturnPromise DEF Load, ReturnToken
    <2>2. CASE /\ Goto(p, "fetch") \/ Goto(p, "remove")
               /\ UNCHANGED <<memory, got, until, linked, answer, good>>
      BY <1>3, <2>2, MovePromise DEF Load, Steps
    <2> QED BY <1>3, <2>1, <2>2 DEF Load
  <1>4. CASE Remove(p)
    BY <1>4, MovePromise DEF Remove, Steps, history
  <1>5. CASE Fetch(p)
    BY <1>5, FetchPromise
  <1>6. CASE CreateFile(p)
    <2>1. CASE Fail(p) /\ UNCHANGED file
      BY <1>6, <2>1, ReturnPromise DEF CreateFile, Fail
    <2>2. CASE Goto(p, "write") /\ UNCHANGED <<memory, got, answer, good>>
      BY <1>6, <2>2, MovePromise DEF CreateFile, Steps
    <2> QED BY <1>6, <2>1, <2>2 DEF CreateFile
  <1>7. CASE WriteFile(p)
    <2>1. CASE ReturnToken(p, got[p])
      <3>1. got[p] \in good[p] /\ got[p] \in Tokens
        BY <1>1, <1>7 DEF Facts, WriteFile, TypeOK
      <3> QED BY <1>7, <2>1, <3>1, ReturnPromise DEF WriteFile, ReturnToken
    <2>2. CASE Fail(p)
      BY <1>7, <2>2, ReturnPromise DEF WriteFile, Fail
    <2> QED BY <1>7, <2>1, <2>2 DEF WriteFile
  <1> QED BY <1>2, <1>3, <1>4, <1>5, <1>6, <1>7 DEF Continue

LEMMA RestartPromise == ASSUME CacheInv, NEW p \in Procs, Restart(p) PROVE Source!Next
  <1>1. TypeOK BY CacheInvParts
  <1>2. {x \in issued : Valid(x)}' = {x \in issued : Valid(x)} BY DEF Valid, Restart
  <1>3. {q \in Procs : pc[q] # "idle"}' = {q \in Procs : pc[q] # "idle"} \ {p}
    BY <1>1 DEF Restart, Return, Goto, TypeOK
  <1>4. Source!Restart(p) BY <1>2, <1>3 DEF Source!Restart, Restart, Return
  <1> QED BY <1>4 DEF Source!Next

LEMMA TickPromise == ASSUME CacheInv, Tick PROVE Source!Next
  <1>1. TypeOK BY CacheInvParts
  <1>2. ASSUME NEW t \in issued, Valid(t)' PROVE Valid(t)
    <2>1. t \in Tokens /\ now \in Int BY <1>1, <1>2 DEF TypeOK
    <2>2. t # NoExpiry => t \in Int BY <2>1 DEF Tokens
    <2> QED BY <1>2, <2>1, <2>2, TokenCacheAssumption DEF Valid, Tick
  <1>3. UNCHANGED <<pc, answer, issued, good>> BY DEF Tick, local, history
  <1>4. {x \in issued : Valid(x)}' \in SUBSET {x \in issued : Valid(x)} BY <1>2, <1>3
  <1>5. Source!Lapse BY <1>3, <1>4 DEF Source!Lapse
  <1> QED BY <1>5 DEF Source!Next

LEMMA StutterPromise ==
  ASSUME Recover \/ UNCHANGED vars PROVE UNCHANGED Source!vars
  BY DEF Recover, vars, local, history, Source!vars, Valid

LEMMA NextPromise == CacheInv /\ [Next]_vars => [Source!Next]_Source!vars
  BY CallPromise, ContinuePromise, RestartPromise, TickPromise, StutterPromise DEF Next

\* Token answers with an issued token that was valid, or obtained, during the call,
\* or fails; nothing in the file can make it break that promise.
THEOREM PromiseIsKept == Spec => PromiseKept
  BY InitPromise, NextPromise, CacheInvariance, PTL DEF Spec, PromiseKept, Source!Spec
==============================================================================
