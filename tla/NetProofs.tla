------------------------------ MODULE NetProofs ------------------------------
(***************************************************************************)
(* Proofs about node:net: connect() of a socket, for any number of calls   *)
(* and of addresses; the one 'close' that a server emits for each close()  *)
(* at most, for any number of calls and of connections; the callbacks of   *)
(* a socket's writer, for any number of writes; and its reader, for any    *)
(* number of chunks. About node:dgram: the reading loops and the queue of  *)
(* a socket, for any number of datagrams, of sends and of connects. About  *)
(* the agent of node:http: its counts, queues and sockets, for any number  *)
(* of requests and of hosts. And about all of them as MCSockets runs them. *)
(***************************************************************************)
EXTENDS MCSockets, FiniteSetTheorems, SequenceTheorems, WellFoundedInduction, TLAPS

-----------------------------------------------------------------------------
(* connect(): the inductive invariant *)

\* A socket that connects or is destroyed has no connection, and nothing is connected but
\* what it has.
Alone ==
    /\ open \subseteq {connected}
    /\ connecting \/ destroyed \/ call = 0 => connected = None

\* A closure counts its attempts up to the active one, which has failed or is about to.
ClosureInv(c) ==
    /\ c > call => stage[c] = "off"
    /\ stage[c] \in {"off", "lookup"} =>
          length[c] = 0 /\ active[c] = 0 /\ timer[c] = 0 /\ failed[c] = 0
    /\ stage[c] \in {"single", "list"} => 1 <= active[c] /\ active[c] <= length[c]
    /\ stage[c] = "single" => length[c] = 1
    /\ failed[c] <= active[c]
    /\ timer[c] > 0 => timer[c] = active[c] /\ active[c] < length[c] /\ failed[c] = active[c] - 1
    /\ by = c /\ stage[c] # "off" => stage[c] # "lookup" /\ failed[c] = length[c]

\* An attempt that is under way has not failed, and none is ahead of the active one.
AttemptInv(c, i) ==
    <<c, i>> \in pending =>
        /\ stage[c] \in {"single", "list"}
        /\ i <= active[c]
        /\ i = active[c] => failed[c] = active[c] - 1

ConnectIInv ==
    /\ ConnectTypeOK /\ Alone /\ by <= call
    /\ \A c \in 1..MaxCalls : ClosureInv(c)
    /\ \A c \in 1..MaxCalls : \A i \in 1..Addresses : AttemptInv(c, i)

-----------------------------------------------------------------------------
(* Types *)

\* The type invariant without the two flags
ConnectDataOK ==
    /\ call \in 0..MaxCalls /\ by \in 0..MaxCalls
    /\ connectingHandle \in Attempts \cup {None} /\ connected \in Attempts \cup {None}
    /\ stage \in [1..MaxCalls -> {"off", "lookup", "single", "list"}]
    /\ length \in [1..MaxCalls -> 0..Addresses] /\ active \in [1..MaxCalls -> 0..Addresses]
    /\ timer \in [1..MaxCalls -> 0..Addresses] /\ failed \in [1..MaxCalls -> 0..Addresses]
    /\ pending \subseteq Attempts /\ six \subseteq Attempts
    /\ closed \subseteq Attempts /\ open \subseteq Attempts

LEMMA ConnectTypeParts ==
    /\ ConnectTypeOK <=> connecting \in BOOLEAN /\ destroyed \in BOOLEAN /\ ConnectDataOK
    /\ ConnectTypeOK' <=> connecting' \in BOOLEAN /\ destroyed' \in BOOLEAN /\ ConnectDataOK'
BY Zenon DEF ConnectTypeOK, ConnectDataOK

LEMMA NoneIsNoAttempt == None \notin Attempts
BY ConnectAssumption DEF None, Attempts

\* What destroy() leaves has its types.
LEMMA DestroyTypes ==
    ASSUME ConnectTypeOK, NEW c \in 0..MaxCalls, NEW ch \in Attempts \cup {None},
           NEW shut \in SUBSET Attempts, Destroyed(c, ch, shut)
    PROVE  /\ connecting' \in BOOLEAN /\ destroyed' \in BOOLEAN
           /\ connectingHandle' \in Attempts \cup {None} /\ connected' \in Attempts \cup {None}
           /\ closed' \subseteq Attempts /\ open' \subseteq Attempts /\ by' \in 0..MaxCalls
BY DEF Destroyed, ConnectTypeOK

\* What the next attempt leaves has its types.
LEMMA TryTypes ==
    ASSUME ConnectTypeOK, NEW c \in 1..MaxCalls, NEW n \in 0..Addresses, NEW i \in 1..n,
           NEW ch \in Attempts \cup {None}, NEW under \in SUBSET Attempts, Try(c, i, n, ch, under)
    PROVE  /\ connectingHandle' \in Attempts \cup {None}
           /\ active' \in [1..MaxCalls -> 0..Addresses] /\ timer' \in [1..MaxCalls -> 0..Addresses]
           /\ pending' \subseteq Attempts /\ six' \subseteq Attempts
<1>1. <<c, i>> \in Attempts
  BY ConnectAssumption DEF Attempts
<1>2. i \in 0..Addresses /\ (IF i < n THEN i ELSE 0) \in 0..Addresses
  BY ConnectAssumption
<1>3. /\ active \in [1..MaxCalls -> 0..Addresses] /\ timer \in [1..MaxCalls -> 0..Addresses]
      /\ six \subseteq Attempts
  BY DEF ConnectTypeOK
<1>4. active' \in [1..MaxCalls -> 0..Addresses] /\ timer' \in [1..MaxCalls -> 0..Addresses]
  BY <1>2, <1>3 DEF Try
<1>5. pending' \subseteq Attempts
  BY <1>1 DEF Try
<1>6. six' \subseteq Attempts /\ connectingHandle' \in Attempts \cup {None}
  BY <1>1, <1>3 DEF Try
<1>7. QED
  BY <1>4, <1>5, <1>6

LEMMA NextTypes ==
    ASSUME ConnectTypeOK, NEW c \in 1..MaxCalls, ClosureInv(c), stage[c] \in {"single", "list"},
           NEW ch \in Attempts \cup {None},
           NEW under \in SUBSET Attempts, NEW shut \in SUBSET Attempts, TryNext(c, ch, under, shut)
    PROVE  /\ connecting' \in BOOLEAN /\ destroyed' \in BOOLEAN
           /\ connectingHandle' \in Attempts \cup {None} /\ connected' \in Attempts \cup {None}
           /\ active' \in [1..MaxCalls -> 0..Addresses] /\ timer' \in [1..MaxCalls -> 0..Addresses]
           /\ pending' \subseteq Attempts /\ six' \subseteq Attempts
           /\ closed' \subseteq Attempts /\ open' \subseteq Attempts /\ by' \in 0..MaxCalls
<1>1. CASE active[c] = length[c]
  <2>1. Destroyed(c, ch, shut) /\ UNCHANGED <<active, six>> /\ pending' = under
        /\ timer' = [timer EXCEPT ![c] = 0]
    BY <1>1 DEF TryNext
  <2>2. c \in 0..MaxCalls
    BY ConnectAssumption
  <2>3. timer' \in [1..MaxCalls -> 0..Addresses]
    BY <2>1, ConnectAssumption DEF ConnectTypeOK
  <2>4. QED
    BY <2>1, <2>2, <2>3, DestroyTypes DEF ConnectTypeOK
<1>2. CASE active[c] # length[c]
  <2>1. Try(c, active[c] + 1, length[c], ch, under) /\ closed' = shut
        /\ UNCHANGED <<connecting, destroyed, connected, open, by>>
    BY <1>2 DEF TryNext
  <2>2. length[c] \in 0..Addresses /\ active[c] + 1 \in 1..length[c]
    <3>1. length[c] \in 0..Addresses /\ active[c] \in 0..Addresses
      BY DEF ConnectTypeOK
    <3>2. active[c] <= length[c]
      BY DEF ClosureInv
    <3> QED BY <1>2, <3>1, <3>2, ConnectAssumption
  <2> DEFINE n == length[c]
             i == active[c] + 1
  <2>3. n \in 0..Addresses /\ i \in 1..n /\ Try(c, i, n, ch, under)
    BY <2>1, <2>2
  <2> HIDE DEF n, i
  <2>4. /\ connectingHandle' \in Attempts \cup {None}
        /\ active' \in [1..MaxCalls -> 0..Addresses] /\ timer' \in [1..MaxCalls -> 0..Addresses]
        /\ pending' \subseteq Attempts /\ six' \subseteq Attempts
    BY <2>3, TryTypes
  <2>5. /\ connecting' \in BOOLEAN /\ destroyed' \in BOOLEAN /\ connected' \in Attempts \cup {None}
        /\ closed' \subseteq Attempts /\ open' \subseteq Attempts /\ by' \in 0..MaxCalls
    BY <2>1 DEF ConnectTypeOK
  <2>6. QED
    BY <2>4, <2>5
<1>3. QED
  BY <1>1, <1>2

LEMMA ConnectTypeStep ==
    ASSUME ConnectIInv, [ConnectNext]_ConnectVars
    PROVE  ConnectTypeOK'
<1> USE DEF ConnectIInv
<1>1. CASE Connect
  <2>1. call + 1 \in 1..MaxCalls /\ call' = call + 1
    BY <1>1, ConnectAssumption DEF Connect, ConnectTypeOK
  <2>2. /\ connecting' = TRUE /\ destroyed' = FALSE /\ connected' = None
        /\ UNCHANGED <<failed, closed, open, by>>
    BY <1>1 DEF Connect
  <2>3. CASE stage' = [stage EXCEPT ![call + 1] = "lookup"]
             /\ UNCHANGED <<length, active, timer, connectingHandle, pending, six>>
    <3>1. ConnectDataOK
      BY ConnectTypeParts
    <3>2. call' \in 0..MaxCalls
      BY <2>1, ConnectAssumption
    <3>3. stage' \in [1..MaxCalls -> {"off", "lookup", "single", "list"}]
      BY <2>1, <2>3, <3>1 DEF ConnectDataOK
    <3>4. ConnectDataOK'
      BY <2>2, <2>3, <3>1, <3>2, <3>3 DEF ConnectDataOK
    <3>5. QED
      BY <2>2, <3>4, ConnectTypeParts
  <2>4. CASE /\ stage' = [stage EXCEPT ![call + 1] = "single"]
             /\ length' = [length EXCEPT ![call + 1] = 1]
             /\ Try(call + 1, 1, 1, connectingHandle, pending)
    <3>1. 1 \in 0..Addresses /\ 1 \in 1..1
      BY ConnectAssumption
    <3>2. ConnectDataOK
      BY ConnectTypeParts
    <3>3. /\ connectingHandle' \in Attempts \cup {None}
          /\ active' \in [1..MaxCalls -> 0..Addresses] /\ timer' \in [1..MaxCalls -> 0..Addresses]
          /\ pending' \subseteq Attempts /\ six' \subseteq Attempts
      BY <2>1, <2>4, <3>1, <3>2, TryTypes DEF ConnectDataOK
    <3>4. call' \in 0..MaxCalls
      BY <2>1, ConnectAssumption
    <3>5. stage' \in [1..MaxCalls -> {"off", "lookup", "single", "list"}]
      BY <2>1, <2>4, <3>2 DEF ConnectDataOK
    <3>6. length' \in [1..MaxCalls -> 0..Addresses]
      BY <2>1, <2>4, <3>1, <3>2 DEF ConnectDataOK
    <3>7. ConnectDataOK'
      BY <2>2, <3>2, <3>3, <3>4, <3>5, <3>6 DEF ConnectDataOK
    <3>8. QED
      BY <2>2, <3>7, ConnectTypeParts
  <2>5. QED
    BY <1>1, <2>3, <2>4 DEF Connect
<1>2. CASE DestroyConnecting
  <2>1. 0 \in 0..MaxCalls
    BY ConnectAssumption
  <2>2. Destroyed(0, connectingHandle, closed) /\ UNCHANGED <<call, closure, pending, six>>
    BY <1>2 DEF DestroyConnecting
  <2>3. QED
    BY <2>1, <2>2, DestroyTypes DEF ConnectTypeOK, closure
<1>3. ASSUME NEW c \in 1..MaxCalls, LookupFails(c) PROVE ConnectTypeOK'
  <2>1. c \in 0..MaxCalls
    BY ConnectAssumption
  <2>2. stage' \in [1..MaxCalls -> {"off", "lookup", "single", "list"}]
        /\ UNCHANGED <<call, length, active, timer, failed, pending, six>>
    BY <1>3 DEF LookupFails, ConnectTypeOK
  <2>3. CASE destroyed
    BY <1>3, <2>2, <2>3 DEF LookupFails, ConnectTypeOK
  <2>4. CASE ~destroyed
    BY <1>3, <2>1, <2>2, <2>4, DestroyTypes DEF LookupFails, ConnectTypeOK
  <2>5. QED
    BY <2>3, <2>4
<1>4. ASSUME NEW c \in 1..MaxCalls, LookupAnswers(c) PROVE ConnectTypeOK'
  <2>1. UNCHANGED <<call, connecting, destroyed, connected, failed, closed, open, by>>
    BY <1>4 DEF LookupAnswers
  <2>2. CASE Late
    BY <1>4, <2>1, <2>2, ConnectAssumption DEF LookupAnswers, ConnectTypeOK
  <2>3. CASE ~Late
    <3>1. PICK n \in 1..Addresses :
             /\ stage' = [stage EXCEPT ![c] = IF n = 1 THEN "single" ELSE "list"]
             /\ length' = [length EXCEPT ![c] = n]
             /\ Try(c, 1, n, connectingHandle, pending)
      BY <1>4, <2>3 DEF LookupAnswers
    <3>2. n \in 0..Addresses /\ 1 \in 1..n
      BY ConnectAssumption
    <3>3. QED
      BY <2>1, <3>1, <3>2, TryTypes, ConnectAssumption DEF ConnectTypeOK
  <2>4. QED
    BY <2>2, <2>3
<1>5. ASSUME NEW c \in 1..MaxCalls, AttemptTimeout(c) PROVE ConnectTypeOK'
  <2>1. UNCHANGED <<call, stage, length>>
    BY <1>5 DEF AttemptTimeout
  <2>2. CASE timer[c] # active[c] \/ Late
    <3>1. /\ timer' = [timer EXCEPT ![c] = 0]
          /\ UNCHANGED <<connecting, destroyed, connectingHandle, connected, active, failed>>
          /\ UNCHANGED <<pending, six, closed, open, by>>
      BY <1>5, <2>2 DEF AttemptTimeout, native
    <3>2. timer' \in [1..MaxCalls -> 0..Addresses]
      BY <3>1, ConnectAssumption DEF ConnectTypeOK
    <3>3. ConnectDataOK'
      BY <2>1, <3>1, <3>2, ConnectTypeParts DEF ConnectDataOK
    <3>4. QED
      BY <3>1, <3>3, ConnectTypeParts
  <2>3. CASE timer[c] = active[c] /\ ~Late
    <3>1. failed' = [failed EXCEPT ![c] = @ + 1] /\ TryNext(c, connectingHandle, pending, closed)
          /\ timer[c] > 0
      BY <1>5, <2>3 DEF AttemptTimeout
    <3>2. ClosureInv(c) /\ stage[c] \in {"single", "list"}
      BY <3>1, ConnectAssumption DEF ClosureInv, ConnectTypeOK
    <3>3. failed[c] + 1 \in 0..Addresses
      BY <3>1, <3>2, ConnectAssumption DEF ClosureInv, ConnectTypeOK
    <3>4. QED
      BY <2>1, <3>1, <3>2, <3>3, NextTypes DEF ConnectTypeOK
  <2>4. QED
    BY <2>2, <2>3
<1>6. ASSUME NEW a \in Attempts, Succeeds(a) PROVE ConnectTypeOK'
  <2>1. PICK c \in 1..MaxCalls, i \in 1..Addresses : a = <<c, i>>
    BY DEF Attempts
  <2>2. /\ connectingHandle' = None /\ pending' = pending \ {a}
        /\ UNCHANGED <<call, destroyed, stage, length, active, failed, six, by>>
    BY <1>6 DEF Succeeds
  <2>3. CASE Ignored(a)
    BY <1>6, <2>2, <2>3, ConnectTypeParts DEF Succeeds, CloseLate, ConnectDataOK
  <2>4. CASE ~Ignored(a)
    <3>1. /\ connecting' = FALSE /\ connected' = a /\ open' = open \cup {a} /\ closed' = closed
          /\ timer' = [timer EXCEPT ![c] = 0]
      BY <1>6, <2>1, <2>4 DEF Succeeds
    <3>2. timer' \in [1..MaxCalls -> 0..Addresses]
      BY <3>1, ConnectAssumption DEF ConnectTypeOK
    <3>3. ConnectDataOK'
      BY <2>2, <3>1, <3>2, ConnectTypeParts DEF ConnectDataOK
    <3>4. QED
      BY <2>2, <3>1, <3>3, ConnectTypeParts
  <2>5. QED
    BY <2>3, <2>4
<1>7. ASSUME NEW a \in Attempts, Fails(a) PROVE ConnectTypeOK'
  <2>1. PICK c \in 1..MaxCalls, i \in 1..Addresses : a = <<c, i>>
    BY DEF Attempts
  <2> DEFINE shut == IF a \in six THEN closed ELSE closed \cup {a}
  <2>2. shut \in SUBSET Attempts /\ pending \ {a} \in SUBSET Attempts
        /\ ForgetsHandle(a) \in Attempts \cup {None}
    BY DEF ConnectTypeOK, ForgetsHandle
  <2>3. UNCHANGED <<call, stage, length>> /\ a[1] = c /\ <<c, i>> \in pending
    BY <1>7, <2>1 DEF Fails
  <2>4. CASE Ignored(a)
    BY <1>7, <2>2, <2>3, <2>4 DEF Fails, ConnectTypeOK
  <2>5. CASE ~Ignored(a)
    <3>1. failed' = [failed EXCEPT ![c] = @ + 1] /\ TryNext(c, ForgetsHandle(a), pending \ {a}, shut)
      BY <1>7, <2>3, <2>5 DEF Fails
    <3>2. ClosureInv(c) /\ AttemptInv(c, i)
      OBVIOUS
    <3>3. stage[c] \in {"single", "list"} /\ i = active[c]
      BY <2>1, <2>3, <2>5, <3>2, ConnectAssumption
      DEF ClosureInv, AttemptInv, Ignored, IsActive, ConnectTypeOK
    <3>4. failed[c] + 1 \in 0..Addresses
      <4>1. failed[c] \in 0..Addresses /\ active[c] \in 0..Addresses
        BY DEF ConnectTypeOK
      <4>2. failed[c] < active[c]
        BY <2>3, <3>2, <3>3, <4>1, ConnectAssumption DEF ClosureInv, AttemptInv
      <4> QED BY <4>1, <4>2, ConnectAssumption
    <3> DEFINE ch == ForgetsHandle(a)
               under == pending \ {a}
    <3>5. ch \in Attempts \cup {None} /\ under \in SUBSET Attempts /\ shut \in SUBSET Attempts
      BY <2>2
    <3>6. TryNext(c, ch, under, shut)
      BY <3>1
    <3> HIDE DEF ch, under, shut
    <3>7. /\ connecting' \in BOOLEAN /\ destroyed' \in BOOLEAN
          /\ connectingHandle' \in Attempts \cup {None} /\ connected' \in Attempts \cup {None}
          /\ active' \in [1..MaxCalls -> 0..Addresses] /\ timer' \in [1..MaxCalls -> 0..Addresses]
          /\ pending' \subseteq Attempts /\ six' \subseteq Attempts
          /\ closed' \subseteq Attempts /\ open' \subseteq Attempts /\ by' \in 0..MaxCalls
      BY <3>2, <3>3, <3>5, <3>6, NextTypes
    <3>8. failed' \in [1..MaxCalls -> 0..Addresses]
      BY <3>1, <3>4 DEF ConnectTypeOK
    <3>9. /\ call' \in 0..MaxCalls /\ stage' \in [1..MaxCalls -> {"off", "lookup", "single", "list"}]
          /\ length' \in [1..MaxCalls -> 0..Addresses]
      BY <2>3 DEF ConnectTypeOK
    <3>10. QED
      BY <3>7, <3>8, <3>9 DEF ConnectTypeOK
  <2>6. QED
    BY <2>4, <2>5
<1>8. CASE UNCHANGED ConnectVars
  BY <1>8 DEF ConnectVars, closure, native, ConnectTypeOK
<1>9. QED
  BY <1>1, <1>2, <1>3, <1>4, <1>5, <1>6, <1>7, <1>8 DEF ConnectNext, Lookup, Settle

-----------------------------------------------------------------------------
(* One native handle *)

LEMMA DestroyLeavesNone ==
    ASSUME Alone, NEW c, NEW ch, NEW shut, Destroyed(c, ch, shut)
    PROVE  Alone'
BY DEF Alone, Destroyed

LEMMA NextIsAlone ==
    ASSUME Alone, NEW c, NEW ch, NEW under, NEW shut, TryNext(c, ch, under, shut), call' = call
    PROVE  Alone'
<1>1. CASE active[c] = length[c]
  BY <1>1, DestroyLeavesNone DEF TryNext
<1>2. CASE active[c] # length[c]
  BY <1>2 DEF TryNext, Alone
<1>3. QED
  BY <1>1, <1>2

LEMMA AloneStep ==
    ASSUME ConnectIInv, [ConnectNext]_ConnectVars
    PROVE  Alone'
<1> USE DEF ConnectIInv
<1>1. CASE Connect
  BY <1>1 DEF Connect, Alone
<1>2. CASE DestroyConnecting
  BY <1>2, DestroyLeavesNone DEF DestroyConnecting
<1>3. ASSUME NEW c \in 1..MaxCalls, LookupFails(c) PROVE Alone'
  <2>1. CASE destroyed
    BY <1>3, <2>1 DEF LookupFails, Alone
  <2>2. CASE ~destroyed
    BY <1>3, <2>2, DestroyLeavesNone DEF LookupFails
  <2>3. QED
    BY <2>1, <2>2
<1>4. ASSUME NEW c \in 1..MaxCalls, LookupAnswers(c) PROVE Alone'
  BY <1>4 DEF LookupAnswers, Alone
<1>5. ASSUME NEW c \in 1..MaxCalls, AttemptTimeout(c) PROVE Alone'
  <2>1. CASE timer[c] # active[c] \/ Late
    BY <1>5, <2>1 DEF AttemptTimeout, native, Alone
  <2>2. CASE ~(timer[c] # active[c] \/ Late)
    BY <1>5, <2>2, NextIsAlone DEF AttemptTimeout
  <2>3. QED
    BY <2>1, <2>2
<1>6. ASSUME NEW a \in Attempts, Succeeds(a) PROVE Alone'
  <2>1. UNCHANGED <<call, destroyed>>
    BY <1>6 DEF Succeeds
  <2>2. CASE Ignored(a)
    BY <1>6, <2>1, <2>2 DEF Succeeds, CloseLate, Alone
  <2>3. CASE ~Ignored(a)
    <3>1. connecting' = FALSE /\ connected' = a /\ open' = open \cup {a}
      BY <1>6, <2>3 DEF Succeeds
    <3>2. connecting /\ ~destroyed
      BY <2>3 DEF Ignored, Late
    <3>3. open = {}
      BY <3>2, NoneIsNoAttempt DEF Alone, ConnectTypeOK
    <3>4. call # 0
      <4>1. PICK c \in 1..MaxCalls, i \in 1..Addresses : a = <<c, i>>
        BY DEF Attempts
      <4>2. <<c, i>> \in pending
        BY <1>6, <4>1 DEF Succeeds
      <4>3. ~(c > call)
        BY <4>2 DEF AttemptInv, ClosureInv
      <4>4. QED
        BY <4>3, ConnectAssumption DEF ConnectTypeOK
    <3>5. open' \subseteq {connected'}
      BY <3>1, <3>3
    <3>6. ~(connecting' \/ destroyed' \/ call' = 0)
      BY <2>1, <3>1, <3>2, <3>4
    <3>7. QED
      BY <3>5, <3>6 DEF Alone
  <2>4. QED
    BY <2>2, <2>3
<1>7. ASSUME NEW a \in Attempts, Fails(a) PROVE Alone'
  <2> DEFINE shut == IF a \in six THEN closed ELSE closed \cup {a}
  <2>1. UNCHANGED <<call, stage, length>>
    BY <1>7 DEF Fails
  <2>2. CASE Ignored(a)
    BY <1>7, <2>2 DEF Fails, Alone
  <2>3. CASE ~Ignored(a)
    BY <1>7, <2>1, <2>3, NextIsAlone DEF Fails
  <2>4. QED
    BY <2>2, <2>3
<1>8. CASE UNCHANGED ConnectVars
  BY <1>8 DEF ConnectVars, native, Alone
<1>9. QED
  BY <1>1, <1>2, <1>3, <1>4, <1>5, <1>6, <1>7, <1>8 DEF ConnectNext, Lookup, Settle

-----------------------------------------------------------------------------
(* Attempts are counted *)

Counted ==
    /\ by <= call
    /\ \A c \in 1..MaxCalls : ClosureInv(c)
    /\ \A c \in 1..MaxCalls : \A i \in 1..Addresses : AttemptInv(c, i)

Numbers ==
    /\ call \in Int /\ by \in Int
    /\ \A c \in 1..MaxCalls : length[c] \in Nat /\ active[c] \in Nat /\ timer[c] \in Nat
                               /\ failed[c] \in Nat

LEMMA TypesAreNumbers == ASSUME ConnectTypeOK PROVE Numbers
BY DEF ConnectTypeOK, Numbers

\* A closure no step of which is taken is kept.
LEMMA ClosureKept ==
    ASSUME NEW c \in 1..MaxCalls, ClosureInv(c), Numbers,
           call' \in Int, call <= call', by' = by \/ by' # c,
           stage'[c] = stage[c], length'[c] = length[c], active'[c] = active[c],
           timer'[c] \in {0, timer[c]}, failed'[c] = failed[c]
    PROVE  ClosureInv(c)'
BY DEF ClosureInv, Numbers

LEMMA AttemptKept ==
    ASSUME NEW c \in 1..MaxCalls, NEW i \in 1..Addresses, AttemptInv(c, i),
           <<c, i>> \in pending' => <<c, i>> \in pending,
           stage'[c] = stage[c], active'[c] = active[c], failed'[c] = failed[c]
    PROVE  AttemptInv(c, i)'
BY DEF AttemptInv

\* What no closure is part of
LEMMA CountsKept ==
    ASSUME Counted, Numbers, UNCHANGED <<call, by, stage, length, active, failed>>,
           pending' \subseteq pending,
           \A c \in 1..MaxCalls : timer'[c] \in {0, timer[c]}
    PROVE  Counted'
<1>1. by' <= call'
  BY DEF Counted
<1>2. ASSUME NEW c \in 1..MaxCalls PROVE ClosureInv(c)'
  BY ClosureKept DEF Counted, Numbers
<1>3. ASSUME NEW c \in 1..MaxCalls, NEW i \in 1..Addresses PROVE AttemptInv(c, i)'
  BY AttemptKept DEF Counted
<1>4. QED
  BY <1>1, <1>2, <1>3 DEF Counted

\* Attempt i of n in a closure whose earlier attempts have all failed
LEMMA TryCounts ==
    ASSUME ConnectTypeOK, Counted, NEW c \in 1..MaxCalls, NEW n \in 1..Addresses, NEW i \in 1..n,
           NEW ch, NEW under, Try(c, i, n, ch, under),
           under \subseteq pending, \A j \in 1..Addresses : <<c, j>> \in under => j < i,
           call' \in Int, call <= call', c <= call', by' = by, by # c,
           stage'[c] \in {"single", "list"}, stage'[c] = "single" => n = 1,
           length'[c] = n, failed'[c] = i - 1,
           \A d \in 1..MaxCalls \ {c} :
              stage'[d] = stage[d] /\ length'[d] = length[d] /\ failed'[d] = failed[d]
    PROVE  Counted'
<1>1. Numbers
  BY TypesAreNumbers
<1>2. /\ active'[c] = i /\ timer'[c] = IF i < n THEN i ELSE 0
      /\ \A d \in 1..MaxCalls \ {c} : active'[d] = active[d] /\ timer'[d] = timer[d]
      /\ pending' = under \cup {<<c, i>>}
  BY DEF Try, ConnectTypeOK
<1>3. by' <= call'
  BY <1>1 DEF Counted, Numbers
<1>4. ClosureInv(c)'
  BY <1>1, <1>2 DEF ClosureInv
<1>5. ASSUME NEW d \in 1..MaxCalls \ {c} PROVE ClosureInv(d)'
  BY <1>1, <1>2, ClosureKept DEF Counted
<1>6. ASSUME NEW j \in 1..Addresses PROVE AttemptInv(c, j)'
  <2>1. CASE j = i
    BY <1>2, <2>1 DEF AttemptInv
  <2>2. CASE j # i
    BY <1>2, <2>2 DEF AttemptInv
  <2>3. QED
    BY <2>1, <2>2
<1>7. ASSUME NEW d \in 1..MaxCalls \ {c}, NEW j \in 1..Addresses PROVE AttemptInv(d, j)'
  BY <1>2, AttemptKept DEF Counted
<1>8. QED
  BY <1>3, <1>4, <1>5, <1>6, <1>7 DEF Counted

\* The active attempt has failed: the next one, or the end.
LEMMA NextCounts ==
    ASSUME ConnectTypeOK, Counted, NEW c \in 1..MaxCalls, stage[c] \in {"single", "list"},
           failed[c] = active[c] - 1, failed' = [failed EXCEPT ![c] = @ + 1],
           UNCHANGED <<call, stage, length>>,
           NEW ch, NEW under, NEW shut, TryNext(c, ch, under, shut),
           under \subseteq pending, <<c, active[c]>> \in under => active[c] < length[c]
    PROVE  Counted'
<1>1. Numbers
  BY TypesAreNumbers
<1>2. ClosureInv(c) /\ \A j \in 1..Addresses : AttemptInv(c, j)
  BY DEF Counted
<1>3. /\ failed'[c] = active[c] /\ \A d \in 1..MaxCalls \ {c} : failed'[d] = failed[d]
      /\ c <= call
  BY <1>1, <1>2 DEF ConnectTypeOK, Numbers, ClosureInv
<1>4. CASE active[c] = length[c]
  <2>1. /\ by' = c /\ active' = active /\ pending' = under
        /\ timer'[c] = 0 /\ \A d \in 1..MaxCalls \ {c} : timer'[d] = timer[d]
    BY <1>4 DEF TryNext, Destroyed, ConnectTypeOK
  <2>2. by' <= call'
    BY <1>3, <2>1
  <2>3. ClosureInv(c)'
    BY <1>1, <1>2, <1>3, <1>4, <2>1 DEF ClosureInv, Numbers
  <2>4. ASSUME NEW d \in 1..MaxCalls \ {c} PROVE ClosureInv(d)'
    BY <1>1, <1>3, <2>1, ClosureKept DEF Counted, Numbers
  <2>5. ASSUME NEW j \in 1..Addresses PROVE AttemptInv(c, j)'
    BY <1>1, <1>2, <1>4, <2>1 DEF Numbers, AttemptInv
  <2>6. ASSUME NEW d \in 1..MaxCalls \ {c}, NEW j \in 1..Addresses PROVE AttemptInv(d, j)'
    BY <1>3, <2>1, AttemptKept DEF Counted
  <2>7. QED
    BY <2>2, <2>3, <2>4, <2>5, <2>6 DEF Counted
<1>5. CASE active[c] # length[c]
  <2>1. Try(c, active[c] + 1, length[c], ch, under) /\ by' = by
    BY <1>5 DEF TryNext
  <2>2. /\ length[c] \in 1..Addresses /\ active[c] + 1 \in 1..length[c]
        /\ stage[c] = "single" => length[c] = 1
    <3>1. 1 <= active[c] /\ active[c] <= length[c] /\ (stage[c] = "single" => length[c] = 1)
      BY <1>2 DEF ClosureInv
    <3>2. length[c] \in 0..Addresses /\ active[c] \in Nat
      BY <1>1 DEF ConnectTypeOK, Numbers
    <3>3. length[c] \in 1..Addresses /\ active[c] + 1 \in 1..length[c]
      BY <1>5, <3>1, <3>2, ConnectAssumption
    <3>4. QED
      BY <3>1, <3>3
  <2>3. by # c
    BY <1>1, <1>2, <2>2 DEF ClosureInv, Numbers
  <2>4. ASSUME NEW j \in 1..Addresses, <<c, j>> \in under PROVE j < active[c] + 1
    BY <1>1, <1>2, <2>4 DEF AttemptInv, Numbers
  <2>5. /\ call' \in Int /\ call <= call' /\ c <= call'
        /\ stage'[c] \in {"single", "list"} /\ stage'[c] = "single" => length[c] = 1
        /\ length'[c] = length[c] /\ failed'[c] = (active[c] + 1) - 1
    BY <1>1, <1>3, <2>2 DEF Numbers
  <2>6. ASSUME NEW d \in 1..MaxCalls \ {c}
        PROVE  stage'[d] = stage[d] /\ length'[d] = length[d] /\ failed'[d] = failed[d]
    BY <1>3
  <2>7. \A j \in 1..Addresses : <<c, j>> \in under => j < active[c] + 1
    BY <2>4
  <2>8. QED
    BY <2>1, <2>2, <2>3, <2>5, <2>6, <2>7, TryCounts
<1>6. QED
  BY <1>4, <1>5

LEMMA CountStep ==
    ASSUME ConnectIInv, [ConnectNext]_ConnectVars
    PROVE  Counted'
<1>1. Counted /\ ConnectTypeOK
  BY DEF ConnectIInv, Counted
<1>2. Numbers
  BY <1>1, TypesAreNumbers
<1>3. CASE Connect
  <2>1. PICK k \in 1..MaxCalls : k = call + 1 /\ call' = k /\ UNCHANGED <<failed, by>>
                                /\ call' \in Int /\ call <= call'
    BY <1>1, <1>2, <1>3, ConnectAssumption DEF Connect, ConnectTypeOK, Numbers
  <2>2. /\ stage[k] = "off" /\ length[k] = 0 /\ active[k] = 0
        /\ timer[k] = 0 /\ failed[k] = 0
    BY <1>1, <1>2, <2>1 DEF Counted, Numbers, ClosureInv
  <2>3. by # k /\ by <= call
    BY <1>1, <1>2, <2>1 DEF Counted, Numbers
  <2>4. \A j \in 1..Addresses : <<k, j>> \notin pending
    BY <1>1, <2>1, <2>2 DEF Counted, AttemptInv
  <2>5. CASE stage' = [stage EXCEPT ![call + 1] = "lookup"]
             /\ UNCHANGED <<length, active, timer, connectingHandle, pending, six>>
    <3>1. stage'[k] = "lookup" /\ \A d \in 1..MaxCalls \ {k} : stage'[d] = stage[d]
      BY <1>1, <2>1, <2>5 DEF ConnectTypeOK
    <3>2. ClosureInv(k)'
      BY <1>2, <2>1, <2>2, <2>3, <2>5, <3>1 DEF ClosureInv, Numbers
    <3>3. ASSUME NEW d \in 1..MaxCalls \ {k} PROVE ClosureInv(d)'
      BY <1>1, <1>2, <2>1, <2>5, <3>1, ClosureKept DEF Counted
    <3>4. ASSUME NEW d \in 1..MaxCalls, NEW j \in 1..Addresses PROVE AttemptInv(d, j)'
      <4>1. CASE d = k
        BY <2>4, <2>5, <4>1 DEF AttemptInv
      <4>2. CASE d # k
        BY <1>1, <2>1, <2>5, <3>1, <4>2, AttemptKept DEF Counted
      <4>3. QED
        BY <4>1, <4>2
    <3>5. by' <= call'
      BY <1>2, <2>1, <2>3 DEF Numbers
    <3>6. QED
      BY <2>1, <3>2, <3>3, <3>4, <3>5 DEF Counted
  <2>6. CASE /\ stage' = [stage EXCEPT ![call + 1] = "single"]
             /\ length' = [length EXCEPT ![call + 1] = 1]
             /\ Try(call + 1, 1, 1, connectingHandle, pending)
    <3>1. /\ stage'[k] \in {"single", "list"} /\ length'[k] = 1
          /\ failed'[k] = 1 - 1
      BY <1>1, <2>1, <2>2, <2>6 DEF ConnectTypeOK
    <3>2. \A d \in 1..MaxCalls \ {k} :
             stage'[d] = stage[d] /\ length'[d] = length[d] /\ failed'[d] = failed[d]
      BY <1>1, <2>1, <2>6 DEF ConnectTypeOK
    <3>3. 1 \in 1..Addresses /\ 1 \in 1..1 /\ k <= call'
      BY <1>2, <2>1, ConnectAssumption DEF Numbers
    <3>4. \A j \in 1..Addresses : <<k, j>> \in pending => j < 1
      BY <2>4
    <3>5. Try(k, 1, 1, connectingHandle, pending) /\ by' = by /\ by # k
      BY <2>1, <2>3, <2>6
    <3>6. QED
      BY <1>1, <2>1, <3>1, <3>2, <3>3, <3>4, <3>5, TryCounts
  <2>7. QED
    BY <1>3, <2>5, <2>6 DEF Connect
<1>4. CASE DestroyConnecting
  <2>1. UNCHANGED <<call, stage, length, active, timer, failed, pending>> /\ by' = 0
    BY <1>4 DEF DestroyConnecting, Destroyed, closure
  <2>2. by' <= call'
    BY <1>1, <2>1, ConnectAssumption DEF ConnectTypeOK
  <2>3. ASSUME NEW c \in 1..MaxCalls PROVE ClosureInv(c)'
    BY <1>1, <1>2, <2>1, ClosureKept DEF Numbers, Counted
  <2>4. ASSUME NEW c \in 1..MaxCalls, NEW i \in 1..Addresses PROVE AttemptInv(c, i)'
    BY <1>1, <2>1, AttemptKept DEF Counted
  <2>5. QED
    BY <2>2, <2>3, <2>4 DEF Counted
<1>5. ASSUME NEW c \in 1..MaxCalls, LookupFails(c) PROVE Counted'
  <2>1. /\ stage[c] = "lookup" /\ stage'[c] = "off"
        /\ \A d \in 1..MaxCalls \ {c} : stage'[d] = stage[d]
        /\ UNCHANGED <<call, length, active, timer, failed, pending>>
    BY <1>1, <1>5 DEF LookupFails, ConnectTypeOK
  <2>2. by' = by \/ by' = c
    BY <1>5 DEF LookupFails, Destroyed
  <2>3. ClosureInv(c) /\ \A i \in 1..Addresses : <<c, i>> \notin pending
    BY <1>1, <2>1 DEF Counted, AttemptInv
  <2>4. by' <= call'
    BY <1>1, <1>2, <2>1, <2>2, <2>3 DEF Counted, ClosureInv, Numbers
  <2>5. ClosureInv(c)'
    BY <2>1, <2>3 DEF ClosureInv
  <2>6. ASSUME NEW d \in 1..MaxCalls \ {c} PROVE ClosureInv(d)'
    BY <1>1, <1>2, <2>1, <2>2, ClosureKept DEF Numbers, Counted
  <2>7. ASSUME NEW d \in 1..MaxCalls, NEW i \in 1..Addresses PROVE AttemptInv(d, i)'
    <3>1. CASE d = c
      BY <2>1, <2>3, <3>1 DEF AttemptInv
    <3>2. CASE d # c
      BY <1>1, <2>1, <3>2, AttemptKept DEF Counted
    <3>3. QED
      BY <3>1, <3>2
  <2>8. QED
    BY <2>4, <2>5, <2>6, <2>7 DEF Counted
<1>6. ASSUME NEW c \in 1..MaxCalls, LookupAnswers(c) PROVE Counted'
  <2>1. stage[c] = "lookup" /\ UNCHANGED <<call, failed, by>>
    BY <1>6 DEF LookupAnswers
  <2>2. /\ ClosureInv(c) /\ length[c] = 0 /\ active[c] = 0 /\ timer[c] = 0 /\ failed[c] = 0
        /\ by # c /\ c <= call
    BY <1>1, <1>2, <2>1 DEF Counted, ClosureInv, Numbers
  <2>3. \A i \in 1..Addresses : <<c, i>> \notin pending
    BY <1>1, <2>1 DEF Counted, AttemptInv
  <2>4. CASE Late
    <3>1. /\ stage'[c] = "off" /\ \A d \in 1..MaxCalls \ {c} : stage'[d] = stage[d]
          /\ UNCHANGED <<length, active, timer, pending>>
      BY <1>1, <1>6, <2>4 DEF LookupAnswers, ConnectTypeOK
    <3>2. ClosureInv(c)'
      BY <2>1, <2>2, <3>1 DEF ClosureInv
    <3>3. ASSUME NEW d \in 1..MaxCalls \ {c} PROVE ClosureInv(d)'
      BY <1>1, <1>2, <2>1, <3>1, ClosureKept DEF Numbers, Counted
    <3>4. ASSUME NEW d \in 1..MaxCalls, NEW i \in 1..Addresses PROVE AttemptInv(d, i)'
      <4>1. CASE d = c
        BY <2>3, <3>1, <4>1 DEF AttemptInv
      <4>2. CASE d # c
        BY <1>1, <2>1, <3>1, <4>2, AttemptKept DEF Counted
      <4>3. QED
        BY <4>1, <4>2
    <3>5. by' <= call'
      BY <1>1, <2>1 DEF Counted
    <3>6. QED
      BY <3>2, <3>3, <3>4, <3>5 DEF Counted
  <2>5. CASE ~Late
    <3>1. PICK n \in 1..Addresses :
             /\ stage' = [stage EXCEPT ![c] = IF n = 1 THEN "single" ELSE "list"]
             /\ length' = [length EXCEPT ![c] = n]
             /\ Try(c, 1, n, connectingHandle, pending)
      BY <1>6, <2>5 DEF LookupAnswers
    <3>2. /\ stage'[c] \in {"single", "list"} /\ (stage'[c] = "single" => n = 1) /\ length'[c] = n
          /\ failed'[c] = 1 - 1
      BY <1>1, <2>1, <2>2, <3>1 DEF ConnectTypeOK
    <3>3. \A d \in 1..MaxCalls \ {c} :
             stage'[d] = stage[d] /\ length'[d] = length[d] /\ failed'[d] = failed[d]
      BY <1>1, <2>1, <3>1 DEF ConnectTypeOK
    <3>4. 1 \in 1..n /\ c <= call' /\ call' \in Int /\ call <= call' /\ by' = by
      BY <1>2, <2>1, <2>2 DEF Numbers
    <3>5. \A j \in 1..Addresses : <<c, j>> \in pending => j < 1
      BY <2>3
    <3>6. QED
      BY <1>1, <2>2, <3>1, <3>2, <3>3, <3>4, <3>5, TryCounts
  <2>6. QED
    BY <2>4, <2>5
<1>7. ASSUME NEW c \in 1..MaxCalls, AttemptTimeout(c) PROVE Counted'
  <2>1. UNCHANGED <<call, stage, length>> /\ timer[c] > 0
    BY <1>7 DEF AttemptTimeout
  <2>2. CASE timer[c] # active[c] \/ Late
    BY <1>1, <1>2, <1>7, <2>1, <2>2, CountsKept DEF AttemptTimeout, native, ConnectTypeOK
  <2>3. CASE ~(timer[c] # active[c] \/ Late)
    <3>1. failed' = [failed EXCEPT ![c] = @ + 1] /\ TryNext(c, connectingHandle, pending, closed)
      BY <1>7, <2>3 DEF AttemptTimeout
    <3>2. /\ stage[c] \in {"single", "list"} /\ failed[c] = active[c] - 1
          /\ active[c] < length[c]
      BY <1>1, <1>2, <2>1 DEF Counted, ClosureInv, Numbers, ConnectTypeOK
    <3>3. QED
      BY <1>1, <2>1, <3>1, <3>2, NextCounts
  <2>4. QED
    BY <2>2, <2>3
<1>8. ASSUME NEW a \in Attempts, Succeeds(a) PROVE Counted'
  <2>1. PICK c \in 1..MaxCalls, i \in 1..Addresses : a = <<c, i>>
    BY DEF Attempts
  <2>2. UNCHANGED <<call, by, stage, length, active, failed>> /\ pending' \subseteq pending
    BY <1>8 DEF Succeeds
  <2>3. timer' = timer \/ timer' = [timer EXCEPT ![c] = 0]
    BY <1>8, <2>1 DEF Succeeds
  <2>4. \A d \in 1..MaxCalls : timer'[d] \in {0, timer[d]}
    BY <1>1, <2>3 DEF ConnectTypeOK
  <2>5. QED
    BY <1>1, <1>2, <2>2, <2>4, CountsKept
<1>9. ASSUME NEW a \in Attempts, Fails(a) PROVE Counted'
  <2>1. PICK c \in 1..MaxCalls, i \in 1..Addresses : a = <<c, i>>
    BY DEF Attempts
  <2> DEFINE shut == IF a \in six THEN closed ELSE closed \cup {a}
  <2>2. UNCHANGED <<call, stage, length>> /\ a[1] = c /\ a[2] = i /\ <<c, i>> \in pending
    BY <1>9, <2>1 DEF Fails
  <2>3. CASE Ignored(a)
    BY <1>1, <1>2, <1>9, <2>2, <2>3, CountsKept DEF Fails
  <2>4. CASE ~Ignored(a)
    BY <1>1, <1>2, <1>9, <2>1, <2>2, <2>4, NextCounts DEF Fails, Counted, AttemptInv, ClosureInv, Ignored,
       IsActive, Numbers
  <2>5. QED
    BY <2>3, <2>4
<1>10. CASE UNCHANGED ConnectVars
  BY <1>1, <1>2, <1>10, CountsKept DEF ConnectVars, closure, native
<1>11. QED
  BY <1>3, <1>4, <1>5, <1>6, <1>7, <1>8, <1>9, <1>10 DEF ConnectNext, Lookup, Settle

-----------------------------------------------------------------------------
(* The theorems *)

LEMMA ConnectStarts == ConnectInit => ConnectIInv
<1>1. ASSUME ConnectInit PROVE ConnectTypeOK /\ Alone /\ by <= call
  <2>1. connecting \in BOOLEAN /\ destroyed \in BOOLEAN /\ Alone
    BY <1>1 DEF ConnectInit, Alone
  <2>2. length = [c \in 1..MaxCalls |-> 0] /\ active = length /\ timer = length /\ failed = length
    BY <1>1 DEF ConnectInit
  <2>3. length \in [1..MaxCalls -> 0..Addresses]
    BY <2>2, ConnectAssumption
  <2>4. call \in 0..MaxCalls /\ by \in 0..MaxCalls /\ by <= call
    BY <1>1, ConnectAssumption DEF ConnectInit
  <2>5. stage \in [1..MaxCalls -> {"off", "lookup", "single", "list"}]
    BY <1>1 DEF ConnectInit
  <2>6. ConnectDataOK
    BY <1>1, <2>2, <2>3, <2>4, <2>5 DEF ConnectInit, ConnectDataOK
  <2>7. QED
    BY <2>1, <2>4, <2>6, ConnectTypeParts
<1>2. ASSUME ConnectInit, NEW c \in 1..MaxCalls PROVE ClosureInv(c)
  BY <1>2 DEF ConnectInit, ClosureInv
<1>3. ASSUME ConnectInit, NEW c \in 1..MaxCalls, NEW i \in 1..Addresses PROVE AttemptInv(c, i)
  BY <1>3 DEF ConnectInit, AttemptInv
<1>4. QED
  BY <1>1, <1>2, <1>3 DEF ConnectIInv

LEMMA ConnectStep == ConnectIInv /\ [ConnectNext]_ConnectVars => ConnectIInv'
BY ConnectTypeStep, AloneStep, CountStep DEF ConnectIInv, Counted

LEMMA ConnectInvariantHolds == ConnectSpec => []ConnectIInv
BY ConnectStarts, ConnectStep, PTL DEF ConnectSpec

LEMMA LeavesNoHandle == ConnectIInv => NoHandleLeaks
BY DEF ConnectIInv, Alone, NoHandleLeaks

LEMMA TriesEach == ConnectIInv => GivesUpLast
<1>1. ASSUME ConnectIInv, NEW c \in 1..MaxCalls
      PROVE  failed[c] <= length[c] /\ (by = c /\ stage[c] # "off" => failed[c] = length[c])
  <2>1. ClosureInv(c) /\ Numbers /\ stage[c] \in {"off", "lookup", "single", "list"}
    BY <1>1, TypesAreNumbers DEF ConnectIInv, ConnectTypeOK
  <2>2. QED
    BY <2>1 DEF ClosureInv, Numbers
<1> QED BY <1>1 DEF GivesUpLast

LEMMA ConnectImplied == ConnectIInv => ConnectInv
BY LeavesNoHandle, TriesEach DEF ConnectInv, ConnectIInv

\* However attempts, timers, destroy() and later calls interleave, every native handle that
\* is connected is the socket's.
THEOREM HandlesDoNotLeak == ConnectSpec => []NoHandleLeaks
BY LeavesNoHandle, ConnectInvariantHolds, PTL

\* Any list of addresses is given up only when each of them has failed, once.
THEOREM ListsAreExhausted == ConnectSpec => []GivesUpLast
BY TriesEach, ConnectInvariantHolds, PTL

\* The invariant the run `sockets` checks of connect(), for any number of calls and addresses.
THEOREM ConnectIsSafe == ConnectSpec => []ConnectInv
BY ConnectImplied, ConnectInvariantHolds, PTL

-----------------------------------------------------------------------------
(* The server: what it counts, and the budget of its events *)

CountsOK ==
    /\ connections \in Nat /\ closes \in Nat /\ closeTicks \in Nat /\ closeEvents \in Nat
    /\ IsFiniteSet(loops) /\ listens \in Nat

\* A server that listens has a handle, which the end of an older loop leaves alone, and a
\* loop, unless one has ended meanwhile.
ListensOK == listening => ~closeRequested /\ handle # 0 /\ (acceptLoopActive => loops # {})

\* A loop of this listen() is left that no close() has paid for yet.
Unpaid == IF listening /\ acceptLoopActive THEN 1 ELSE 0

\* The 'close' event that the last connection will ask for
Owed == IF ~listening /\ handle = 0 /\ connections > 0 THEN 1 ELSE 0

\* Each loop may ask for a 'close' event when it ends, the last connection for one more.
Budget == closeEvents + closeTicks + Cardinality(loops) + Owed <= closes + Unpaid

\* A loop whose token is the server's own is that of a listen() nobody has closed.
TokensOK ==
    /\ acceptToken \in Nat
    /\ \A l \in loops : l.token \in Nat /\ l.token <= acceptToken /\ (Current(l) => listening)

\* The inductive invariant; an unref'd server may close itself, uncounted by any close().
ServerIInv == CountsOK /\ ListensOK /\ TokensOK /\ (~unrefed => Budget)

\* The end of a loop, of whichever listen(), uses up what it may ask for.
LEMMA LoopEndKeeps ==
    ASSUME ServerIInv, NEW l \in loops, LoopEnds(l, connections'), connections' \in Nat,
           connections' >= connections, UNCHANGED <<unrefed, closes, closeEvents>>
    PROVE  ServerIInv'
<1>0. loops' = loops \ {l} /\ IsFiniteSet(loops)
  BY DEF LoopEnds, ServerIInv, CountsOK
<1>1. IsFiniteSet(loops') /\ Cardinality(loops') = Cardinality(loops) - 1
  BY <1>0, FS_RemoveElement
<1>2. Cardinality(loops) \in Nat /\ Cardinality(loops') \in Nat
  BY <1>0, <1>1, FS_CardinalityType
<1>3. CountsOK'
  BY <1>1 DEF ServerIInv, CountsOK, LoopEnds, Due, CloseIsDue
<1>4. ListensOK' /\ TokensOK'
  BY DEF ServerIInv, ListensOK, TokensOK, LoopEnds, Current
<1>5. ~unrefed' => Budget'
  BY <1>1, <1>2 DEF ServerIInv, CountsOK, ListensOK, Budget, LoopEnds, Due, CloseIsDue, Unpaid, Owed
<1> QED BY <1>3, <1>4, <1>5 DEF ServerIInv

\* So does a close(): it is counted, and the loop it leaves behind is.
LEMMA CloseKeeps ==
    ASSUME ServerIInv, NEW again \in {1, 2}, CloseAt(connections', again), connections' \in Nat,
           ~unrefed => again = 1 /\ connections' = connections,
           UNCHANGED <<unrefed, closeEvents, loops>>
    PROVE  ServerIInv'
BY FS_CardinalityType DEF ServerIInv, CountsOK, CloseAt, Due, CloseIsDue, ListensOK, TokensOK, Current,
   Budget, Unpaid, Owed

LEMMA ServerStarts == ServerInit => ServerIInv
  BY FS_EmptySet DEF ServerInit, ServerIInv, CountsOK, ListensOK, TokensOK, Budget, Owed, Unpaid

\* Every step keeps the budget of 'close' events.
LEMMA ServerStep == ServerIInv /\ [ServerNext]_ServerVars => ServerIInv'
<1> SUFFICES ASSUME ServerIInv, [ServerNext]_ServerVars PROVE ServerIInv'
  OBVIOUS
<1>0. IsFiniteSet(loops) /\ Cardinality(loops) \in Nat /\ connections \in Nat
  BY FS_CardinalityType DEF ServerIInv, CountsOK
<1>1. CASE Listen
  <2> DEFINE new == [token |-> acceptToken', handle |-> listens']
  <2>1. loops' = loops \cup {new}
    BY <1>1 DEF Listen
  <2>2. IsFiniteSet(loops') /\ Cardinality(loops') <= Cardinality(loops) + 1
    <3>1. /\ IsFiniteSet(loops \cup {new})
          /\ Cardinality(loops \cup {new}) \in {Cardinality(loops), Cardinality(loops) + 1}
      <4> HIDE DEF new
      <4> QED BY <1>0, FS_AddElement
    <3> QED BY <1>0, <2>1, <3>1
  <2>3. Cardinality(loops') \in Nat
    BY <2>2, FS_CardinalityType
  <2>4. CountsOK' /\ ListensOK'
    <3>1. CountsOK'
      BY <1>1, <2>2 DEF Listen, ServerIInv, CountsOK
    <3>2. handle' # 0 /\ ~closeRequested'
      BY <1>1 DEF Listen, ServerIInv, CountsOK
    <3>3. loops' # {}
      BY <2>1
    <3> QED BY <3>1, <3>2, <3>3 DEF ListensOK
  <2>5. TokensOK'
    BY <1>1 DEF Listen, ServerIInv, TokensOK, Current
  <2>6. ~unrefed' => Budget'
    BY <1>0, <1>1, <2>2, <2>3 DEF Listen, ServerIInv, CountsOK, Budget, Owed, Unpaid
  <2> QED BY <2>4, <2>5, <2>6 DEF ServerIInv
<1>2. CASE Close
  BY <1>0, <1>2, CloseKeeps DEF Close
<1>3. CASE EmitClose
  BY <1>0, <1>3 DEF EmitClose, serving, ServerIInv, CountsOK, ListensOK, TokensOK, Current,
     Budget, Owed, Unpaid
<1>4. CASE ClientConnects \/ WakeConnects
  BY <1>0, <1>4 DEF ClientConnects, WakeConnects, serving, ServerIInv, CountsOK, ListensOK,
     TokensOK,
     Current, Budget, Owed, Unpaid
<1>5. CASE SocketCloses
  <2>1. /\ connections' \in Nat /\ connections' < connections
        /\ UNCHANGED <<unrefed, closeEvents, loops>>
    BY <1>0, <1>5 DEF SocketCloses
  <2>2. CASE unrefed /\ connections' = 0 /\ listening
    BY <1>5, <2>1, <2>2, CloseKeeps DEF SocketCloses
  <2>3. CASE ~(unrefed /\ connections' = 0 /\ listening)
    BY <1>0, <1>5, <2>1, <2>3 DEF SocketCloses, serving, ServerIInv, CountsOK, ListensOK, TokensOK,
       Current, Budget, Owed, Unpaid, Due, CloseIsDue
  <2> QED BY <2>2, <2>3
<1>6. ASSUME NEW l \in loops, Accepts(l)
      PROVE  ServerIInv'
  <2>1. UNCHANGED <<unrefed, closes, closeEvents>>
    BY <1>6 DEF Accepts
  <2>2. CASE LoopEnds(l, connections') /\ connections' \in {connections, connections + 1}
    BY <1>0, <2>1, <2>2, LoopEndKeeps
  <2>3. CASE /\ UNCHANGED <<serving, loops, closeTicks>>
             /\ connections' \in {connections, connections + 1}
             /\ connections' = connections \/ Current(l)
    BY <1>0, <2>1, <2>3 DEF serving, ServerIInv, CountsOK, ListensOK, TokensOK, Current, Budget,
       Owed, Unpaid
  <2> QED BY <1>6, <2>2, <2>3 DEF Accepts
<1>7. ASSUME NEW l \in loops, AcceptFails(l)
      PROVE  ServerIInv'
  BY <1>0, <1>7, LoopEndKeeps DEF AcceptFails
<1>8. CASE UNCHANGED ServerVars
  BY <1>8 DEF ServerVars, serving, ServerIInv, CountsOK, ListensOK, TokensOK, Current, Budget,
     Owed, Unpaid
<1> QED BY <1>1, <1>2, <1>3, <1>4, <1>5, <1>6, <1>7, <1>8 DEF ServerNext

LEMMA ServerInvariantHolds == ServerSpec => []ServerIInv
  BY ServerStarts, ServerStep, PTL DEF ServerSpec

\* The type invariant, flags and data apart.
FlagsOK ==
    /\ listening \in BOOLEAN /\ acceptLoopActive \in BOOLEAN
    /\ closeRequested \in BOOLEAN /\ unrefed \in BOOLEAN

ServerDataOK ==
    /\ listens \in 0..Listens /\ handle \in 0..Listens /\ acceptToken \in Nat
    /\ connections \in Nat /\ maxConnections \in Nat
    /\ loops \subseteq [token : 1..acceptToken, handle : 1..Listens]
    /\ live \subseteq 1..Listens /\ waking \subseteq 1..Listens
    /\ backlog \in [1..Listens -> Seq({"client", "wake"})]
    /\ clients \in 0..Clients /\ closes \in Nat /\ waiting \in 0..closes
    /\ closeTicks \in Nat /\ closeEvents \in Nat

\* ServerTypeOK is its two halves.
LEMMA ServerTypeParts == ServerTypeOK <=> FlagsOK /\ ServerDataOK
  BY Zenon DEF ServerTypeOK, FlagsOK, ServerDataOK

\* Every step of the server keeps the types.
LEMMA ServerTypeStep == FlagsOK /\ ServerDataOK /\ ServerNext => FlagsOK' /\ ServerDataOK'
<1> SUFFICES ASSUME FlagsOK, ServerDataOK, ServerNext PROVE FlagsOK' /\ ServerDataOK'
  OBVIOUS
<1> USE ServerAssumption
<1>1. CASE Listen
  <2>1. FlagsOK'
    BY <1>1 DEF Listen, FlagsOK
  <2>2. ServerDataOK'
    BY <1>1 DEF Listen, ServerDataOK
  <2> QED BY <2>1, <2>2
<1>2. CASE Close
  <2>1. FlagsOK'
    BY <1>2 DEF Close, CloseAt, FlagsOK
  <2>2. ServerDataOK'
    BY <1>2 DEF Close, CloseAt, Due, CloseIsDue, Woken, ServerDataOK
  <2> QED BY <2>1, <2>2
<1>3. CASE EmitClose
  BY <1>3 DEF EmitClose, serving, FlagsOK, world, ServerDataOK
<1>4. CASE ClientConnects
  BY <1>4 DEF ClientConnects, serving, FlagsOK, ServerDataOK
<1>5. CASE WakeConnects
  BY <1>5 DEF WakeConnects, serving, FlagsOK, ServerDataOK
<1>6. CASE SocketCloses
  <2>1. FlagsOK'
    BY <1>6 DEF SocketCloses, CloseAt, serving, FlagsOK
  <2>2. CASE CloseAt(connections', 2)
    <3>1. closeTicks' \in Nat
      <4>1. \A after : Due(FALSE, after, connections') \in 0..1
        BY DEF Due
      <4>2. PICK after : closeTicks' = closeTicks + 2 * Due(FALSE, after, connections')
        BY <2>2 DEF CloseAt
      <4>3. PICK d \in 0..1 : closeTicks' = closeTicks + 2 * d
        BY <4>1, <4>2
      <4> QED BY <4>3 DEF ServerDataOK
    <3>2. handle' \in 0..Listens /\ live' \subseteq live
      BY <2>2 DEF CloseAt, ServerDataOK
    <3>3. waking' \subseteq 1..Listens
      <4>1. CASE handle # 0 /\ acceptLoopActive
        BY <2>2, <4>1 DEF CloseAt, Woken, ServerDataOK
      <4>2. CASE ~(handle # 0 /\ acceptLoopActive)
        BY <2>2, <4>2 DEF CloseAt, ServerDataOK
      <4> QED BY <4>1, <4>2
    <3>4. acceptToken' = acceptToken + 1 /\ closes' = closes + 1 /\ listens' = listens
      BY <2>2 DEF CloseAt
    <3>5. /\ connections' \in Nat
          /\ UNCHANGED <<maxConnections, loops, backlog, clients, waiting, closeEvents>>
      BY <1>6 DEF SocketCloses, ServerDataOK
    <3> QED BY <2>1, <3>1, <3>2, <3>3, <3>4, <3>5 DEF ServerDataOK
  <2>3. CASE UNCHANGED <<serving, live, waking, closes>> /\ closeTicks' \in Nat
    BY <1>6, <2>1, <2>3 DEF SocketCloses, ServerDataOK, serving
  <2>4. ServerDataOK'
    <3>1. CASE unrefed /\ connections' = 0 /\ listening
      BY <1>6, <2>2, <3>1 DEF SocketCloses
    <3>2. CASE ~(unrefed /\ connections' = 0 /\ listening)
      BY <1>6, <2>3, <3>2 DEF SocketCloses, Due, ServerDataOK
    <3> QED BY <3>1, <3>2
  <2> QED BY <2>1, <2>4
<1>7. ASSUME NEW l \in loops, Accepts(l)
      PROVE  FlagsOK' /\ ServerDataOK'
  <2>1. FlagsOK'
    BY <1>7 DEF Accepts, LoopEnds, serving, FlagsOK
  <2>2. backlog' \in [1..Listens -> Seq({"client", "wake"})]
    BY <1>7 DEF Accepts, ServerDataOK
  <2>3. connections' \in Nat
    BY <1>7 DEF Accepts, ServerDataOK
  <2>4. CASE LoopEnds(l, connections')
    BY <1>7, <2>1, <2>2, <2>3, <2>4 DEF LoopEnds, Due, ServerDataOK, Accepts
  <2>5. CASE UNCHANGED <<serving, loops, closeTicks, live>>
    BY <1>7, <2>1, <2>2, <2>3, <2>5 DEF Accepts, serving, ServerDataOK
  <2> QED BY <1>7, <2>1, <2>4, <2>5 DEF Accepts
<1>8. ASSUME NEW l \in loops, AcceptFails(l)
      PROVE  FlagsOK' /\ ServerDataOK'
  <2>1. FlagsOK'
    BY <1>8 DEF AcceptFails, LoopEnds, FlagsOK
  <2>2. ServerDataOK'
    BY <1>8 DEF AcceptFails, LoopEnds, Due, CloseIsDue, ServerDataOK
  <2> QED BY <2>1, <2>2
<1> QED BY <1>1, <1>2, <1>3, <1>4, <1>5, <1>6, <1>7, <1>8 DEF ServerNext

LEMMA ServerTypesStart == ServerInit => FlagsOK /\ ServerDataOK
<1>1. ServerInit => FlagsOK
  BY Zenon DEF ServerInit, FlagsOK
<1>2. ServerInit => ServerDataOK
  BY ServerAssumption DEF ServerInit, ServerDataOK
<1> QED BY <1>1, <1>2

LEMMA ServerTypesKept ==
  FlagsOK /\ ServerDataOK /\ [ServerNext]_ServerVars => FlagsOK' /\ ServerDataOK'
BY ServerTypeStep DEF ServerVars, serving, world, FlagsOK, ServerDataOK

\* The type invariant of a server, for any number of listens, clients and calls of close().
LEMMA TypeCorrect == ServerSpec => []ServerTypeOK
<1>1. ServerSpec => [](FlagsOK /\ ServerDataOK)
  BY ServerTypesStart, ServerTypesKept, PTL DEF ServerSpec
<1> QED BY <1>1, ServerTypeParts, PTL

LEMMA ServerImplied == ServerIInv => OneCloseEach
<1> SUFFICES ASSUME ServerIInv, ~unrefed PROVE closeEvents + closeTicks <= closes
  BY DEF OneCloseEach
<1>1. Cardinality(loops) \in Nat /\ Owed \in 0..1 /\ Unpaid \in 0..1
  BY FS_CardinalityType DEF ServerIInv, CountsOK, Owed, Unpaid
<1>2. Unpaid = 1 => Cardinality(loops) # 0
  BY FS_EmptySet DEF ServerIInv, CountsOK, ListensOK, Unpaid
<1> QED BY <1>1, <1>2 DEF ServerIInv, CountsOK, Budget

\* The type invariant, and: each call of close() is answered by one 'close' event at most,
\* though close(), the end of each accept loop and the last connection may all ask for it.
THEOREM ServerIsSafe == ServerSpec => []ServerInv
  BY ServerImplied, ServerInvariantHolds, TypeCorrect, PTL DEF ServerInv

\* Only a loop of the listen() that is current counts a connection.
LEMMA AcceptsCurrent ==
  ServerIInv /\ [ServerNext]_ServerVars => [connections' > connections => listening]_ServerVars
<1> SUFFICES ASSUME ServerIInv, ServerNext, connections' > connections PROVE listening
  OBVIOUS
<1>1. connections \in Nat
  BY DEF ServerIInv, CountsOK
<1>2. PICK l \in loops : Accepts(l)
  BY <1>1 DEF ServerNext, Listen, Close, EmitClose, ClientConnects, WakeConnects,
     SocketCloses,
     AcceptFails
<1>3. Current(l)
  BY <1>1, <1>2 DEF Accepts
<1> QED BY <1>3 DEF ServerIInv, TokensOK

\* A connection that the loop of a closed listen() accepts, the server's own wake among
\* them, is never counted.
THEOREM NoneAcceptedAfterClose == ServerSpec => NoneAfterClose
  BY AcceptsCurrent, ServerInvariantHolds, PTL DEF ServerSpec, NoneAfterClose

-----------------------------------------------------------------------------
(* A datagram socket: the inductive invariant *)

\* The records that udp can be
Udp == [open : BOOLEAN, bindState : {"unbound", "binding", "bound"},
        binding : {"no", "lookup", "host"}, listening : BOOLEAN,
        connectState : {"disconnected", "connecting", "connected"},
        connecting : {"no", "lookup", "queued", "host", "lost"},
        queue : Seq(Messages \cup {"connect"}), token : Nat, loops : SUBSET Nat,
        deaf : BOOLEAN, heard : Seq(1..Arrivals)]

SendStates == {"new", "queued", "lookup", "host", "done", "failed", "lost"}

\* A loop is the token that was given out for it, and a closed socket has no current loop.
LoopsOK ==
    /\ udp.loops \subseteq 1..udp.token
    /\ ~udp.open => udp.token \notin udp.loops

\* What an open socket says of its bind() and its connect() is where they are.
StatesOK ==
    /\ udp.bindState = "bound" => udp.open
    /\ udp.open => /\ udp.binding # "no" <=> udp.bindState = "binding"
                   /\ udp.connectState = "connecting" <=> udp.connecting # "no"
                   /\ udp.queue # <<>> => udp.bindState = "binding"
                   /\ Contains(udp.queue, "connect") => udp.connecting = "queued"

\* Only a connect() on its way, or a failure, leaves a bound socket without its loop.
HearsOrConnects ==
    udp.bindState = "bound" /\ ~udp.deaf /\ udp.connecting # "host" => udp.token \in udp.loops

\* What was handed out has been read, and each token whose loop is over pays for one
\* datagram.
HeardOK ==
    /\ \A i \in DOMAIN udp.heard : udp.heard[i] <= read
    /\ HeardInOrder

DatagramIInv ==
    DatagramTypeOK /\ LoopsOK /\ StatesOK /\ HearsOrConnects /\ BoundFirst /\ HeardOK

-----------------------------------------------------------------------------
(* A datagram socket: what its functions do to the record *)

SameLoops(s, t) ==
    t.token = s.token /\ t.loops = s.loops /\ t.deaf = s.deaf /\ t.heard = s.heard
SameStates(s, t) ==
    /\ (t.open <=> s.open) /\ t.bindState = s.bindState /\ t.binding = s.binding
    /\ t.connectState = s.connectState /\ t.queue = s.queue

LEMMA DoBindFields ==
    ASSUME NEW s \in Udp, NEW how \in {"lookup", "host"}
    PROVE  LET t == DoBind(s, how)
           IN  /\ t \in Udp /\ SameLoops(s, t) /\ (t.open <=> s.open)
               /\ t.bindState = "binding" /\ t.binding = IF s.open THEN how ELSE s.binding
               /\ t.connectState = s.connectState /\ t.connecting = s.connecting
               /\ t.queue = s.queue /\ (t.listening <=> s.listening)
BY DEF DoBind, Udp, SameLoops

LEMMA EnqueueFields ==
    ASSUME NEW s \in Udp, NEW job \in Messages \cup {"connect"}
    PROVE  LET t == Enqueue(s, job)
           IN  /\ t \in Udp /\ SameLoops(s, t) /\ (t.open <=> s.open)
               /\ s.bindState = "unbound" =>
                    t.bindState = "binding" /\ t.binding = IF s.open THEN "host" ELSE s.binding
               /\ s.bindState # "unbound" =>
                    t.bindState = s.bindState /\ t.binding = s.binding
               /\ t.connectState = s.connectState /\ t.connecting = s.connecting
               /\ (t.listening <=> s.listening)
               /\ Contains(t.queue, "connect") /\ job # "connect" =>
                    Contains(s.queue, "connect")
<1> DEFINE queued == [s EXCEPT !.queue = Append(@, job)]
<1>1. s.queue \in Seq(Messages \cup {"connect"})
  BY DEF Udp
<1>2. Append(s.queue, job) \in Seq(Messages \cup {"connect"})
  BY <1>1
<1>3. /\ queued \in Udp /\ SameLoops(s, queued) /\ (queued.open <=> s.open)
      /\ queued.bindState = s.bindState /\ queued.binding = s.binding
      /\ queued.connectState = s.connectState /\ queued.connecting = s.connecting
      /\ (queued.listening <=> s.listening)
      /\ Contains(queued.queue, "connect") /\ job # "connect" => Contains(s.queue, "connect")
  <2> DEFINE q == Append(s.queue, job)
  <2>3. Contains(q, "connect") /\ job # "connect" => Contains(s.queue, "connect")
    BY <1>1 DEF Contains
  <2> HIDE DEF q
  <2>1. q \in Seq(Messages \cup {"connect"})
    BY <1>2 DEF q
  <2>2. queued = [s EXCEPT !.queue = q]
    BY DEF q
  <2> QED BY <2>1, <2>2, <2>3 DEF Udp, SameLoops
<1>4. Enqueue(s, job) = IF s.bindState = "unbound" THEN DoBind(queued, "host") ELSE queued
  BY <1>3 DEF Enqueue
<1> HIDE DEF queued
<1>5. CASE s.bindState = "unbound"
  BY <1>3, <1>4, <1>5, DoBindFields DEF SameLoops
<1>6. CASE s.bindState # "unbound"
  BY <1>3, <1>4, <1>6
<1> QED BY <1>5, <1>6

LEMMA LoseQueueFields ==
    ASSUME NEW s \in Udp
    PROVE  LET t == LoseQueue(s)
           IN  /\ t \in Udp /\ SameLoops(s, t) /\ (t.open <=> s.open)
               /\ t.bindState = s.bindState /\ t.binding = s.binding
               /\ t.connectState = s.connectState
               /\ t.connecting \in {"lost", s.connecting}
               /\ ~Contains(s.queue, "connect") => t.connecting = s.connecting
               /\ t.queue = <<>> /\ (t.listening <=> s.listening)
<1>1. <<>> \in Seq(Messages \cup {"connect"})
  OBVIOUS
<1> QED BY <1>1 DEF LoseQueue, Udp, SameLoops

LEMMA StartReceivingFields ==
    ASSUME NEW s \in Udp
    PROVE  LET t == StartReceiving(s)
           IN  /\ t \in Udp /\ SameStates(s, t) /\ t.connecting = s.connecting
               /\ t.token = s.token + 1 /\ ~t.deaf /\ t.heard = s.heard
               /\ t.loops = IF s.open THEN s.loops \cup {s.token + 1} ELSE s.loops
               /\ (t.listening <=> s.listening)
<1> DEFINE l == IF s.open THEN s.loops \cup {s.token + 1} ELSE s.loops
           n == s.token + 1
<1>1. n \in Nat /\ l \in SUBSET Nat
  BY DEF Udp
<1>2. StartReceiving(s) = [s EXCEPT !.token = n, !.loops = l, !.deaf = FALSE]
  BY DEF StartReceiving
<1>3. n = s.token + 1 /\ l = IF s.open THEN s.loops \cup {s.token + 1} ELSE s.loops
  OBVIOUS
<1> HIDE DEF l, n
<1> QED BY <1>1, <1>2, <1>3 DEF Udp, SameStates

LEMMA StartConnectFields ==
    ASSUME NEW s \in Udp
    PROVE  LET t == StartConnect(s)
           IN  /\ t \in Udp /\ SameStates(s, t) /\ t.connecting = "host"
               /\ t.token = s.token + 1 /\ t.loops = s.loops /\ t.deaf = s.deaf
               /\ t.heard = s.heard /\ (t.listening <=> s.listening)
<1> DEFINE n == s.token + 1
<1>1. n \in Nat
  BY DEF Udp
<1>2. StartConnect(s) = [s EXCEPT !.token = n, !.connecting = "host"]
  BY DEF StartConnect
<1>3. n = s.token + 1
  OBVIOUS
<1> HIDE DEF n
<1> QED BY <1>1, <1>2, <1>3 DEF Udp, SameStates

LEMMA ClosedFields ==
    ASSUME NEW s \in Udp
    PROVE  LET t == Closed(s)
           IN  /\ t \in Udp /\ ~t.open /\ t.bindState = "unbound"
               /\ t.token = s.token + 1 /\ t.loops = s.loops /\ t.heard = s.heard
               /\ (t.listening <=> s.listening)
<1> DEFINE e == LoseQueue(s)
           n == s.token + 1
<1>1. e \in Udp /\ SameLoops(s, e) /\ (e.listening <=> s.listening)
  BY LoseQueueFields
<1>2. n \in Nat /\ n = s.token + 1 /\ e.token + 1 = n
  BY <1>1 DEF Udp, SameLoops
<1>3. Closed(s) = [e EXCEPT !.open = FALSE, !.token = n, !.bindState = "unbound",
                            !.connectState = "disconnected"]
  BY <1>2 DEF Closed
<1>4. e.loops = s.loops /\ e.heard = s.heard
  BY <1>1 DEF SameLoops
<1> DEFINE t == Closed(s)
<1> HIDE DEF e, n, t
<1>5. t \in Udp
  BY <1>1, <1>2, <1>3 DEF Udp, t
<1>6. /\ ~t.open /\ t.bindState = "unbound" /\ t.token = n
      /\ t.loops = e.loops /\ t.heard = e.heard /\ t.listening = e.listening
  BY <1>1, <1>3 DEF Udp, t
<1> QED BY <1>1, <1>2, <1>4, <1>5, <1>6 DEF t

\* performConnect: it starts, or it waits for the bind.
LEMMA ConnectOrQueueFields ==
    ASSUME NEW s \in Udp
    PROVE  LET t == ConnectOrQueue(s)
           IN  /\ t \in Udp /\ (t.open <=> s.open) /\ t.connectState = s.connectState
               /\ t.loops = s.loops /\ t.deaf = s.deaf /\ t.heard = s.heard
               /\ (t.listening <=> s.listening)
               /\ s.bindState = "bound" =>
                    /\ t.connecting = "host" /\ t.token = s.token + 1
                    /\ t.bindState = "bound" /\ t.binding = s.binding /\ t.queue = s.queue
               /\ s.bindState # "bound" =>
                    /\ t.connecting = "queued" /\ t.token = s.token
                    /\ t.bindState = "binding"
                    /\ t.binding = IF s.bindState = "unbound" /\ s.open THEN "host"
                                   ELSE s.binding
<1> DEFINE waits == [s EXCEPT !.connecting = "queued"]
<1>1. /\ waits \in Udp /\ SameLoops(s, waits) /\ SameStates(s, waits)
      /\ waits.connecting = "queued" /\ (waits.listening <=> s.listening)
  BY DEF Udp, SameLoops, SameStates
<1>2. ConnectOrQueue(s) = IF s.bindState = "bound" THEN StartConnect(s)
                          ELSE Enqueue(waits, "connect")
  BY DEF ConnectOrQueue
<1> HIDE DEF waits
<1>3. CASE s.bindState = "bound"
  BY <1>2, <1>3, StartConnectFields DEF SameStates
<1>4. CASE s.bindState # "bound"
  <2> DEFINE t == Enqueue(waits, "connect")
  <2>1. /\ t \in Udp /\ SameLoops(waits, t) /\ (t.open <=> waits.open)
        /\ waits.bindState = "unbound" =>
             t.bindState = "binding" /\ t.binding = IF waits.open THEN "host" ELSE waits.binding
        /\ waits.bindState # "unbound" =>
             t.bindState = waits.bindState /\ t.binding = waits.binding
        /\ t.connectState = waits.connectState /\ t.connecting = waits.connecting
        /\ (t.listening <=> waits.listening)
    BY <1>1, EnqueueFields
  <2>2. ConnectOrQueue(s) = t
    BY <1>2, <1>4
  <2>3. s.bindState \in {"unbound", "binding"}
    BY <1>4 DEF Udp
  <2> HIDE DEF t
  <2> QED BY <1>1, <1>4, <2>1, <2>2, <2>3 DEF SameLoops, SameStates
<1> QED BY <1>3, <1>4

-----------------------------------------------------------------------------
(* A datagram socket: loops and what they hear *)

LEMMA LoopsAreFinite ==
    ASSUME DatagramTypeOK, LoopsOK
    PROVE  /\ IsFiniteSet(udp.loops) /\ Cardinality(udp.loops) \in Nat
           /\ udp.token \in Nat /\ udp.token + 1 \notin udp.loops
<1>1. udp.token \in Nat
  BY DEF DatagramTypeOK
<1>2. IsFiniteSet(1..udp.token)
  BY <1>1, FS_Interval
<1>3. IsFiniteSet(udp.loops)
  BY <1>2, FS_Subset DEF LoopsOK
<1> QED BY <1>1, <1>3, FS_CardinalityType DEF LoopsOK

\* A step that gives out tokens and starts one loop at most keeps what was heard in order.
LEMMA LoopChanges ==
    ASSUME DatagramIInv, udp'.heard = udp.heard, read' = read, udp'.token \in Nat,
           \/ udp'.loops = udp.loops /\ udp'.token >= udp.token
           \/ \E n \in udp.token + 1..udp'.token : udp'.loops = udp.loops \cup {n}
    PROVE  udp'.loops \subseteq 1..udp'.token /\ HeardOK'
<1>1. /\ udp.token \in Nat /\ IsFiniteSet(udp.loops) /\ Cardinality(udp.loops) \in Nat
      /\ udp.loops \subseteq 1..udp.token
  BY LoopsAreFinite DEF DatagramIInv, LoopsOK
<1>2. udp'.loops \subseteq 1..udp'.token
  BY <1>1
<1>3. /\ udp.token - Cardinality(udp.loops) <= udp'.token - Cardinality(udp'.loops)
      /\ Cardinality(udp'.loops) \in Nat
  <2>1. CASE udp'.loops = udp.loops /\ udp'.token >= udp.token
    BY <1>1, <2>1
  <2>2. ASSUME NEW n \in udp.token + 1..udp'.token, udp'.loops = udp.loops \cup {n}
        PROVE  /\ udp.token - Cardinality(udp.loops) <= udp'.token - Cardinality(udp'.loops)
               /\ Cardinality(udp'.loops) \in Nat
    <3>1. n \notin udp.loops
      BY <1>1, <2>2
    <3>2. Cardinality(udp'.loops) = Cardinality(udp.loops) + 1
      BY <1>1, <2>2, <3>1, FS_AddElement
    <3> QED BY <1>1, <2>2, <3>2
  <2> QED BY <2>1, <2>2
<1>4. Len(udp.heard) \in Nat /\ read \in Nat
  BY DatagramAssumption DEF DatagramIInv, DatagramTypeOK
<1> QED BY <1>1, <1>2, <1>3, <1>4 DEF DatagramIInv, HeardOK, HeardInOrder

\* The sends of a socket that is not bound wait or are lost.
LEMMA LosesSends ==
    ASSUME DatagramTypeOK, NEW s
    PROVE  /\ SendsLost(s) \in [Messages -> SendStates]
           /\ \A m \in Messages : SendsLost(s)[m] \in {sends[m], "lost"}
BY DEF DatagramTypeOK, SendsLost, SendStates

LEMMA TypeIsUdp ==
    /\ DatagramTypeOK <=>
         /\ udp \in Udp /\ sends \in [Messages -> SendStates]
         /\ read \in 0..Arrivals /\ connects \in 0..MaxConnects
    /\ DatagramTypeOK' <=>
         /\ udp' \in Udp /\ sends' \in [Messages -> SendStates]
         /\ read' \in 0..Arrivals /\ connects' \in 0..MaxConnects
BY DEF DatagramTypeOK, Udp, SendStates

LEMMA NothingWaits == ~Contains(<<>>, "connect")
BY DEF Contains

-----------------------------------------------------------------------------
(* A datagram socket: every step keeps the invariant *)

LEMMA BindStep == DatagramIInv /\ Bind => DatagramIInv'
<1> SUFFICES ASSUME DatagramIInv, Bind PROVE DatagramIInv'
  OBVIOUS
<1>1. PICK how \in {"lookup", "host"} : udp' = DoBind(udp, how)
  BY DEF Bind
<1>2. udp.open /\ udp.bindState = "unbound" /\ UNCHANGED <<sends, read, connects>>
  BY DEF Bind
<1>3. udp \in Udp
  BY TypeIsUdp DEF DatagramIInv
<1>4. /\ udp' \in Udp /\ SameLoops(udp, udp') /\ udp'.open
      /\ udp'.bindState = "binding" /\ udp'.binding = how
      /\ udp'.connectState = udp.connectState /\ udp'.connecting = udp.connecting
      /\ udp'.queue = udp.queue
  BY <1>1, <1>2, <1>3, DoBindFields
<1>5. DatagramTypeOK'
  BY <1>2, <1>4, TypeIsUdp DEF DatagramIInv
<1>6. LoopsOK' /\ HeardOK'
  BY <1>2, <1>3, <1>4, LoopChanges DEF SameLoops, LoopsOK, Udp
<1>7. StatesOK' /\ HearsOrConnects'
  BY <1>2, <1>4 DEF DatagramIInv, StatesOK, HearsOrConnects
<1>8. BoundFirst'
  BY <1>2, <1>4 DEF DatagramIInv, BoundFirst
<1> QED BY <1>5, <1>6, <1>7, <1>8 DEF DatagramIInv

LEMMA SendStep == ASSUME NEW m \in Messages, DatagramIInv, Send(m) PROVE DatagramIInv'
<1>1. udp \in Udp /\ sends \in [Messages -> SendStates] /\ UNCHANGED <<read, connects>>
  BY TypeIsUdp DEF DatagramIInv, Send
<1>2. CASE udp.bindState = "bound"
  BY <1>1, <1>2, TypeIsUdp DEF Send, SendStates, DatagramIInv, LoopsOK, StatesOK, HearsOrConnects,
     BoundFirst, HeardOK, HeardInOrder
<1>3. CASE udp.bindState # "bound"
  <2>1. udp' = Enqueue(udp, m) /\ sends' = [sends EXCEPT ![m] = "queued"] /\ udp.open
    BY <1>3 DEF Send
  <2>2. udp.bindState \in {"unbound", "binding"}
    BY <1>1, <1>3 DEF Udp
  <2>3. /\ udp' \in Udp /\ SameLoops(udp, udp') /\ udp'.open /\ udp'.bindState = "binding"
        /\ udp'.binding = IF udp.bindState = "unbound" THEN "host" ELSE udp.binding
        /\ udp'.connectState = udp.connectState /\ udp'.connecting = udp.connecting
        /\ Contains(udp'.queue, "connect") => Contains(udp.queue, "connect")
    <3> DEFINE t == Enqueue(udp, m)
    <3>1. m \in Messages \cup {"connect"} /\ m # "connect"
      BY DatagramAssumption
    <3>2. /\ t \in Udp /\ SameLoops(udp, t) /\ (t.open <=> udp.open)
          /\ udp.bindState = "unbound" =>
               t.bindState = "binding" /\ t.binding = IF udp.open THEN "host" ELSE udp.binding
          /\ udp.bindState # "unbound" =>
               t.bindState = udp.bindState /\ t.binding = udp.binding
          /\ t.connectState = udp.connectState /\ t.connecting = udp.connecting
          /\ Contains(t.queue, "connect") => Contains(udp.queue, "connect")
      BY <1>1, <3>1, EnqueueFields
    <3>3. udp' = t
      BY <2>1
    <3> HIDE DEF t
    <3> QED BY <2>1, <2>2, <3>2, <3>3
  <2>4. sends' \in [Messages -> SendStates]
    BY <1>1, <2>1 DEF SendStates
  <2>5. DatagramTypeOK'
    BY <1>1, <2>3, <2>4, TypeIsUdp DEF DatagramIInv
  <2>6. LoopsOK' /\ HeardOK'
    BY <1>1, <2>1, <2>3, LoopChanges DEF SameLoops, LoopsOK, Udp
  <2>7. StatesOK' /\ HearsOrConnects'
    BY <1>3, <2>1, <2>2, <2>3 DEF DatagramIInv, StatesOK, HearsOrConnects
  <2>8. BoundFirst'
    BY <1>1, <1>3, <2>1, <2>3 DEF DatagramIInv, BoundFirst
  <2> QED BY <2>5, <2>6, <2>7, <2>8 DEF DatagramIInv
<1> QED BY <1>2, <1>3

LEMMA ConnectOrQueueStep ==
    ASSUME DatagramIInv, NEW s \in Udp, udp' = ConnectOrQueue(s), SameLoops(udp, s),
           s.open <=> udp.open, s.bindState = udp.bindState, s.binding = udp.binding,
           s.queue = udp.queue, s.open => s.connectState = "connecting",
           UNCHANGED <<sends, read>>, connects' \in 0..MaxConnects
    PROVE  DatagramIInv'
BY TypeIsUdp, ConnectOrQueueFields, LoopChanges, NothingWaits DEF DatagramIInv, SameLoops, Udp, StatesOK,
   LoopsOK, HearsOrConnects, BoundFirst

LEMMA ConnectUdpStep == DatagramIInv /\ ConnectUdp => DatagramIInv'
<1> SUFFICES ASSUME DatagramIInv, ConnectUdp PROVE DatagramIInv'
  OBVIOUS
<1> DEFINE begun == [udp EXCEPT !.connectState = "connecting"]
<1>1. udp \in Udp /\ udp.open /\ udp.connectState = "disconnected"
  BY TypeIsUdp DEF DatagramIInv, ConnectUdp
<1>2. /\ begun \in Udp /\ SameLoops(udp, begun) /\ begun.open
      /\ begun.bindState = udp.bindState /\ begun.binding = udp.binding
      /\ begun.queue = udp.queue /\ begun.connectState = "connecting"
  BY <1>1 DEF Udp, SameLoops
<1>3. UNCHANGED <<sends, read>> /\ connects' \in 0..MaxConnects
  BY DatagramAssumption DEF ConnectUdp, DatagramIInv, DatagramTypeOK
<1>4. udp' = ConnectOrQueue(begun) \/ udp' = [begun EXCEPT !.connecting = "lookup"]
  BY DEF ConnectUdp
<1> HIDE DEF begun
<1>5. CASE udp' = ConnectOrQueue(begun)
  BY <1>1, <1>2, <1>3, <1>5, ConnectOrQueueStep
<1>6. CASE udp' = [begun EXCEPT !.connecting = "lookup"]
  BY <1>1, <1>2, <1>3, <1>6, TypeIsUdp, LoopChanges DEF Udp, SameLoops, DatagramIInv, LoopsOK, StatesOK,
     HearsOrConnects, BoundFirst
<1> QED BY <1>4, <1>5, <1>6

LEMMA DisconnectStep == DatagramIInv /\ Disconnect => DatagramIInv'
<1> SUFFICES ASSUME DatagramIInv, Disconnect PROVE DatagramIInv'
  OBVIOUS
<1> DEFINE n == udp.token + 1
           off == [udp EXCEPT !.token = n, !.connectState = "disconnected"]
<1>1. /\ udp \in Udp /\ udp.open /\ udp.connectState = "connected"
      /\ UNCHANGED <<sends, read, connects>>
  BY TypeIsUdp DEF DatagramIInv, Disconnect
<1>2. udp.bindState = "bound"
  BY <1>1 DEF DatagramIInv, BoundFirst
<1>3. udp' = StartReceiving(off)
  BY <1>2 DEF Disconnect
<1>4. n \in Nat /\ n = udp.token + 1
  BY <1>1 DEF Udp
<1> HIDE DEF n
<1>5. /\ off \in Udp /\ off.open /\ off.bindState = "bound" /\ off.binding = udp.binding
      /\ off.connectState = "disconnected" /\ off.connecting = udp.connecting
      /\ off.queue = udp.queue /\ off.token = n /\ off.loops = udp.loops
      /\ off.heard = udp.heard
  BY <1>1, <1>2, <1>4 DEF Udp
<1> HIDE DEF off
<1>6. /\ udp' \in Udp /\ SameStates(off, udp') /\ udp'.connecting = udp.connecting
      /\ udp'.token = n + 1 /\ udp'.heard = udp.heard
      /\ udp'.loops = udp.loops \cup {n + 1}
  BY <1>3, <1>5, StartReceivingFields
<1>7. DatagramTypeOK'
  BY <1>1, <1>6, TypeIsUdp DEF DatagramIInv
<1>8. LoopsOK' /\ HeardOK'
  BY <1>1, <1>4, <1>5, <1>6, LoopChanges DEF Udp, LoopsOK, SameStates
<1>9. StatesOK' /\ HearsOrConnects' /\ BoundFirst'
  BY <1>1, <1>2, <1>5, <1>6
  DEF DatagramIInv, StatesOK, HearsOrConnects, BoundFirst, SameStates
<1> QED BY <1>7, <1>8, <1>9 DEF DatagramIInv

\* close(), also of a socket that has just been bound
LEMMA ClosedStep ==
    ASSUME DatagramIInv, NEW s \in Udp, udp' = Closed(s), sends' = SendsLost(s),
           s.heard = udp.heard,
           \/ s.token = udp.token /\ s.loops = udp.loops
           \/ s.token = udp.token + 1 /\ s.loops = udp.loops \cup {udp.token + 1},
           UNCHANGED <<read, connects>>
    PROVE  DatagramIInv'
<1>1. /\ udp' \in Udp /\ ~udp'.open /\ udp'.bindState = "unbound"
      /\ udp'.token = s.token + 1 /\ udp'.loops = s.loops /\ udp'.heard = udp.heard
  BY ClosedFields
<1>2. DatagramTypeOK'
  BY <1>1, LosesSends, TypeIsUdp DEF DatagramIInv
<1>3. LoopsOK' /\ HeardOK'
  <2>1. udp.token \in Nat /\ udp.loops \subseteq 1..udp.token
    BY LoopsAreFinite DEF DatagramIInv, LoopsOK
  <2>2. udp'.token \in Nat /\ udp'.token \notin udp'.loops
    BY <1>1, <2>1
  <2>3. CASE s.token = udp.token /\ s.loops = udp.loops
    BY <1>1, <2>1, <2>2, <2>3, LoopChanges DEF LoopsOK
  <2>4. CASE s.token = udp.token + 1 /\ s.loops = udp.loops \cup {udp.token + 1}
    BY <1>1, <2>1, <2>2, <2>4, LoopChanges DEF LoopsOK
  <2> QED BY <2>3, <2>4
<1>4. StatesOK' /\ HearsOrConnects' /\ BoundFirst'
  BY <1>1 DEF StatesOK, HearsOrConnects, BoundFirst
<1> QED BY <1>2, <1>3, <1>4 DEF DatagramIInv

LEMMA CloseStep == DatagramIInv /\ CloseUdp => DatagramIInv'
BY ClosedStep, TypeIsUdp DEF DatagramIInv, CloseUdp

\* A bind() that fails drops the queue.
LEMMA BindFailsStep ==
    ASSUME DatagramIInv, udp.binding # "no",
           udp' = [LoseQueue(udp) EXCEPT !.bindState = "unbound", !.binding = "no"],
           sends' = SendsLost(udp), UNCHANGED <<read, connects>>
    PROVE  DatagramIInv'
<1> DEFINE e == LoseQueue(udp)
<1>1. udp \in Udp
  BY TypeIsUdp DEF DatagramIInv
<1>2. /\ e \in Udp /\ SameLoops(udp, e) /\ (e.open <=> udp.open)
      /\ e.connectState = udp.connectState /\ e.queue = <<>>
      /\ e.connecting \in {"lost", udp.connecting}
      /\ ~Contains(udp.queue, "connect") => e.connecting = udp.connecting
  BY <1>1, LoseQueueFields
<1>3. udp' = [e EXCEPT !.bindState = "unbound", !.binding = "no"]
  OBVIOUS
<1> HIDE DEF e
<1>4. /\ udp' \in Udp /\ SameLoops(udp, udp') /\ (udp'.open <=> udp.open)
      /\ udp'.bindState = "unbound" /\ udp'.binding = "no"
      /\ udp'.connectState = udp.connectState /\ udp'.queue = <<>>
      /\ udp'.connecting \in {"lost", udp.connecting}
      /\ ~Contains(udp.queue, "connect") => udp'.connecting = udp.connecting
  BY <1>2, <1>3 DEF Udp, SameLoops
<1>5. DatagramTypeOK'
  BY <1>4, LosesSends, TypeIsUdp DEF DatagramIInv
<1>6. LoopsOK' /\ HeardOK'
  BY <1>1, <1>4, LoopChanges DEF DatagramIInv, SameLoops, LoopsOK, Udp
<1>7. StatesOK' /\ HearsOrConnects'
  BY <1>4, NothingWaits DEF DatagramIInv, StatesOK, HearsOrConnects
<1>8. BoundFirst'
  <2>1. SUFFICES ASSUME udp.open PROVE BoundFirst'
    BY <1>4 DEF BoundFirst
  <2>2. udp.bindState # "bound"
    BY <2>1 DEF DatagramIInv, StatesOK
  <2>3. \A m \in Messages : sends'[m] \in {"new", "queued", "lost"}
    BY <2>1, <2>2, LosesSends DEF DatagramIInv, BoundFirst
  <2> QED BY <1>4, <2>1, <2>2, <2>3 DEF DatagramIInv, BoundFirst
<1> QED BY <1>5, <1>6, <1>7, <1>8 DEF DatagramIInv

LEMMA BindSettlesStep == DatagramIInv /\ BindSettles => DatagramIInv'
<1> SUFFICES ASSUME DatagramIInv, BindSettles PROVE DatagramIInv'
  OBVIOUS
<1> DEFINE begun == [udp EXCEPT !.bindState = "bound", !.binding = "no", !.listening = TRUE]
           bound == StartReceiving(begun)
<1>1. udp \in Udp /\ udp.binding = "host" /\ UNCHANGED <<read, connects>>
  BY TypeIsUdp DEF DatagramIInv, BindSettles
<1>2. /\ begun \in Udp /\ SameLoops(udp, begun) /\ (begun.open <=> udp.open)
      /\ begun.bindState = "bound" /\ begun.binding = "no"
      /\ begun.connectState = udp.connectState /\ begun.connecting = udp.connecting
      /\ begun.queue = udp.queue
  BY <1>1 DEF Udp, SameLoops
<1>3. /\ bound \in Udp /\ (bound.open <=> udp.open) /\ bound.bindState = "bound"
      /\ bound.binding = "no" /\ bound.connectState = udp.connectState
      /\ bound.connecting = udp.connecting /\ bound.queue = udp.queue
      /\ bound.token = udp.token + 1 /\ bound.heard = udp.heard
      /\ udp.open => bound.loops = udp.loops \cup {udp.token + 1}
  <2> HIDE DEF begun
  <2> QED BY <1>2, StartReceivingFields DEF SameLoops, SameStates
<1>4. \/ ~udp.open /\ udp' = [udp EXCEPT !.binding = "no"] /\ sends' = sends
      \/ /\ udp.open /\ udp' = RunConnect([bound EXCEPT !.queue = <<>>], bound.queue)
         /\ \E how \in [Messages -> {"lookup", "host"}] :
              sends' = [m \in Messages |->
                           IF Contains(bound.queue, m) THEN how[m] ELSE sends[m]]
      \/ udp.open /\ udp' = Closed(bound) /\ sends' = SendsLost(bound)
      \/ /\ udp' = [LoseQueue(udp) EXCEPT !.bindState = "unbound", !.binding = "no"]
         /\ sends' = SendsLost(udp)
  BY DEF BindSettles
<1> HIDE DEF bound
<1>5. CASE ~udp.open /\ udp' = [udp EXCEPT !.binding = "no"] /\ sends' = sends
  <2>1. /\ udp' \in Udp /\ SameLoops(udp, udp') /\ ~udp'.open
        /\ udp'.bindState = udp.bindState
    BY <1>1, <1>5 DEF Udp, SameLoops
  <2>2. DatagramTypeOK'
    BY <1>1, <1>5, <2>1, TypeIsUdp DEF DatagramIInv
  <2>3. LoopsOK' /\ HeardOK'
    BY <1>1, <1>5, <2>1, LoopChanges DEF DatagramIInv, SameLoops, LoopsOK, Udp
  <2>4. StatesOK' /\ HearsOrConnects' /\ BoundFirst'
    BY <1>5, <2>1 DEF DatagramIInv, StatesOK, HearsOrConnects, BoundFirst
  <2> QED BY <2>2, <2>3, <2>4 DEF DatagramIInv
<1>6. ASSUME udp.open, udp' = RunConnect([bound EXCEPT !.queue = <<>>], bound.queue),
             NEW how \in [Messages -> {"lookup", "host"}],
             sends' = [m \in Messages |->
                          IF Contains(bound.queue, m) THEN how[m] ELSE sends[m]]
      PROVE  DatagramIInv'
  <2> DEFINE emptied == [bound EXCEPT !.queue = <<>>]
  <2>1. /\ emptied \in Udp /\ emptied.open /\ emptied.bindState = "bound"
        /\ emptied.binding = "no" /\ emptied.connectState = udp.connectState
        /\ emptied.connecting = udp.connecting /\ emptied.queue = <<>>
        /\ emptied.token = udp.token + 1 /\ emptied.heard = udp.heard
        /\ emptied.loops = udp.loops \cup {udp.token + 1}
    <3>1. <<>> \in Seq(Messages \cup {"connect"})
      OBVIOUS
    <3> QED BY <1>3, <1>6, <3>1 DEF Udp
  <2>2. udp' = IF Contains(udp.queue, "connect") THEN StartConnect(emptied) ELSE emptied
    BY <1>3, <1>6 DEF RunConnect
  <2> HIDE DEF emptied
  <2>3. /\ StartConnect(emptied) \in Udp /\ SameStates(emptied, StartConnect(emptied))
        /\ StartConnect(emptied).connecting = "host"
        /\ StartConnect(emptied).token = emptied.token + 1
        /\ StartConnect(emptied).loops = emptied.loops
        /\ StartConnect(emptied).heard = emptied.heard
    BY <2>1, StartConnectFields
  <2>4. /\ udp' \in Udp /\ udp'.open /\ udp'.bindState = "bound" /\ udp'.binding = "no"
        /\ udp'.connectState = udp.connectState /\ udp'.queue = <<>>
        /\ udp'.heard = udp.heard /\ udp'.loops = udp.loops \cup {udp.token + 1}
        /\ IF Contains(udp.queue, "connect")
           THEN udp'.connecting = "host" /\ udp'.token = emptied.token + 1
           ELSE udp'.connecting = udp.connecting /\ udp'.token = emptied.token
    BY <2>1, <2>2, <2>3 DEF SameStates
  <2>5. DatagramTypeOK'
    BY <1>1, <1>6, <2>4, TypeIsUdp DEF DatagramIInv, SendStates
  <2>6. LoopsOK' /\ HeardOK'
    BY <1>1, <2>1, <2>4, LoopChanges DEF Udp, LoopsOK
  <2>7. StatesOK' /\ BoundFirst'
    BY <1>6, <2>4, NothingWaits DEF DatagramIInv, StatesOK, BoundFirst
  <2>8. HearsOrConnects'
    BY <2>1, <2>4 DEF HearsOrConnects
  <2> QED BY <2>5, <2>6, <2>7, <2>8 DEF DatagramIInv
<1>7. CASE udp.open /\ udp' = Closed(bound) /\ sends' = SendsLost(bound)
  BY <1>1, <1>3, <1>7, ClosedStep
<1>8. CASE /\ udp' = [LoseQueue(udp) EXCEPT !.bindState = "unbound", !.binding = "no"]
           /\ sends' = SendsLost(udp)
  BY <1>1, <1>8, BindFailsStep
<1> QED BY <1>4, <1>5, <1>6, <1>7, <1>8

LEMMA BindLookupStep == DatagramIInv /\ BindLookup => DatagramIInv'
<1> SUFFICES ASSUME DatagramIInv, BindLookup PROVE DatagramIInv'
  OBVIOUS
<1>1. udp \in Udp /\ udp.binding = "lookup" /\ UNCHANGED <<read, connects>>
  BY TypeIsUdp DEF DatagramIInv, BindLookup
<1>2. CASE udp.open /\ udp' = [udp EXCEPT !.binding = "host"] /\ sends' = sends
  <2>1. /\ udp' \in Udp /\ SameLoops(udp, udp') /\ (udp'.open <=> udp.open)
        /\ udp'.bindState = udp.bindState /\ udp'.binding = "host"
        /\ udp'.connectState = udp.connectState /\ udp'.connecting = udp.connecting
        /\ udp'.queue = udp.queue
    BY <1>1, <1>2 DEF Udp, SameLoops
  <2>2. DatagramTypeOK'
    BY <1>1, <1>2, <2>1, TypeIsUdp DEF DatagramIInv
  <2>3. LoopsOK' /\ HeardOK'
    BY <1>1, <1>2, <2>1, LoopChanges DEF DatagramIInv, SameLoops, LoopsOK, Udp
  <2>4. StatesOK' /\ HearsOrConnects' /\ BoundFirst'
    BY <1>1, <1>2, <2>1
    DEF DatagramIInv, StatesOK, HearsOrConnects, BoundFirst, SameLoops
  <2> QED BY <2>2, <2>3, <2>4 DEF DatagramIInv
<1>3. CASE /\ udp' = [LoseQueue(udp) EXCEPT !.bindState = "unbound", !.binding = "no"]
           /\ sends' = SendsLost(udp)
  BY <1>1, <1>3, BindFailsStep
<1> QED BY <1>2, <1>3 DEF BindLookup

LEMMA ConnectLookupStep == DatagramIInv /\ ConnectLookup => DatagramIInv'
<1> SUFFICES ASSUME DatagramIInv, ConnectLookup PROVE DatagramIInv'
  OBVIOUS
<1>1. /\ udp \in Udp /\ udp.connecting = "lookup" /\ connects \in 0..MaxConnects
      /\ UNCHANGED <<sends, read, connects>>
  BY TypeIsUdp DEF DatagramIInv, ConnectLookup
<1>2. CASE udp' = ConnectOrQueue(udp)
  BY <1>1, <1>2, ConnectOrQueueStep DEF DatagramIInv, StatesOK, SameLoops
<1>3. CASE udp' = [udp EXCEPT !.connecting = "no", !.connectState = "disconnected"]
  <2>1. /\ udp' \in Udp /\ SameLoops(udp, udp') /\ (udp'.open <=> udp.open)
        /\ udp'.bindState = udp.bindState /\ udp'.binding = udp.binding
        /\ udp'.connectState = "disconnected" /\ udp'.connecting = "no"
        /\ udp'.queue = udp.queue
    BY <1>1, <1>3 DEF Udp, SameLoops
  <2>2. DatagramTypeOK'
    BY <1>1, <2>1, TypeIsUdp DEF DatagramIInv
  <2>3. LoopsOK' /\ HeardOK'
    BY <1>1, <2>1, LoopChanges DEF DatagramIInv, SameLoops, LoopsOK, Udp
  <2>4. StatesOK' /\ HearsOrConnects' /\ BoundFirst'
    BY <1>1, <2>1 DEF DatagramIInv, StatesOK, HearsOrConnects, BoundFirst, SameLoops
  <2> QED BY <2>2, <2>3, <2>4 DEF DatagramIInv
<1> QED BY <1>2, <1>3 DEF ConnectLookup

LEMMA ConnectSettledStep == DatagramIInv /\ ConnectSettled => DatagramIInv'
<1> SUFFICES ASSUME DatagramIInv, ConnectSettled PROVE DatagramIInv'
  OBVIOUS
<1> DEFINE joined == [udp EXCEPT !.connecting = "no", !.connectState = "connected"]
<1>1. /\ udp \in Udp /\ udp.connecting = "host" /\ UNCHANGED <<sends, read, connects>>
  BY TypeIsUdp DEF DatagramIInv, ConnectSettled
<1>2. udp.open => udp.bindState = "bound" /\ udp.binding = "no" /\ udp.queue = <<>>
  BY <1>1 DEF DatagramIInv, StatesOK, BoundFirst
<1>3. CASE udp' = StartReceiving(joined)
  <2>1. /\ joined \in Udp /\ SameLoops(udp, joined) /\ (joined.open <=> udp.open)
        /\ joined.bindState = udp.bindState /\ joined.binding = udp.binding
        /\ joined.connectState = "connected" /\ joined.connecting = "no"
        /\ joined.queue = udp.queue
    BY <1>1 DEF Udp, SameLoops
  <2> HIDE DEF joined
  <2>2. /\ udp' \in Udp /\ SameStates(joined, udp') /\ udp'.connecting = "no"
        /\ udp'.token = udp.token + 1 /\ udp'.heard = udp.heard
        /\ udp'.loops = IF udp.open THEN udp.loops \cup {udp.token + 1} ELSE udp.loops
    BY <1>3, <2>1, StartReceivingFields DEF SameLoops
  <2>3. DatagramTypeOK'
    BY <1>1, <2>2, TypeIsUdp DEF DatagramIInv
  <2>4. LoopsOK' /\ HeardOK'
    BY <1>1, <2>1, <2>2, LoopsAreFinite, LoopChanges DEF Udp, DatagramIInv, LoopsOK, SameStates
  <2>5. StatesOK' /\ HearsOrConnects' /\ BoundFirst'
    BY <1>2, <2>1, <2>2, NothingWaits
    DEF DatagramIInv, StatesOK, HearsOrConnects, BoundFirst, SameStates
  <2> QED BY <2>3, <2>4, <2>5 DEF DatagramIInv
<1>4. CASE udp' = [udp EXCEPT !.connecting = "no", !.connectState = "disconnected",
                              !.deaf = TRUE]
  <2>1. /\ udp' \in Udp /\ udp'.loops = udp.loops /\ udp'.token = udp.token
        /\ udp'.heard = udp.heard /\ (udp'.open <=> udp.open) /\ udp'.deaf
        /\ udp'.bindState = udp.bindState /\ udp'.binding = udp.binding
        /\ udp'.connectState = "disconnected" /\ udp'.connecting = "no"
        /\ udp'.queue = udp.queue
    BY <1>1, <1>4 DEF Udp
  <2>2. DatagramTypeOK'
    BY <1>1, <2>1, TypeIsUdp DEF DatagramIInv
  <2>3. LoopsOK' /\ HeardOK'
    BY <1>1, <2>1, LoopChanges DEF DatagramIInv, LoopsOK, Udp
  <2>4. StatesOK' /\ HearsOrConnects' /\ BoundFirst'
    BY <1>2, <2>1, NothingWaits DEF DatagramIInv, StatesOK, HearsOrConnects, BoundFirst
  <2> QED BY <2>2, <2>3, <2>4 DEF DatagramIInv
<1>5. \/ udp' = StartReceiving([[udp EXCEPT !.connecting = "no"]
                                EXCEPT !.connectState = "connected"])
      \/ udp' = [[udp EXCEPT !.connecting = "no"]
                 EXCEPT !.connectState = "disconnected", !.deaf = TRUE]
  BY DEF ConnectSettled
<1> QED
  BY <1>1, <1>3, <1>4, <1>5 DEF Udp

LEMMA SendGoesOnStep ==
    ASSUME NEW m \in Messages, DatagramIInv, SendGoesOn(m) PROVE DatagramIInv'
BY TypeIsUdp DEF DatagramIInv, SendGoesOn, SendStates, LoopsOK, StatesOK, HearsOrConnects, HeardOK,
   HeardInOrder, BoundFirst

\* A loop that ends gives its token back.
LEMMA OldLoopEnds ==
    ASSUME DatagramTypeOK, LoopsOK, NEW t \in udp.loops
    PROVE  /\ Cardinality(udp.loops \ {t}) = Cardinality(udp.loops) - 1
           /\ Cardinality(udp.loops) \in Nat /\ udp.token \in Nat
BY LoopsAreFinite, FS_RemoveElement

LEMMA ItemsOf ==
    ASSUME NEW S, NEW q \in Seq(S)
    PROVE  /\ Len(q) \in Nat /\ DOMAIN q = 1..Len(q)
           /\ \A i \in 1..Len(q) : q[i] \in S
OBVIOUS

LEMMA HeardSoFar ==
    ASSUME DatagramIInv
    PROVE  /\ Len(udp.heard) \in Nat /\ DOMAIN udp.heard = 1..Len(udp.heard)
           /\ read \in Nat /\ udp.heard \in Seq(1..Arrivals)
           /\ \A i \in 1..Len(udp.heard) : udp.heard[i] \in Nat /\ udp.heard[i] <= read
           /\ \A i, j \in 1..Len(udp.heard) : i < j => udp.heard[i] < udp.heard[j]
           /\ read - Len(udp.heard) <= udp.token - Cardinality(udp.loops)
BY TypeIsUdp, DatagramAssumption, ItemsOf DEF DatagramIInv, Udp, HeardOK, HeardInOrder

LEMMA ReceivedStep ==
    ASSUME NEW t \in udp.loops, DatagramIInv, Received(t) PROVE DatagramIInv'
<1>1. /\ udp \in Udp /\ read \in 0..Arrivals /\ read' = read + 1 /\ read < Arrivals
      /\ UNCHANGED <<sends, connects>>
  BY TypeIsUdp DEF DatagramIInv, Received
<1>2. read' \in 1..Arrivals /\ read \in Nat /\ read' = read + 1
  BY <1>1, DatagramAssumption
<1>6. read \in Nat /\ read' = read + 1
  BY <1>2
<1> DEFINE n == read'
<1>5. n \in Nat /\ \A k \in Nat : k <= read => k < n
  BY <1>2
<1> HIDE DEF n
<1>3. CASE t = udp.token
  <2> DEFINE h == Append(udp.heard, read')
  <2>1. udp.heard \in Seq(1..Arrivals)
    BY <1>1 DEF Udp
  <2>2. /\ h \in Seq(1..Arrivals) /\ Len(h) = Len(udp.heard) + 1 /\ Len(udp.heard) \in Nat
        /\ \A i \in 1..Len(udp.heard) : h[i] = udp.heard[i]
        /\ h[Len(udp.heard) + 1] = read' /\ DOMAIN h = 1..Len(udp.heard) + 1
        /\ DOMAIN udp.heard = 1..Len(udp.heard)
    BY <1>2, <2>1
  <2>3. udp' = [udp EXCEPT !.heard = h]
    BY <1>3 DEF Received
  <2> HIDE DEF h
  <2>4. /\ udp' \in Udp /\ SameStates(udp, udp') /\ udp'.connecting = udp.connecting
        /\ udp'.token = udp.token /\ udp'.loops = udp.loops /\ udp'.deaf = udp.deaf
        /\ udp'.heard = h
    BY <1>1, <2>2, <2>3 DEF Udp, SameStates
  <2>5. DatagramTypeOK'
    BY <1>1, <1>2, <2>4, TypeIsUdp DEF DatagramIInv
  <2>6. LoopsOK' /\ StatesOK' /\ HearsOrConnects' /\ BoundFirst'
    BY <1>1, <2>4
    DEF DatagramIInv, LoopsOK, StatesOK, HearsOrConnects, BoundFirst, SameStates
  <2>7. \A i \in DOMAIN h : h[i] <= read'
    <3> SUFFICES ASSUME NEW i \in 1..Len(udp.heard) + 1 PROVE h[i] <= read'
      BY <2>2
    <3>1. CASE i = Len(udp.heard) + 1
      BY <1>2, <2>2, <3>1
    <3>2. CASE i \in 1..Len(udp.heard)
      BY <1>5, <2>2, <3>2, HeardSoFar DEF n
    <3> QED BY <2>2, <3>1, <3>2
  <2>8. \A i, j \in DOMAIN h : i < j => h[i] < h[j]
    <3> SUFFICES ASSUME NEW i \in 1..Len(udp.heard) + 1, NEW j \in 1..Len(udp.heard) + 1,
                        i < j
                 PROVE  h[i] < h[j]
      BY <2>2
    <3>1. i \in 1..Len(udp.heard) /\ h[i] = udp.heard[i]
      BY <2>2
    <3>2. CASE j = Len(udp.heard) + 1
      BY <1>5, <2>2, <3>1, <3>2, HeardSoFar DEF n
    <3>3. CASE j \in 1..Len(udp.heard)
      BY <2>2, <3>1, <3>3, HeardSoFar
    <3> QED BY <2>2, <3>2, <3>3
  <2>9. read' - Len(h) <= udp.token - Cardinality(udp.loops)
    <3> DEFINE got == Len(udp.heard)
               k == udp.token
               c == Cardinality(udp.loops)
    <3>1. c \in Nat /\ k \in Nat
      BY LoopsAreFinite DEF DatagramIInv
    <3>2. got \in Nat /\ Len(h) = got + 1 /\ read - got <= k - c
      BY <2>2, HeardSoFar
    <3> HIDE DEF got, k, c
    <3>3. read' - Len(h) <= k - c
      BY <1>6, <3>1, <3>2
    <3> QED BY <3>3 DEF k, c
  <2>10. HeardOK'
    BY <2>4, <2>7, <2>8, <2>9 DEF HeardOK, HeardInOrder
  <2> QED BY <2>5, <2>6, <2>10 DEF DatagramIInv
<1>4. CASE t # udp.token
  <2> DEFINE l == udp.loops \ {t}
  <2>1. udp' = [udp EXCEPT !.loops = l]
    BY <1>4 DEF Received
  <2>2. l \in SUBSET Nat /\ l \subseteq udp.loops
    BY <1>1 DEF Udp
  <2>3. udp.token \in udp.loops => udp.token \in l
    BY <1>4
  <2>4. /\ Cardinality(l) = Cardinality(udp.loops) - 1
        /\ Cardinality(udp.loops) \in Nat /\ udp.token \in Nat
    BY OldLoopEnds DEF DatagramIInv
  <2> HIDE DEF l
  <2>5. /\ udp' \in Udp /\ SameStates(udp, udp') /\ udp'.connecting = udp.connecting
        /\ udp'.token = udp.token /\ udp'.loops = l /\ udp'.deaf = udp.deaf
        /\ udp'.heard = udp.heard
    BY <1>1, <2>1, <2>2 DEF Udp, SameStates
  <2>6. DatagramTypeOK'
    BY <1>1, <1>2, <2>5, TypeIsUdp DEF DatagramIInv
  <2>7. LoopsOK' /\ StatesOK' /\ HearsOrConnects' /\ BoundFirst'
    BY <1>1, <2>2, <2>3, <2>5
    DEF DatagramIInv, LoopsOK, StatesOK, HearsOrConnects, BoundFirst, SameStates
  <2>8. \A i \in DOMAIN udp.heard : udp.heard[i] <= read'
    <3> SUFFICES ASSUME NEW i \in DOMAIN udp.heard PROVE udp.heard[i] <= read'
      OBVIOUS
    <3>1. udp.heard[i] \in Nat /\ udp.heard[i] <= read
      BY HeardSoFar
    <3> QED BY <1>5, <3>1 DEF n
  <2>9. read' - Len(udp.heard) <= udp.token - Cardinality(l)
    <3> DEFINE got == Len(udp.heard)
               k == udp.token
               c == Cardinality(udp.loops)
    <3>1. got \in Nat /\ read - got <= k - c
      BY HeardSoFar
    <3>2. c \in Nat /\ k \in Nat /\ Cardinality(l) = c - 1
      BY <2>4
    <3> HIDE DEF got, k, c
    <3>3. read' - got <= k - Cardinality(l)
      BY <1>6, <3>1, <3>2
    <3> QED BY <3>3 DEF got, k
  <2>10. HeardOK'
    BY <2>5, <2>8, <2>9 DEF DatagramIInv, HeardOK, HeardInOrder
  <2> QED BY <2>6, <2>7, <2>10 DEF DatagramIInv
<1> QED BY <1>3, <1>4

LEMMA ReceiveFailsStep ==
    ASSUME NEW t \in udp.loops, DatagramIInv, ReceiveFails(t) PROVE DatagramIInv'
<1> DEFINE l == udp.loops \ {t}
           d == udp.deaf \/ t = udp.token
<1>1. udp \in Udp /\ read \in 0..Arrivals /\ UNCHANGED <<sends, read, connects>>
  BY TypeIsUdp DEF DatagramIInv, ReceiveFails
<1>2. udp' = [udp EXCEPT !.loops = l, !.deaf = d]
  BY DEF ReceiveFails
<1>3. l \in SUBSET Nat /\ l \subseteq udp.loops /\ d \in BOOLEAN
  BY <1>1 DEF Udp
<1>4. udp.token \in udp.loops /\ ~d => udp.token \in l
  OBVIOUS
<1>5. ~d => ~udp.deaf
  OBVIOUS
<1>6. /\ Cardinality(l) = Cardinality(udp.loops) - 1
      /\ Cardinality(udp.loops) \in Nat /\ udp.token \in Nat
  BY OldLoopEnds DEF DatagramIInv
<1> HIDE DEF l, d
<1>7. /\ udp' \in Udp /\ SameStates(udp, udp') /\ udp'.connecting = udp.connecting
      /\ udp'.token = udp.token /\ udp'.loops = l /\ udp'.deaf = d
      /\ udp'.heard = udp.heard
  BY <1>1, <1>2, <1>3 DEF Udp, SameStates
<1>8. DatagramTypeOK'
  BY <1>1, <1>7, TypeIsUdp DEF DatagramIInv
<1>9. LoopsOK' /\ StatesOK' /\ HearsOrConnects' /\ BoundFirst'
  BY <1>1, <1>3, <1>4, <1>5, <1>7
  DEF DatagramIInv, LoopsOK, StatesOK, HearsOrConnects, BoundFirst, SameStates
<1>10. HeardOK'
  BY <1>1, <1>6, <1>7, HeardSoFar DEF DatagramIInv, HeardOK, HeardInOrder
<1> QED BY <1>8, <1>9, <1>10 DEF DatagramIInv

-----------------------------------------------------------------------------
(* A datagram socket: the theorems *)

LEMMA DatagramStarts == DatagramInit => DatagramIInv
<1> SUFFICES ASSUME DatagramInit PROVE DatagramIInv
  OBVIOUS
<1>1. /\ udp.open /\ udp.bindState = "unbound" /\ udp.binding = "no"
      /\ udp.connectState = "disconnected" /\ udp.connecting = "no" /\ udp.queue = <<>>
      /\ udp.token = 0 /\ udp.loops = {} /\ udp.heard = <<>> /\ read = 0
      /\ sends = [m \in Messages |-> "new"] /\ connects = 0
  BY DEF DatagramInit
<1>2. DatagramTypeOK
  BY <1>1, TypeIsUdp, DatagramAssumption DEF DatagramInit, Udp, SendStates
<1>3. LoopsOK /\ StatesOK /\ HearsOrConnects /\ BoundFirst
  BY <1>1, NothingWaits DEF LoopsOK, StatesOK, HearsOrConnects, BoundFirst
<1>4. HeardOK
  BY <1>1, FS_EmptySet DEF HeardOK, HeardInOrder
<1> QED BY <1>2, <1>3, <1>4 DEF DatagramIInv

LEMMA DatagramStep == DatagramIInv /\ [DatagramNext]_DatagramVars => DatagramIInv'
<1> SUFFICES ASSUME DatagramIInv, [DatagramNext]_DatagramVars PROVE DatagramIInv'
  OBVIOUS
<1>1. CASE Bind
  BY <1>1, BindStep
<1>2. CASE ConnectUdp
  BY <1>2, ConnectUdpStep
<1>3. CASE Disconnect
  BY <1>3, DisconnectStep
<1>4. CASE CloseUdp
  BY <1>4, CloseStep
<1>5. CASE DatagramRuns
  BY <1>5, BindSettlesStep, BindLookupStep, ConnectLookupStep, ConnectSettledStep,
     SendGoesOnStep DEF DatagramRuns
<1>6. CASE \E m \in Messages : Send(m)
  BY <1>6, SendStep
<1>7. CASE \E t \in udp.loops : Received(t) \/ ReceiveFails(t)
  BY <1>7, ReceivedStep, ReceiveFailsStep
<1>8. CASE UNCHANGED DatagramVars
  BY <1>8 DEF DatagramVars, DatagramIInv, DatagramTypeOK, LoopsOK, StatesOK, HearsOrConnects,
              BoundFirst, HeardOK, HeardInOrder
<1> QED BY <1>1, <1>2, <1>3, <1>4, <1>5, <1>6, <1>7, <1>8 DEF DatagramNext

LEMMA DatagramImplied ==
  DatagramIInv => DatagramInv
<1> SUFFICES ASSUME DatagramIInv PROVE DatagramInv
  OBVIOUS
<1>1. ListensWhileBound
  BY DEF DatagramIInv, StatesOK, HearsOrConnects, ListensWhileBound
<1>2. QueueIsRun
  BY DEF DatagramIInv, StatesOK, QueueIsRun
<1> QED BY <1>1, <1>2 DEF DatagramIInv, DatagramInv, HeardOK

\* For any number of datagrams, of sends and of connects: a bound socket listens, what comes
\* is handed out in order, a change of loops costs one datagram at most, nothing is sent
\* before the bind, and a queue has a bind to run it (dgram.js, _startReceiving, _enqueue).
THEOREM DatagramIsSafe == DatagramSpec => []DatagramInv
  BY DatagramImplied, DatagramStarts, DatagramStep, PTL DEF DatagramSpec

\* A socket that is closed hears nothing more, and does not come to listen.
LEMMA ClosedIsQuiet ==
  DatagramIInv /\ [DatagramNext]_DatagramVars =>
    [~udp.open => udp'.heard = udp.heard /\ udp'.listening = udp.listening]_DatagramVars
<1> SUFFICES ASSUME DatagramIInv, DatagramNext, ~udp.open
             PROVE  udp'.heard = udp.heard /\ udp'.listening = udp.listening
  BY DEF DatagramVars
<1>1. udp \in Udp /\ udp.token \notin udp.loops /\ udp.bindState # "bound"
  BY TypeIsUdp DEF DatagramIInv, LoopsOK, StatesOK
<1>2. ~Bind /\ ~ConnectUdp /\ ~Disconnect /\ ~CloseUdp /\ \A m \in Messages : ~Send(m)
  BY DEF Bind, ConnectUdp, Disconnect, CloseUdp, Send
<1>3. CASE BindSettles \/ BindLookup
  <2>1. \/ udp' = [udp EXCEPT !.binding = "no"]
        \/ udp' = [LoseQueue(udp) EXCEPT !.bindState = "unbound", !.binding = "no"]
    BY <1>3 DEF BindSettles, BindLookup
  <2>2. /\ LoseQueue(udp) \in Udp /\ LoseQueue(udp).heard = udp.heard
        /\ LoseQueue(udp).listening = udp.listening
    BY <1>1, LoseQueueFields DEF SameLoops, Udp
  <2>3. CASE udp' = [udp EXCEPT !.binding = "no"]
    BY <1>1, <2>3 DEF Udp
  <2>4. CASE udp' = [LoseQueue(udp) EXCEPT !.bindState = "unbound", !.binding = "no"]
    BY <2>2, <2>4 DEF Udp
  <2> QED BY <2>1, <2>3, <2>4
<1>4. CASE ConnectLookup
  <2>1. \/ udp' = ConnectOrQueue(udp)
        \/ udp' = [udp EXCEPT !.connecting = "no", !.connectState = "disconnected"]
    BY <1>4 DEF ConnectLookup
  <2>2. /\ ConnectOrQueue(udp) \in Udp /\ ConnectOrQueue(udp).heard = udp.heard
        /\ ConnectOrQueue(udp).listening <=> udp.listening
    BY <1>1, ConnectOrQueueFields
  <2>3. ConnectOrQueue(udp).listening = udp.listening
    BY <1>1, <2>2 DEF Udp
  <2> QED BY <1>1, <2>1, <2>2, <2>3 DEF Udp
<1>5. CASE ConnectSettled
  <2> DEFINE joined == [udp EXCEPT !.connecting = "no", !.connectState = "connected"]
  <2>1. /\ joined \in Udp /\ joined.heard = udp.heard
        /\ joined.listening = udp.listening
    BY <1>1 DEF Udp
  <2>2. \/ udp' = StartReceiving(joined)
        \/ udp' = [udp EXCEPT !.connecting = "no", !.connectState = "disconnected",
                              !.deaf = TRUE]
    BY <1>1, <1>5 DEF ConnectSettled, Udp
  <2> HIDE DEF joined
  <2>3. /\ StartReceiving(joined) \in Udp /\ StartReceiving(joined).heard = joined.heard
        /\ StartReceiving(joined).listening = joined.listening
    BY <2>1, StartReceivingFields DEF Udp
  <2>4. CASE udp' = StartReceiving(joined)
    BY <2>1, <2>3, <2>4
  <2>5. CASE udp' = [udp EXCEPT !.connecting = "no", !.connectState = "disconnected",
                                !.deaf = TRUE]
    BY <1>1, <2>5 DEF Udp
  <2> QED BY <2>2, <2>4, <2>5
<1>6. CASE \E m \in Messages : SendGoesOn(m)
  BY <1>6 DEF SendGoesOn
<1>7. CASE \E t \in udp.loops : Received(t) \/ ReceiveFails(t)
  BY <1>1, <1>7 DEF Received, ReceiveFails, Udp
<1> QED BY <1>2, <1>3, <1>4, <1>5, <1>6, <1>7 DEF DatagramNext, DatagramRuns

\* After close() an old loop hands out nothing and a late bind is not announced, in whatever
\* order reads, lookups and the host's answers come (dgram.js, close and _startReceiving).
THEOREM QuietAfterCloseHolds == DatagramSpec => QuietAfterClose
  BY ClosedIsQuiet, DatagramStarts, DatagramStep, PTL DEF DatagramSpec, QuietAfterClose

-----------------------------------------------------------------------------
(* The agent: its counts, its queues and its sockets *)

\* Of these requests, those of a host
At(S, n) == {r \in S : host[r] = n}

\* The counts are those of the requests that run, until agent.destroy() forgets some.
CountsOf(S, count, forgot) ==
    /\ count \in [Names -> Nat]
    /\ \A n \in Names : count[n] <= MaxSockets /\ count[n] <= Cardinality(At(S, n))
    /\ Total(count) <= MaxTotalSockets
    /\ ~forgot => Total(count) = Cardinality(S) /\ \A n \in Names : count[n] = Cardinality(At(S, n))
CountsMatch == CountsOf(Running, activeCount, destroyedAgent)

Distinct(q) == \A i, j \in 1..Len(q) : q[i] = q[j] => i = j

\* Those that wait for their turn do so once.
LinesOK ==
    /\ requestQueue \in [Names -> Seq(Calls)]
    /\ \A n \in Names : Distinct(requestQueue[n])
    /\ \A n \in Names : ToSet(requestQueue[n]) \subseteq {r \in Calls : phase[r] = "queued" /\ host[r] = n}
    /\ NoIdleSlot

\* The requests that use a socket
Using == {r \in Calls : phase[r] \in {"finishing", "waiting"}}

\* A request has the socket it made, or one that another request of its host made.
MineOK ==
    /\ phase \in [Calls -> Phases] /\ host \in Hosts
    /\ gone \subseteq Calls /\ mine \in [Calls -> Sockets \cup {NoSocket}]
    /\ \A r \in Calls : phase[r] \in {"new", "queued", "flushing"} => mine[r] = NoSocket
    /\ \A r \in Using : mine[r] # NoSocket
    /\ \A r \in Calls : mine[r] # NoSocket => host[mine[r]] = host[r] /\ mine[mine[r]] = mine[r]
    /\ \A q, r \in Using : mine[q] = mine[r] => q = r

\* A socket is in one list at most, once, and only a request that left it inside its
\* 'response' has one in the list of those in use.
PoolOK ==
    /\ free \in [Names -> Seq(Sockets)] /\ used \in [Names -> Seq(Sockets)]
    /\ dead \subseteq Sockets /\ dying \subseteq dead /\ leaked \subseteq Sockets
    /\ \A n \in Names : Distinct(free[n]) /\ Distinct(used[n]) /\ Len(free[n]) <= MaxFreeSockets
    /\ \A n \in Names : \A s \in ToSet(free[n]) :
          mine[s] = s /\ host[s] = n /\ s \notin leaked /\ \A r \in Using : mine[r] # s
    /\ \A n \in Names : \A s \in ToSet(used[n]) :
          mine[s] = s /\ host[s] = n /\ (s \in leaked \/ \E r \in Using : mine[r] = s)
    /\ \A s \in leaked : mine[s] = s /\ \A r \in Using : mine[r] # s

AgentIInv == CountsMatch /\ LinesOK /\ MineOK /\ PoolOK /\ destroyedAgent \in BOOLEAN

-----------------------------------------------------------------------------
(* Lists *)

LEMMA ListGrows ==
  ASSUME NEW T, NEW q \in Seq(T), NEW x \in T, Distinct(q), x \notin ToSet(q)
  PROVE  /\ Append(q, x) \in Seq(T) /\ Distinct(Append(q, x))
         /\ ToSet(Append(q, x)) = ToSet(q) \cup {x}
<1> DEFINE n == Len(q)
           a == Append(q, x)
<1>1. n \in Nat /\ a \in Seq(T) /\ Len(a) = n + 1 /\ a[n + 1] = x /\ \A i \in 1..n : a[i] = q[i]
  OBVIOUS
<1>2. \A i \in 1..n : q[i] # x
  BY DEF ToSet
<1>3. DOMAIN a = 1..n + 1 /\ DOMAIN q = 1..n
  BY <1>1
<1> HIDE DEF a
<1>4. Distinct(a)
  <2>1. \A i, j \in 1..n : q[i] = q[j] => i = j
    BY DEF Distinct
  <2> HIDE DEF n
  <2> QED BY <1>1, <1>2, <2>1 DEF Distinct
<1>5. ToSet(a) = ToSet(q) \cup {x}
  <2> HIDE DEF n
  <2>1. 1..n + 1 = 1..n \cup {n + 1}
    BY <1>1
  <2> QED BY <1>1, <1>3, <2>1 DEF ToSet
<1> QED BY <1>1, <1>4, <1>5 DEF a

LEMMA ListShrinks ==
  ASSUME NEW T, NEW q \in Seq(T), q # <<>>, Distinct(q)
  PROVE  /\ Head(q) \in ToSet(q) /\ Tail(q) \in Seq(T) /\ Distinct(Tail(q))
         /\ ToSet(Tail(q)) = ToSet(q) \ {Head(q)}
<1> DEFINE n == Len(q)
           t == Tail(q)
           h == Head(q)
<1>1. n \in Nat \ {0} /\ h = q[1] /\ t \in Seq(T) /\ Len(t) = n - 1
  OBVIOUS
<1>2. \A i \in 1..n - 1 : t[i] = q[i + 1]
  OBVIOUS
<1>3. DOMAIN t = 1..n - 1 /\ DOMAIN q = 1..n
  BY <1>1
<1>4. \A i, j \in 1..n : q[i] = q[j] => i = j
  BY DEF Distinct
<1> HIDE DEF t, n, h
<1>5. Distinct(t)
  BY <1>1, <1>2, <1>4 DEF Distinct
<1>6. \A x \in ToSet(t) : x \in ToSet(q) /\ x # h
  <2>1. TAKE x \in ToSet(t)
  <2>2. PICK i \in 1..n - 1 : x = t[i]
    BY <1>3 DEF ToSet
  <2>3. i + 1 \in 1..n /\ 1 \in 1..n /\ i + 1 # 1 /\ x = q[i + 1]
    BY <1>1, <1>2, <2>2
  <2>4. q[i + 1] # q[1]
    BY <1>4, <2>3
  <2> QED BY <1>1, <1>3, <2>3, <2>4 DEF ToSet
<1>7. \A x \in ToSet(q) : x # h => x \in ToSet(t)
  <2>1. SUFFICES ASSUME NEW x \in ToSet(q), x # h PROVE x \in ToSet(t)
    OBVIOUS
  <2>2. PICK i \in 1..n : x = q[i]
    BY <1>3 DEF ToSet
  <2>3. i # 1
    BY <2>1, <2>2, <1>1
  <2>4. i - 1 \in 1..n - 1 /\ (i - 1) + 1 = i
    BY <2>2, <2>3, <1>1
  <2>5. x = t[i - 1]
    BY <2>4, <2>2, <1>2
  <2> QED BY <2>4, <2>5, <1>3 DEF ToSet
<1>8. h \in ToSet(q)
  BY <1>1, <1>3 DEF ToSet
<1> QED BY <1>1, <1>5, <1>6, <1>7, <1>8 DEF t, h

LEMMA Joined ==
  ASSUME NEW T, NEW u \in Seq(T), NEW v \in Seq(T)
  PROVE  /\ u \o v \in Seq(T) /\ Len(u \o v) = Len(u) + Len(v)
         /\ \A i \in 1..Len(u) + Len(v) : (u \o v)[i] = IF i <= Len(u) THEN u[i] ELSE v[i - Len(u)]
OBVIOUS

\* indexOf and splice take the one place of a socket.
LEMMA ListWithout ==
  ASSUME NEW T, NEW q \in Seq(T), NEW x, Distinct(q)
  PROVE  /\ Without(q, x) \in Seq(T) /\ Distinct(Without(q, x)) /\ Len(Without(q, x)) <= Len(q)
         /\ ToSet(Without(q, x)) = ToSet(q) \ {x}
<1>1. CASE x \notin ToSet(q)
  BY <1>1 DEF Without
<1>2. CASE x \in ToSet(q)
  <2> DEFINE n == Len(q)
             k == CHOOSE i \in DOMAIN q : q[i] = x /\ \A l \in 1..(i - 1) : q[l] # x
             w == RemoveAt(q, k)
  <2>1. n \in Nat /\ DOMAIN q = 1..n
    OBVIOUS
  <2>2. \A i, j \in 1..n : q[i] = q[j] => i = j
    BY DEF Distinct
  <2>3. k \in 1..n /\ q[k] = x
    <3>1. PICK i \in 1..n : q[i] = x
      BY <1>2, <2>1 DEF ToSet
    <3> HIDE DEF n
    <3>2. \A l \in 1..(i - 1) : l \in 1..n /\ l # i
      BY <2>1, <3>1
    <3>3. \A l \in 1..(i - 1) : q[l] # x
      BY <3>1, <3>2, <2>2
    <3> QED BY <2>1, <3>1, <3>3
  <2>4. Without(q, x) = w
    BY <1>2 DEF Without
  <2> HIDE DEF k
  <2>5. /\ w \in Seq(T) /\ Len(w) = n - 1
        /\ \A i \in 1..n - 1 : w[i] = IF i < k THEN q[i] ELSE q[i + 1]
    <3> DEFINE u == SubSeq(q, 1, k - 1)
               v == SubSeq(q, k + 1, n)
    <3>1. u \in Seq(T) /\ Len(u) = k - 1 /\ \A i \in 1..k - 1 : u[i] = q[i]
      BY <2>1, <2>3
    <3>2. v \in Seq(T) /\ Len(v) = n - k /\ \A i \in 1..n - k : v[i] = q[k + i]
      <4>1. k + 1 \in 1..n + 1 /\ k \in Nat /\ n \in Nat /\ k <= n
        BY <2>1, <2>3
      <4>2. v \in Seq(T) /\ Len(v) = n - (k + 1) + 1
        <5>1. v \in Seq(T)
          BY <4>1
        <5>2. CASE k + 1 <= n
          BY <5>2, <4>1
        <5>3. CASE k = n
          BY <4>1, <5>3
        <5> QED BY <5>1, <5>2, <5>3, <4>1
      <4>3. ASSUME NEW i \in 1..n - k PROVE v[i] = q[k + i]
        BY <4>1
      <4> QED BY <4>1, <4>2, <4>3
    <3>3. w = u \o v
      BY DEF RemoveAt
    <3> HIDE DEF u, v, w
    <3>4. w \in Seq(T) /\ Len(w) = Len(u) + Len(v)
          /\ \A i \in 1..Len(u) + Len(v) : w[i] = IF i <= Len(u) THEN u[i] ELSE v[i - Len(u)]
      BY <3>1, <3>2, <3>3, Joined
    <3> HIDE DEF n
    <3>5. (k - 1) + (n - k) = n - 1
      BY <2>1, <2>3
    <3>6. ASSUME NEW i \in 1..n - 1 PROVE w[i] = IF i < k THEN q[i] ELSE q[i + 1]
      <4>1. w[i] = IF i <= k - 1 THEN u[i] ELSE v[i - (k - 1)]
        BY <3>1, <3>2, <3>4, <3>5
      <4>2. CASE i < k
        BY <4>1, <4>2, <3>1, <2>1, <2>3
      <4>3. CASE ~(i < k)
        BY <2>1, <2>3, <3>2, <4>1, <4>3
      <4> QED BY <4>2, <4>3
    <3> QED BY <3>1, <3>2, <3>4, <3>5, <3>6
  <2>6. DOMAIN w = 1..n - 1
    BY <2>5
  <2> HIDE DEF w, n
  <2>7. \A i \in 1..n - 1 : /\ (IF i < k THEN i ELSE i + 1) \in 1..n \ {k}
                            /\ w[i] = q[IF i < k THEN i ELSE i + 1]
    BY <2>5, <2>1, <2>3
  <2>8. Distinct(w)
    <3>1. SUFFICES ASSUME NEW i \in 1..Len(w), NEW j \in 1..Len(w), w[i] = w[j] PROVE i = j
      BY DEF Distinct
    <3>2. i \in 1..n - 1 /\ j \in 1..n - 1
      BY <2>5
    <3>3. (IF i < k THEN i ELSE i + 1) = (IF j < k THEN j ELSE j + 1)
      BY <3>1, <3>2, <2>7, <2>2
    <3> QED BY <3>2, <3>3, <2>1, <2>3
  <2>9. \A y \in ToSet(w) : y \in ToSet(q) /\ y # x
    <3>1. SUFFICES ASSUME NEW y \in ToSet(w) PROVE y \in ToSet(q) /\ y # x
      OBVIOUS
    <3>2. PICK i \in 1..n - 1 : y = w[i]
      BY <2>6 DEF ToSet
    <3> DEFINE j == IF i < k THEN i ELSE i + 1
    <3>3. j \in 1..n /\ j # k /\ y = q[j]
      BY <3>2, <2>7
    <3> HIDE DEF j
    <3>4. q[j] # q[k]
      BY <3>3, <2>2, <2>3
    <3> QED BY <3>3, <3>4, <2>1, <2>3 DEF ToSet
  <2>10. \A y \in ToSet(q) : y # x => y \in ToSet(w)
    <3>1. SUFFICES ASSUME NEW y \in ToSet(q), y # x PROVE y \in ToSet(w)
      OBVIOUS
    <3>2. PICK j \in 1..n : y = q[j]
      BY <2>1 DEF ToSet
    <3> DEFINE i == IF j < k THEN j ELSE j - 1
    <3>3. i \in 1..n - 1 /\ j = IF i < k THEN i ELSE i + 1
      BY <3>1, <3>2, <2>1, <2>3
    <3> HIDE DEF i
    <3>4. w[i] = y
      BY <3>2, <3>3, <2>7
    <3> QED BY <3>3, <3>4, <2>6 DEF ToSet
  <2>11. Len(w) <= n
    BY <2>5, <2>1
  <2> QED BY <2>4, <2>5, <2>8, <2>9, <2>10, <2>11 DEF n
<1> QED BY <1>1, <1>2

-----------------------------------------------------------------------------
(* Counts *)

LEMMA RunningFinite ==
  ASSUME NEW S \in SUBSET Calls
  PROVE  IsFiniteSet(S) /\ Cardinality(S) \in Nat /\ Cardinality(S) <= Cardinality(Calls)
         /\ Cardinality(Calls) \in Nat
BY AgentAssumption, FS_Subset, FS_CardinalityType

LEMMA SlotsFinite ==
  ASSUME NEW count
  PROVE  IsFiniteSet(Slots(count)) /\ Total(count) \in Nat
<1> DEFINE all == Names \X (1..Cardinality(Calls))
<1>1. Cardinality(Calls) \in Nat
  BY RunningFinite
<1>2. IsFiniteSet(1..Cardinality(Calls)) /\ IsFiniteSet(Names)
  BY <1>1, FS_Interval, AgentAssumption
<1>3. IsFiniteSet(all)
  BY <1>2, FS_Product
<1>4. Slots(count) \in SUBSET all
  BY DEF Slots
<1>5. IsFiniteSet(Slots(count))
  BY <1>3, <1>4, FS_Subset
<1> QED BY <1>5, FS_CardinalityType DEF Total

LEMMA TotalUp ==
  ASSUME NEW count \in [Names -> Nat], NEW n \in Names, count[n] < Cardinality(Calls),
         NEW more, more = [count EXCEPT ![n] = @ + 1]
  PROVE  Total(more) = Total(count) + 1
<1> DEFINE c == Cardinality(Calls)
<1>1. c \in Nat
  BY RunningFinite
<1> HIDE DEF c
<1>2. \A m \in Names : more[m] = IF m = n THEN count[n] + 1 ELSE count[m]
  OBVIOUS
<1>3. count[n] \in Nat /\ count[n] + 1 \in 1..c
  BY <1>1 DEF c
<1>4. \A m \in Names : \A k \in 1..c : k <= more[m] <=> (k <= count[m] \/ (m = n /\ k = count[n] + 1))
  BY <1>2, <1>3
<1>5. Slots(more) = Slots(count) \cup {<<n, count[n] + 1>>}
  <2>1. \A slot \in Names \X (1..c) :
          slot \in Slots(more) <=> slot \in Slots(count) \/ slot = <<n, count[n] + 1>>
    <3>1. SUFFICES ASSUME NEW m \in Names, NEW k \in 1..c
                   PROVE  <<m, k>> \in Slots(more) <=> <<m, k>> \in Slots(count) \/ <<m, k>> = <<n, count[n] + 1>>
      <4>1. TAKE slot \in Names \X (1..c)
      <4>2. slot[1] \in Names /\ slot[2] \in 1..c /\ slot = <<slot[1], slot[2]>>
        BY <4>1
      <4> QED BY <3>1, <4>2
    <3> QED BY <3>1, <1>4 DEF Slots, c
  <2>2. <<n, count[n] + 1>> \in Names \X (1..c)
    BY <1>3
  <2>3. Slots(more) \subseteq Names \X (1..c) /\ Slots(count) \subseteq Names \X (1..c)
    BY DEF Slots, c
  <2> QED BY <2>1, <2>2, <2>3
<1>6. <<n, count[n] + 1>> \notin Slots(count)
  BY <1>3 DEF Slots
<1>7. IsFiniteSet(Slots(count))
  BY SlotsFinite
<1> QED BY <1>5, <1>6, <1>7, FS_AddElement DEF Total

\* One request fewer of a host
OneLess(count, n) == [count EXCEPT ![n] = @ - 1]

LEMMA TotalDown ==
  ASSUME NEW count \in [Names -> Nat], NEW n \in Names, count[n] <= Cardinality(Calls), count[n] > 0
  PROVE  Total(count) = Total(OneLess(count, n)) + 1
<1> DEFINE less == OneLess(count, n)
<1> USE DEF OneLess
<1>1. Cardinality(Calls) \in Nat
  BY RunningFinite
<1>2. less \in [Names -> Nat] /\ less[n] = count[n] - 1 /\ count[n] \in Nat
  OBVIOUS
<1>3. count = [less EXCEPT ![n] = @ + 1]
  <2>1. \A m \in Names : count[m] = [less EXCEPT ![n] = @ + 1][m]
    BY <1>2
  <2> QED BY <1>2, <2>1
<1>4. less[n] < Cardinality(Calls)
  BY <1>1, <1>2
<1> HIDE DEF less
<1>5. Total(count) = Total(less) + 1
  BY <1>2, <1>3, <1>4, TotalUp
<1> QED BY <1>5 DEF less

LEMMA SlotsGrow ==
  ASSUME NEW count \in [Names -> Nat], NEW more \in [Names -> Nat],
         \A n \in Names : count[n] <= more[n]
  PROVE  Total(count) <= Total(more)
<1>1. Slots(count) \subseteq Slots(more)
  <2>1. SUFFICES ASSUME NEW m \in Names, NEW k \in 1..Cardinality(Calls), k <= count[m] PROVE k <= more[m]
    BY DEF Slots
  <2>2. k \in Nat /\ count[m] \in Nat /\ more[m] \in Nat /\ count[m] <= more[m]
    BY RunningFinite
  <2> QED BY <2>1, <2>2
<1> QED BY <1>1, SlotsFinite, FS_Subset DEF Total

LEMMA AtGrows ==
  ASSUME NEW S \in SUBSET Calls, NEW r \in Calls \ S, host \in [Calls -> Names]
  PROVE  /\ Cardinality(S \cup {r}) = Cardinality(S) + 1
         /\ Cardinality(At(S \cup {r}, host[r])) = Cardinality(At(S, host[r])) + 1
         /\ \A n \in Names \ {host[r]} : At(S \cup {r}, n) = At(S, n)
         /\ \A n \in Names : Cardinality(At(S, n)) \in Nat /\ Cardinality(S) \in Nat
         /\ \A n \in Names : Cardinality(At(S, n)) <= Cardinality(Calls)
         /\ Cardinality(At(S, host[r])) < Cardinality(Calls)
BY RunningFinite, FS_AddElement DEF At

\* One request more of a host
OneMore(count, n) == [count EXCEPT ![n] = @ + 1]

\* A request that may run takes a slot.
LEMMA CountUp ==
  ASSUME NEW S \in SUBSET Calls, NEW r \in Calls \ S, NEW count, NEW forgot,
         host \in [Calls -> Names], CountsOf(S, count, forgot), CanRun(count, host[r])
  PROVE  LET more == OneMore(count, host[r])
         IN  /\ CountsOf(S \cup {r}, more, forgot) /\ Total(more) = Total(count) + 1
             /\ \A n \in Names : count[n] <= more[n]
<1> DEFINE h == host[r]
           more == OneMore(count, h)
<1>1. h \in Names /\ count \in [Names -> Nat] /\ more \in [Names -> Nat]
      /\ \A n \in Names : more[n] = IF n = h THEN count[h] + 1 ELSE count[n]
  BY DEF CountsOf, OneMore
<1>2. MaxSockets \in Nat /\ MaxTotalSockets \in Nat
  BY AgentAssumption
<1>3. count[h] < MaxSockets /\ Total(count) < MaxTotalSockets /\ Total(count) \in Nat
  BY SlotsFinite DEF CanRun
<1>4. /\ Cardinality(S \cup {r}) = Cardinality(S) + 1
      /\ Cardinality(At(S \cup {r}, h)) = Cardinality(At(S, h)) + 1
      /\ \A n \in Names \ {h} : At(S \cup {r}, n) = At(S, n)
      /\ \A n \in Names : Cardinality(At(S, n)) \in Nat /\ Cardinality(S) \in Nat
      /\ Cardinality(At(S, h)) < Cardinality(Calls) /\ Cardinality(Calls) \in Nat
  BY AtGrows, RunningFinite
<1>5. \A n \in Names : count[n] <= MaxSockets /\ count[n] <= Cardinality(At(S, n)) /\ count[n] \in Nat
  BY <1>1 DEF CountsOf
<1>6. count[h] < Cardinality(Calls)
  BY <1>1, <1>4, <1>5
<1>7. Total(more) = Total(count) + 1
  BY <1>1, <1>6, TotalUp DEF OneMore
<1>8. ~forgot => Total(count) = Cardinality(S) /\ \A n \in Names : count[n] = Cardinality(At(S, n))
  BY DEF CountsOf
<1> HIDE DEF h, more
<1>9. \A n \in Names : more[n] <= MaxSockets /\ more[n] <= Cardinality(At(S \cup {r}, n)) /\ count[n] <= more[n]
  <2>1. TAKE n \in Names
  <2>2. CASE n = h
    BY <1>1, <1>2, <1>3, <1>4, <1>5, <2>2
  <2>3. CASE n # h
    <3>1. more[n] = count[n] /\ At(S \cup {r}, n) = At(S, n)
      BY <2>3, <1>1, <1>4
    <3> QED BY <3>1, <1>5
  <2> QED BY <2>2, <2>3
<1>10. ~forgot => \A n \in Names : more[n] = Cardinality(At(S \cup {r}, n))
  BY <1>1, <1>4, <1>8
<1>11. Total(more) <= MaxTotalSockets
  BY <1>2, <1>3, <1>7
<1> QED BY <1>1, <1>4, <1>7, <1>8, <1>9, <1>10, <1>11 DEF CountsOf, more, h

\* The slot that the agent gives back, if it knows of one
Freed(count, n) == [count EXCEPT ![n] = IF @ = 0 THEN 0 ELSE @ - 1]

\* A request that ends gives its slot back.
LEMMA CountDown ==
  ASSUME NEW S \in SUBSET Calls, NEW r \in S, NEW count, NEW forgot,
         host \in [Calls -> Names], CountsOf(S, count, forgot)
  PROVE  LET less == Freed(count, host[r])
         IN  /\ CountsOf(S \ {r}, less, forgot)
             /\ count[host[r]] = 0 => less = count
             /\ count[host[r]] # 0 => Total(count) = Total(less) + 1
<1> DEFINE h == host[r]
           less == Freed(count, h)
           U == S \ {r}
<1>1. h \in Names /\ count \in [Names -> Nat] /\ less \in [Names -> Nat] /\ count[h] \in Nat
      /\ \A n \in Names : less[n] = IF n # h THEN count[n] ELSE IF count[h] = 0 THEN 0 ELSE count[h] - 1
  BY DEF CountsOf, Freed
<1>2. MaxSockets \in Nat /\ MaxTotalSockets \in Nat
  BY AgentAssumption
<1>3. U \in SUBSET Calls /\ r \in Calls \ U /\ S = U \cup {r}
  OBVIOUS
<1>4. /\ Cardinality(S) = Cardinality(U) + 1
      /\ Cardinality(At(S, h)) = Cardinality(At(U, h)) + 1
      /\ \A n \in Names \ {h} : At(S, n) = At(U, n)
      /\ \A n \in Names : Cardinality(At(U, n)) \in Nat /\ Cardinality(U) \in Nat
      /\ Cardinality(At(U, h)) < Cardinality(Calls) /\ Cardinality(Calls) \in Nat
  <2> HIDE DEF U
  <2>1. /\ Cardinality(U \cup {r}) = Cardinality(U) + 1
        /\ Cardinality(At(U \cup {r}, h)) = Cardinality(At(U, h)) + 1
        /\ \A n \in Names \ {h} : At(U \cup {r}, n) = At(U, n)
        /\ \A n \in Names : Cardinality(At(U, n)) \in Nat /\ Cardinality(U) \in Nat
        /\ Cardinality(At(U, h)) < Cardinality(Calls)
    BY <1>3, AtGrows
  <2> QED BY <2>1, <1>3, RunningFinite
<1>5. \A n \in Names : count[n] <= MaxSockets /\ count[n] <= Cardinality(At(S, n)) /\ count[n] \in Nat
  BY <1>1 DEF CountsOf
<1>6. ~forgot => Total(count) = Cardinality(S) /\ \A n \in Names : count[n] = Cardinality(At(S, n))
  BY DEF CountsOf
<1>7. Total(count) <= MaxTotalSockets /\ Total(count) \in Nat /\ Total(less) \in Nat
  BY SlotsFinite DEF CountsOf
<1>8. IF count[h] = 0 THEN less = count ELSE Total(count) = Total(less) + 1
  <2>1. CASE count[h] = 0
    BY <1>1, <2>1
  <2>2. CASE count[h] # 0
    <3>1. less = [count EXCEPT ![h] = @ - 1]
      BY <2>2 DEF Freed
    <3>2. count[h] > 0 /\ count[h] <= Cardinality(Calls)
      <4> HIDE DEF h, U
      <4> QED BY <1>1, <1>4, <1>5, <2>2
    <3>3. h \in Names /\ count \in [Names -> Nat]
      BY <1>1
    <3> HIDE DEF h, less
    <3>4. Total(count) = Total(OneLess(count, h)) + 1
      BY <3>2, <3>3, TotalDown
    <3> QED BY <2>2, <3>1, <3>4 DEF OneLess
  <2> QED BY <2>1, <2>2
<1> HIDE DEF h, U, less
<1>9. \A n \in Names : less[n] <= MaxSockets /\ less[n] <= Cardinality(At(U, n))
  <2>1. TAKE n \in Names
  <2>2. CASE n = h
    BY <1>1, <1>2, <1>4, <1>5, <2>2
  <2>3. CASE n # h
    BY <2>3, <1>1, <1>4, <1>5
  <2> QED BY <2>2, <2>3
<1>10. ~forgot => Total(less) = Cardinality(U) /\ \A n \in Names : less[n] = Cardinality(At(U, n))
  <2>1. SUFFICES ASSUME ~forgot PROVE Total(less) = Cardinality(U) /\ \A n \in Names : less[n] = Cardinality(At(U, n))
    OBVIOUS
  <2>2. Cardinality(At(U, h)) \in Nat /\ Cardinality(U) \in Nat /\ count[h] = Cardinality(At(U, h)) + 1
    BY <2>1, <1>1, <1>4, <1>6
  <2>3. count[h] # 0 /\ less[h] = Cardinality(At(U, h))
    BY <2>2, <1>1
  <2>4. Total(less) = Cardinality(U)
    BY <2>1, <2>2, <2>3, <1>4, <1>6, <1>7, <1>8
  <2>5. ASSUME NEW n \in Names, n # h PROVE less[n] = Cardinality(At(U, n))
    BY <2>1, <2>5, <1>1, <1>4, <1>6
  <2> QED BY <2>3, <2>4, <2>5
<1>11. Total(less) <= MaxTotalSockets
  BY <1>2, <1>7, <1>8
<1> QED BY <1>1, <1>8, <1>9, <1>10, <1>11 DEF CountsOf, h, U, less

-----------------------------------------------------------------------------
(* The limits *)

LEMMA HostsKnown == AgentIInv => host \in [Calls -> Names] /\ Running \subseteq Calls
  BY AgentAssumption DEF AgentIInv, MineOK, Running

\* A step that leaves those that run, and those that wait, as they are
LEMMA LimitsKept ==
  ASSUME AgentIInv, UNCHANGED <<host, limits, destroyedAgent>>, Running' = Running,
         \A r \in Calls : phase[r] = "queued" => phase'[r] = "queued"
  PROVE  CountsMatch' /\ LinesOK'
BY DEF limits, AgentIInv, CountsMatch, CountsOf, At, LinesOK, NoIdleSlot, CanRun

\* What a count is not enough for, a higher one is not.
LEMMA StillFull ==
  ASSUME NEW count \in [Names -> Nat], NEW more \in [Names -> Nat], NEW n \in Names,
         \A m \in Names : count[m] <= more[m], ~CanRun(count, n)
  PROVE  ~CanRun(more, n)
BY SlotsGrow, SlotsFinite, AgentAssumption DEF CanRun

LEMMA ScheduleLimits ==
  ASSUME AgentIInv, NEW r \in Calls, Schedule(r)
  PROVE  CountsMatch' /\ LinesOK'
<1> DEFINE n == host[r]
<1>1. /\ phase[r] = "new" /\ UNCHANGED <<host, destroyedAgent>> /\ host \in [Calls -> Names] /\ n \in Names
      /\ phase \in [Calls -> Phases] /\ requestQueue \in [Names -> Seq(Calls)]
  BY HostsKnown DEF Schedule, AgentIInv, MineOK, LinesOK
<1>2. CountsOf(Running, activeCount, destroyedAgent) /\ Running \in SUBSET Calls /\ r \in Calls \ Running
  BY <1>1, HostsKnown DEF AgentIInv, CountsMatch, Running
<1>3. \A m \in Names : r \notin ToSet(requestQueue[m])
  BY <1>1 DEF AgentIInv, LinesOK
<1>4. CASE CanRun(activeCount, n)
  <2>1. /\ phase' = [phase EXCEPT ![r] = "flushing"] /\ requestQueue' = requestQueue
        /\ activeCount' = [activeCount EXCEPT ![n] = @ + 1]
    BY <1>4 DEF Schedule
  <2>2. Running' = Running \cup {r}
    BY <2>1, <1>1 DEF Running
  <2>3. /\ CountsOf(Running \cup {r}, activeCount', destroyedAgent)
        /\ \A m \in Names : activeCount[m] <= activeCount'[m]
    BY <1>1, <1>2, <1>4, <2>1, CountUp DEF OneMore
  <2>4. CountsMatch'
    BY <2>2, <2>3, <1>1 DEF CountsMatch, CountsOf, At
  <2>5. activeCount \in [Names -> Nat] /\ activeCount' \in [Names -> Nat]
    BY <1>2, <2>3 DEF CountsOf
  <2>6. \A m \in Names : ~CanRun(activeCount, m) => ~CanRun(activeCount', m)
    BY <2>3, <2>5, StillFull
  <2>7. NoIdleSlot'
    BY <2>1, <2>6 DEF AgentIInv, LinesOK, NoIdleSlot, CanRun
  <2>8. LinesOK'
    BY <1>1, <2>1, <2>7 DEF AgentIInv, LinesOK
  <2> QED BY <2>4, <2>8
<1>5. CASE ~CanRun(activeCount, n)
  <2>1. /\ phase' = [phase EXCEPT ![r] = "queued"] /\ activeCount' = activeCount
        /\ requestQueue' = [requestQueue EXCEPT ![n] = Append(@, r)]
    BY <1>5 DEF Schedule
  <2>2. Running' = Running
    BY <2>1, <1>1 DEF Running
  <2>3. CountsMatch'
    BY <2>1, <2>2, <1>1, <1>2 DEF CountsMatch, CountsOf, At
  <2>4. /\ Append(requestQueue[n], r) \in Seq(Calls) /\ Distinct(Append(requestQueue[n], r))
        /\ ToSet(Append(requestQueue[n], r)) = ToSet(requestQueue[n]) \cup {r}
    BY <1>1, <1>3, ListGrows DEF AgentIInv, LinesOK
  <2> DEFINE q == Append(requestQueue[n], r)
  <2>5. requestQueue' = [requestQueue EXCEPT ![n] = q]
    BY <2>1
  <2> HIDE DEF q, n
  <2>6. \A m \in Names : requestQueue'[m] = IF m = n THEN q ELSE requestQueue[m]
    BY <2>5, <1>1
  <2>7. requestQueue' \in [Names -> Seq(Calls)] /\ \A m \in Names : Distinct(requestQueue'[m])
    BY <2>4, <2>5, <2>6, <1>1 DEF AgentIInv, LinesOK, q
  <2>8. ASSUME NEW m \in Names, NEW c \in ToSet(requestQueue'[m])
        PROVE  c \in Calls /\ phase'[c] = "queued" /\ host'[c] = m
    BY <1>1, <2>1, <2>4, <2>6, <2>8 DEF q, AgentIInv, LinesOK, n
  <2>9. NoIdleSlot'
    <3>1. SUFFICES ASSUME NEW m \in Names, requestQueue'[m] # <<>> PROVE ~CanRun(activeCount, m)
      BY <2>1 DEF NoIdleSlot, CanRun
    <3>2. CASE m = n
      BY <3>2, <1>5 DEF n
    <3>3. CASE m # n
      BY <3>1, <3>3, <2>6 DEF AgentIInv, LinesOK, NoIdleSlot
    <3> QED BY <3>2, <3>3
  <2> QED BY <2>3, <2>7, <2>8, <2>9 DEF LinesOK
<1> QED BY <1>4, <1>5

\* The slot that is free goes to the first request of a name that may run one, and then
\* nobody else could run.
LEMMA SettleLimits ==
  ASSUME AgentIInv, NEW r \in Calls, SettleSend(r)
  PROVE  CountsMatch' /\ LinesOK'
<1> DEFINE n == host[r]
           freed == Freed(activeCount, n)
           over == [phase EXCEPT ![r] = "done"]
<1>1. /\ phase[r] = "over" /\ UNCHANGED <<host, destroyedAgent>> /\ host \in [Calls -> Names] /\ n \in Names
      /\ phase \in [Calls -> Phases] /\ requestQueue \in [Names -> Seq(Calls)]
  BY HostsKnown DEF SettleSend, AgentIInv, MineOK, LinesOK
<1>2. CountsOf(Running, activeCount, destroyedAgent) /\ Running \in SUBSET Calls /\ r \in Running
  BY <1>1, HostsKnown DEF AgentIInv, CountsMatch, Running
<1>3. /\ CountsOf(Running \ {r}, freed, destroyedAgent)
      /\ IF activeCount[n] = 0 THEN freed = activeCount ELSE Total(activeCount) = Total(freed) + 1
      /\ \A m \in Names \ {n} : freed[m] = activeCount[m]
      /\ freed[n] = IF activeCount[n] = 0 THEN 0 ELSE activeCount[n] - 1
  <2>1. host \in [Calls -> Names] /\ CountsOf(Running, activeCount, destroyedAgent)
    BY <1>1, <1>2
  <2>2. CountsOf(Running \ {r}, Freed(activeCount, host[r]), destroyedAgent)
    BY <2>1, <1>2, CountDown
  <2>3. /\ activeCount[host[r]] = 0 => Freed(activeCount, host[r]) = activeCount
        /\ activeCount[host[r]] # 0 => Total(activeCount) = Total(Freed(activeCount, host[r])) + 1
    BY <2>1, <1>2, CountDown
  <2>4. activeCount \in [Names -> Nat]
    BY <2>1 DEF CountsOf
  <2>5. /\ \A m \in Names \ {n} : freed[m] = activeCount[m]
        /\ freed[n] = IF activeCount[n] = 0 THEN 0 ELSE activeCount[n] - 1
    BY <2>4, <1>1 DEF Freed
  <2> QED BY <2>2, <2>3, <2>5
<1>4. PICK next \in QueueDrained(freed, Looked(n)) :
        IF next = <<>> THEN phase' = over /\ activeCount' = freed /\ UNCHANGED requestQueue
        ELSE /\ activeCount' = [freed EXCEPT ![next[1]] = @ + 1]
             /\ requestQueue' = [requestQueue EXCEPT ![next[1]] = Tail(@)]
             /\ phase' = [over EXCEPT ![next[2]] = "flushing"]
  BY DEF SettleSend, Freed
<1>5. \A p \in Names : requestQueue[p] # <<>> => ~CanRun(activeCount, p)
  BY DEF AgentIInv, LinesOK, NoIdleSlot
<1>6. \A p \in Names : /\ Distinct(requestQueue[p])
                       /\ \A c \in ToSet(requestQueue[p]) : c \in Calls /\ phase[c] = "queued" /\ host[c] = p
  BY DEF AgentIInv, LinesOK
<1>7. over \in [Calls -> Phases] /\ \A c \in Calls : over[c] = IF c = r THEN "done" ELSE phase[c]
  BY <1>1 DEF Phases
<1> HIDE DEF n, freed, over
<1> DEFINE able == {m \in Names : requestQueue[m] # <<>> /\ CanRun(freed, m)}
<1>8. QueueDrained(freed, Looked(n)) = IF able = {} THEN {<<>>} ELSE {<<m, Head(requestQueue[m])>> : m \in able}
  BY DEF QueueDrained, Looked
<1>9. CASE able = {}
  <2>1. phase' = over /\ activeCount' = freed /\ UNCHANGED requestQueue
    BY <1>4, <1>8, <1>9
  <2>2. Running' = Running \ {r}
    BY <2>1, <1>1, <1>7 DEF Running
  <2>3. CountsMatch'
    BY <2>1, <2>2, <1>1, <1>3 DEF CountsMatch, CountsOf, At
  <2>4. NoIdleSlot'
    BY <2>1, <1>9 DEF NoIdleSlot, CanRun
  <2>5. \A c \in Calls : phase[c] = "queued" => phase'[c] = "queued"
    BY <2>1, <1>1, <1>7
  <2> QED BY <2>1, <2>3, <2>4, <2>5, <1>1, <1>6 DEF LinesOK
<1>10. CASE able # {}
  <2>1. PICK m \in able : next = <<m, Head(requestQueue[m])>>
    BY <1>4, <1>8, <1>10
  <2> DEFINE q == Head(requestQueue[m])
             rest == Tail(requestQueue[m])
  <2>2. m \in Names /\ requestQueue[m] # <<>> /\ CanRun(freed, m)
    OBVIOUS
  <2>3. /\ q \in ToSet(requestQueue[m]) /\ rest \in Seq(Calls) /\ Distinct(rest)
        /\ ToSet(rest) = ToSet(requestQueue[m]) \ {q}
    BY <2>2, <1>1, <1>6, ListShrinks
  <2>4. q \in Calls /\ phase[q] = "queued" /\ host[q] = m /\ q # r
    BY <2>2, <2>3, <1>6, <1>1
  <2>5. next # <<>> /\ next[1] = m /\ next[2] = q
    BY <2>1
  <2>6. /\ activeCount' = [freed EXCEPT ![m] = @ + 1]
        /\ requestQueue' = [requestQueue EXCEPT ![m] = rest]
        /\ phase' = [over EXCEPT ![q] = "flushing"]
    BY <2>5, <1>4
  <2> HIDE DEF q, rest, able
  <2>7. \A c \in Calls : phase'[c] = IF c = q THEN "flushing" ELSE IF c = r THEN "done" ELSE phase[c]
    BY <2>4, <2>6, <1>7
  <2>8. Running' = (Running \ {r}) \cup {q}
    BY <2>4, <2>7, <1>1 DEF Running
  <2>9. q \in Calls \ (Running \ {r}) /\ Running \ {r} \in SUBSET Calls
    BY <2>4, <1>2 DEF Running
  <2>10. activeCount' = OneMore(freed, m)
    BY <2>6 DEF OneMore
  <2>11. /\ CountsOf((Running \ {r}) \cup {q}, activeCount', destroyedAgent)
         /\ Total(activeCount') = Total(freed) + 1
         /\ \A p \in Names : freed[p] <= activeCount'[p]
    BY <1>1, <1>3, <2>2, <2>4, <2>9, <2>10, CountUp
  <2>12. CountsMatch'
    BY <2>8, <2>11, <1>1 DEF CountsMatch, CountsOf, At
  <2>13. activeCount \in [Names -> Nat] /\ freed \in [Names -> Nat] /\ activeCount' \in [Names -> Nat]
         /\ MaxSockets \in Nat \ {0} /\ MaxTotalSockets \in Nat \ {0}
         /\ Total(activeCount) \in Nat /\ Total(freed) \in Nat
    BY <1>2, <1>3, <2>11, SlotsFinite, AgentAssumption DEF CountsOf
  <2>14. Total(activeCount) = Total(freed) + 1 /\ activeCount[n] # 0
    BY <2>2, <1>3, <1>5
  <2>15. ASSUME NEW p \in Names, requestQueue[p] # <<>> PROVE ~CanRun(activeCount', p)
    <3>1. CASE Total(activeCount) >= MaxTotalSockets
      BY <3>1, <2>11, <2>13, <2>14 DEF CanRun
    <3>2. CASE Total(activeCount) < MaxTotalSockets
      <4>1. activeCount[p] >= MaxSockets /\ activeCount[m] >= MaxSockets
        BY <3>2, <2>2, <2>13, <2>15, <1>5 DEF CanRun
      <4>2. freed[m] < MaxSockets
        BY <2>2 DEF CanRun
      <4>3. m = n
        BY <4>1, <4>2, <2>2, <2>13, <1>3
      <4>4. activeCount'[p] >= MaxSockets
        <5>1. CASE p = n
          BY <1>1, <1>3, <2>6, <2>13, <2>14, <4>1, <4>3, <5>1
        <5>2. CASE p # n
          BY <1>3, <2>6, <2>13, <4>1, <4>3, <5>2
        <5> QED BY <5>1, <5>2
      <4>5. activeCount'[p] \in Nat
        BY <2>13
      <4> QED BY <4>4, <4>5, <2>13 DEF CanRun
    <3> QED BY <3>1, <3>2, <2>13
  <2>16. \A p \in Names : requestQueue'[p] = IF p = m THEN rest ELSE requestQueue[p]
    BY <2>2, <2>6, <1>1
  <2>17. NoIdleSlot'
    <3>1. SUFFICES ASSUME NEW p \in Names, requestQueue'[p] # <<>> PROVE ~CanRun(activeCount', p)
      BY DEF NoIdleSlot, CanRun
    <3>2. requestQueue[p] # <<>>
      BY <3>1, <2>2, <2>16
    <3> QED BY <3>2, <2>15
  <2>18. requestQueue' \in [Names -> Seq(Calls)] /\ \A p \in Names : Distinct(requestQueue'[p])
    BY <2>3, <2>6, <2>16, <2>2, <1>1, <1>6
  <2>19. ASSUME NEW p \in Names, NEW c \in ToSet(requestQueue'[p])
         PROVE  c \in Calls /\ phase'[c] = "queued" /\ host'[c] = p
    <3>1. c \in ToSet(requestQueue[p]) /\ ~(p = m /\ c = q)
      BY <2>3, <2>16, <2>19
    <3>2. c \in Calls /\ phase[c] = "queued" /\ host[c] = p
      BY <3>1, <1>6
    <3>3. c # q /\ c # r
      BY <3>1, <3>2, <2>4, <1>1
    <3> QED BY <3>2, <3>3, <2>7, <1>1
  <2> QED BY <2>12, <2>17, <2>18, <2>19 DEF LinesOK
<1> QED BY <1>9, <1>10

LEMMA DestroyLimits == ASSUME AgentIInv, DestroyAgent PROVE CountsMatch' /\ LinesOK'
BY RunningFinite, FS_EmptySet, AgentAssumption DEF DestroyAgent, Slots, Total, At, Running, CountsOf,
   CountsMatch, Distinct, ToSet, NoIdleSlot, LinesOK

-----------------------------------------------------------------------------
(* The sockets *)

\* A step on the limits alone
LEMMA SocketsKept ==
  ASSUME AgentIInv, UNCHANGED <<host, mine, pool, leaked>>, phase' \in [Calls -> Phases],
         gone' \subseteq Calls, Using' = Using,
         \A r \in Calls : phase'[r] \in {"new", "queued", "flushing"} => phase[r] \in {"new", "queued", "flushing"}
  PROVE  MineOK' /\ PoolOK'
BY DEF pool, AgentIInv, MineOK, PoolOK

LEMMA LeastOf == ASSUME NEW T, T \subseteq Nat, T # {} PROVE \E x \in T : \A y \in T : x <= y
<1> DEFINE R == {ss \in Nat \X Nat : ss[1] < ss[2]}
<1>0. IsWellFoundedOn(R, Nat)
  BY NatLessThanWellFounded DEF OpToRel
<1>1. \E x \in T : \A y \in T : ~ (<<y, x>> \in R)
  <2> HIDE DEF R
  <2> QED BY <1>0, WFMin, Zenon
<1>2. PICK x \in T : \A y \in T : ~ (<<y, x>> \in R)
  BY <1>1
<1>3. SUFFICES ASSUME NEW y \in T PROVE x <= y
  BY <1>2
<1>4. x \in Nat /\ y \in Nat
  BY <1>2
<1>5. ~(y < x)
  BY <1>2, <1>4
<1> QED BY <1>4, <1>5

LEMMA LastOf ==
  ASSUME NEW n \in Nat, NEW S \in SUBSET (1..n), S # {}
  PROVE  \E k \in S : \A l \in S : l <= k
<1> DEFINE D == {n - k : k \in S}
<1>0. \A k \in S : k \in Nat /\ n - k \in Nat
  OBVIOUS
<1>1. D \subseteq Nat /\ D # {}
  BY <1>0
<1>2. PICK d \in D : \A e \in D : d <= e
  BY <1>1, LeastOf
<1>3. PICK k \in S : d = n - k
  BY <1>2
<1>4. ASSUME NEW l \in S PROVE l <= k
  <2>1. n - l \in D
    OBVIOUS
  <2>2. n - k <= n - l
    BY <2>1, <1>2, <1>3
  <2>3. k \in 1..n /\ l \in 1..n
    OBVIOUS
  <2> QED BY <2>2, <2>3
<1> QED BY <1>4

\* A request gets a socket: the free one of its host that was used last, or one of its own.
LEMMA TakeSocketStep ==
  ASSUME AgentIInv, NEW r \in Calls, phase[r] = "flushing", phase' = [phase EXCEPT ![r] = "finishing"],
         TakeSocket(r), UNCHANGED <<host, gone, dead, dying, leaked>>
  PROVE  MineOK' /\ PoolOK'
<1> DEFINE n == host[r]
           s == IF Reusable(n) = {} THEN r
                ELSE free[n][CHOOSE k \in Reusable(n) : \A l \in Reusable(n) : l <= k]
           line == Append(used[n], s)
           rest == Without(free[n], s)
<1>1. /\ host \in [Calls -> Names] /\ n \in Names /\ phase \in [Calls -> Phases]
      /\ mine \in [Calls -> Calls \cup {NoSocket}] /\ mine[r] = NoSocket /\ NoSocket \notin Calls
      /\ free \in [Names -> Seq(Calls)] /\ used \in [Names -> Seq(Calls)]
  BY HostsKnown, AgentAssumption DEF AgentIInv, MineOK, PoolOK, Sockets, NoSocket
\* The socket is nobody's.
<1>2. /\ s \in Calls /\ s \notin ToSet(used[n]) /\ s \notin leaked /\ \A q \in Using : mine[q] # s
      /\ mine' = [mine EXCEPT ![r] = s] /\ used' = [used EXCEPT ![n] = line]
      /\ host[s] = n /\ (s = r \/ mine[s] = s)
      /\ \A m \in Names \ {n} : s \notin ToSet(free[m])
      /\ free' = [free EXCEPT ![n] = rest]
  <2>1. CASE Reusable(n) = {}
    <3>1. s = r /\ mine' = [mine EXCEPT ![r] = r] /\ used' = [used EXCEPT ![n] = Append(@, r)] /\ free' = free
      BY <2>1 DEF TakeSocket
    <3>2. r \notin leaked /\ \A m \in Names : r \notin ToSet(free[m]) /\ r \notin ToSet(used[m])
      BY <1>1 DEF AgentIInv, PoolOK
    <3>3. ASSUME NEW q \in Using PROVE mine[q] # r
      BY <1>1 DEF AgentIInv, MineOK, Using
    <3> HIDE DEF s
    <3>4. rest = free[n]
      BY <3>1, <3>2, <1>1 DEF Without
    <3>5. free' = [free EXCEPT ![n] = rest]
      BY <3>1, <3>4, <1>1
    <3> QED BY <3>1, <3>2, <3>3, <3>5, <1>1
  <2>2. CASE Reusable(n) # {}
    <3> DEFINE k == CHOOSE k \in Reusable(n) : \A l \in Reusable(n) : l <= k
    <3>1. k \in Reusable(n)
      <4>1. Reusable(n) \in SUBSET (1..Len(free[n])) /\ Len(free[n]) \in Nat
        BY <1>1 DEF Reusable
      <4>2. \E j \in Reusable(n) : \A l \in Reusable(n) : l <= j
        BY <2>2, <4>1, LastOf
      <4> QED BY <4>2
    <3> HIDE DEF k
    <3>2. s = free[n][k] /\ free[n][k] \in ToSet(free[n]) /\ free[n][k] \in Calls
      <4>1. k \in DOMAIN free[n] /\ free[n] \in Seq(Calls)
        BY <3>1, <1>1 DEF Reusable
      <4>2. s = free[n][k]
        BY <2>2 DEF k
      <4> HIDE DEF s
      <4>3. free[n][k] \in ToSet(free[n]) /\ free[n][k] \in Calls
        BY <4>1 DEF ToSet
      <4> QED BY <4>2, <4>3
    <3>3. mine' = [mine EXCEPT ![r] = s] /\ used' = [used EXCEPT ![n] = Append(@, s)]
          /\ free' = [free EXCEPT ![n] = Without(@, s)]
      BY <2>2 DEF TakeSocket, TakeFrom
    <3> HIDE DEF s
    <3>4. mine[s] = s /\ host[s] = n /\ s \notin leaked /\ (\A q \in Using : mine[q] # s) /\ s \in Calls
      BY <3>2, <1>1 DEF AgentIInv, PoolOK
    <3>5. s \notin ToSet(used[n])
      BY <3>4, <1>1 DEF AgentIInv, PoolOK
    <3>6. \A m \in Names \ {n} : s \notin ToSet(free[m])
      BY <3>4, <1>1 DEF AgentIInv, PoolOK
    <3> QED BY <3>3, <3>4, <3>5, <3>6
  <2> QED BY <2>1, <2>2
<1> HIDE DEF s
<1>3. Distinct(used[n]) /\ Distinct(free[n])
  BY <1>1 DEF AgentIInv, PoolOK
<1>4. line \in Seq(Calls) /\ Distinct(line) /\ ToSet(line) = ToSet(used[n]) \cup {s}
  BY <1>1, <1>2, <1>3, ListGrows
<1>5. rest \in Seq(Calls) /\ Distinct(rest) /\ Len(rest) <= Len(free[n]) /\ ToSet(rest) = ToSet(free[n]) \ {s}
  BY <1>1, <1>3, ListWithout
<1> HIDE DEF line, rest, n
<1>6. /\ \A q \in Calls : mine'[q] = IF q = r THEN s ELSE mine[q]
      /\ \A q \in Calls : phase'[q] = IF q = r THEN "finishing" ELSE phase[q]
      /\ \A m \in Names : used'[m] = IF m = n THEN line ELSE used[m]
      /\ \A m \in Names : free'[m] = IF m = n THEN rest ELSE free[m]
      /\ UNCHANGED <<host, gone, dead, dying, leaked>>
  BY <1>1, <1>2
<1>7. Using' = Using \cup {r} /\ r \notin Using
  BY <1>6 DEF Using
<1>8. MineOK'
  <2>1. phase' \in [Calls -> Phases] /\ mine' \in [Calls -> Calls \cup {NoSocket}]
    BY <1>1, <1>2 DEF Phases
  <2>2. \A q \in Calls : phase'[q] \in {"new", "queued", "flushing"} => mine'[q] = NoSocket
    BY <1>6 DEF AgentIInv, MineOK
  <2>3. \A q \in Using' : mine'[q] # NoSocket
    BY <1>1, <1>2, <1>6, <1>7 DEF AgentIInv, MineOK, Using
  <2>4. ASSUME NEW q \in Calls, mine'[q] # NoSocket PROVE host'[mine'[q]] = host'[q] /\ mine'[mine'[q]] = mine'[q]
    <3>1. CASE q = r
      BY <3>1, <1>1, <1>2, <1>6 DEF n
    <3>2. CASE q # r
      BY <1>1, <1>6, <2>4, <3>2 DEF AgentIInv, MineOK
    <3> QED BY <3>1, <3>2
  <2>5. \A p, q \in Using' : mine'[p] = mine'[q] => p = q
    BY <1>2, <1>6, <1>7 DEF Using, AgentIInv, MineOK
  <2> QED BY <2>1, <2>2, <2>3, <2>4, <2>5, <1>6 DEF AgentIInv, MineOK, Sockets
<1>9. PoolOK'
  <2>1. free' \in [Names -> Seq(Sockets)] /\ used' \in [Names -> Seq(Sockets)]
    BY <1>1, <1>2, <1>4, <1>5 DEF Sockets
  <2>2. \A m \in Names : Distinct(free'[m]) /\ Distinct(used'[m]) /\ Len(free'[m]) <= MaxFreeSockets
    <3>1. \A m \in Names : Distinct(free[m]) /\ Distinct(used[m]) /\ Len(free[m]) <= MaxFreeSockets
      BY DEF AgentIInv, PoolOK
    <3>2. Len(rest) \in Nat /\ Len(free[n]) \in Nat /\ MaxFreeSockets \in Nat
      BY <1>1, <1>5, AgentAssumption DEF n
    <3>3. TAKE m \in Names
    <3>4. CASE m = n
      BY <1>4, <1>5, <1>6, <3>1, <3>2, <3>4
    <3>5. CASE m # n
      BY <3>1, <3>5, <1>6
    <3> QED BY <3>4, <3>5
  <2>3. ASSUME NEW m \in Names, NEW t \in ToSet(free'[m])
        PROVE  mine'[t] = t /\ host'[t] = m /\ t \notin leaked' /\ \A q \in Using' : mine'[q] # t
    <3>1. t \in ToSet(free[m]) /\ t # s
      BY <2>3, <1>2, <1>5, <1>6
    <3>2. t \in Calls /\ mine[t] = t /\ host[t] = m /\ t \notin leaked /\ \A q \in Using : mine[q] # t
      <4>1. t \in Calls
        BY <3>1, <1>1 DEF ToSet
      <4> QED BY <3>1, <4>1 DEF AgentIInv, PoolOK
    <3>3. t # r
      BY <3>2, <1>1
    <3>4. \A q \in Using : q \in Calls
      BY DEF Using
    <3> QED BY <3>1, <3>2, <3>3, <3>4, <1>6, <1>7
  <2>4. ASSUME NEW m \in Names, NEW t \in ToSet(used'[m])
        PROVE  mine'[t] = t /\ host'[t] = m /\ (t \in leaked' \/ \E q \in Using' : mine'[q] = t)
    <3>1. CASE t \in ToSet(used[m])
      <4>1. t \in Calls /\ mine[t] = t /\ host[t] = m /\ (t \in leaked \/ \E q \in Using : mine[q] = t)
        <5>1. t \in Calls
          BY <3>1, <1>1 DEF ToSet
        <5> QED BY <3>1, <5>1 DEF AgentIInv, PoolOK
      <4>2. t # r
        BY <4>1, <1>1
      <4>3. \A q \in Using : q \in Calls /\ q # r
        BY <1>7 DEF Using
      <4> QED BY <4>1, <4>2, <4>3, <1>6, <1>7
    <3>2. CASE t \notin ToSet(used[m])
      BY <1>2, <1>4, <1>6, <1>7, <2>4, <3>2
    <3> QED BY <3>1, <3>2
  <2>5. ASSUME NEW t \in leaked' PROVE mine'[t] = t /\ \A q \in Using' : mine'[q] # t
    BY <1>1, <1>2, <1>6, <1>7, <2>5 DEF AgentIInv, PoolOK, Sockets, Using
  <2> QED BY <2>1, <2>2, <2>3, <2>4, <2>5, <1>6 DEF AgentIInv, PoolOK
<1> QED BY <1>8, <1>9

\* A step after which some requests no longer use their socket, and no other gets one
LEMMA SocketsLeft ==
  ASSUME AgentIInv, UNCHANGED <<host, mine>>, phase' \in [Calls -> Phases], gone' \subseteq Calls,
         dead' \subseteq Sockets, dying' \subseteq dead', leaked' \subseteq Sockets, Using' \subseteq Using,
         \A r \in Calls : phase'[r] \in {"new", "queued", "flushing"} => phase[r] \in {"new", "queued", "flushing"},
         free' \in [Names -> Seq(Sockets)], used' \in [Names -> Seq(Sockets)],
         \A n \in Names : Distinct(free'[n]) /\ Distinct(used'[n]) /\ Len(free'[n]) <= MaxFreeSockets,
         \A n \in Names : \A s \in ToSet(free'[n]) :
            mine[s] = s /\ host[s] = n /\ s \notin leaked' /\ \A r \in Using' : mine[r] # s,
         \A n \in Names : \A s \in ToSet(used'[n]) :
            s \in ToSet(used[n]) /\ (s \in leaked' \/ \E r \in Using' : mine[r] = s),
         \A s \in leaked' : mine[s] = s /\ \A r \in Using' : mine[r] # s
  PROVE  MineOK' /\ PoolOK'
BY DEF AgentIInv, MineOK, PoolOK

\* What the pool is, in short
LEMMA PoolFacts ==
  ASSUME AgentIInv
  PROVE  /\ free \in [Names -> Seq(Sockets)] /\ used \in [Names -> Seq(Sockets)]
         /\ \A n \in Names : /\ Distinct(free[n]) /\ Distinct(used[n]) /\ Len(free[n]) <= MaxFreeSockets
                             /\ Len(free[n]) \in Nat
         /\ MaxFreeSockets \in Nat /\ NoSocket \notin Calls
         /\ phase \in [Calls -> Phases] /\ host \in [Calls -> Names]
         /\ mine \in [Calls -> Sockets \cup {NoSocket}] /\ Using \subseteq Calls
BY HostsKnown, AgentAssumption DEF AgentIInv, PoolOK, MineOK, Using, NoSocket

\* A request that used a socket leaves it, for another request or for good.
LEMMA LeaveStep ==
  ASSUME AgentIInv, NEW r \in Using, NEW keepAlive \in BOOLEAN, RequestEnds(r, keepAlive),
         UNCHANGED host, gone' \subseteq Calls
  PROVE  MineOK' /\ PoolOK'
<1> DEFINE s == mine[r]
           n == host[r]
           line == Without(used[n], s)
           more == Append(free[n], s)
<1>1. r \in Calls /\ n \in Names /\ phase' = [phase EXCEPT ![r] = "over"] /\ leaked' = leaked
  BY PoolFacts DEF RequestEnds
<1>2. /\ s \in Sockets /\ s # NoSocket /\ mine[s] = s /\ host[s] = n
      /\ \A q \in Using \ {r} : mine[q] # s
  BY <1>1 DEF AgentIInv, MineOK
<1>3. s \notin leaked /\ \A m \in Names : s \notin ToSet(free[m])
  BY DEF AgentIInv, PoolOK
<1>4. /\ mine' = mine /\ used' = [used EXCEPT ![n] = line]
      /\ \/ free' = [free EXCEPT ![n] = more] /\ Len(free[n]) < MaxFreeSockets /\ UNCHANGED <<dead, dying>>
         \/ /\ free' = free /\ dead' = dead \cup {s}
            /\ dying' = IF s \in dead THEN dying ELSE dying \cup {s}
  BY <1>2 DEF RequestEnds, LeaveSocket
<1>5. /\ used[n] \in Seq(Sockets) /\ free[n] \in Seq(Sockets) /\ Distinct(used[n]) /\ Distinct(free[n])
      /\ Len(free[n]) \in Nat
  BY <1>1, PoolFacts
<1>6. line \in Seq(Sockets) /\ Distinct(line) /\ ToSet(line) = ToSet(used[n]) \ {s}
  BY <1>5, ListWithout
<1>7. /\ more \in Seq(Sockets) /\ Distinct(more) /\ ToSet(more) = ToSet(free[n]) \cup {s}
      /\ Len(more) = Len(free[n]) + 1
  BY <1>1, <1>2, <1>3, <1>5, ListGrows
<1> HIDE DEF s, n, line, more
<1>8. /\ phase' \in [Calls -> Phases]
      /\ \A q \in Calls : phase'[q] = IF q = r THEN "over" ELSE phase[q]
  BY <1>1, PoolFacts DEF Phases
<1>9. Using' = Using \ {r}
  BY <1>8 DEF Using
<1>10. \A q \in Calls : phase'[q] \in {"new", "queued", "flushing"} => phase[q] \in {"new", "queued", "flushing"}
  BY <1>8
<1>11. dead' \subseteq Sockets /\ dying' \subseteq dead' /\ leaked' \subseteq Sockets
  BY <1>1, <1>2, <1>4 DEF AgentIInv, PoolOK
<1>12. /\ used' \in [Names -> Seq(Sockets)]
       /\ \A m \in Names : used'[m] = IF m = n THEN line ELSE used[m]
  BY <1>1, <1>4, <1>6, PoolFacts
<1>13. /\ free' \in [Names -> Seq(Sockets)]
       /\ \A m \in Names : free'[m] = free[m] \/ (m = n /\ free'[m] = more /\ Len(free[n]) < MaxFreeSockets)
  BY <1>1, <1>4, <1>7, PoolFacts
<1>14. ASSUME NEW m \in Names
       PROVE  Distinct(free'[m]) /\ Distinct(used'[m]) /\ Len(free'[m]) <= MaxFreeSockets
  <2>1. Distinct(used'[m])
    BY <1>6, <1>12, PoolFacts
  <2>2. CASE free'[m] = free[m]
    BY <2>1, <2>2, PoolFacts
  <2>3. CASE m = n /\ free'[m] = more /\ Len(free[n]) < MaxFreeSockets
    BY <1>5, <1>7, <2>1, <2>3, PoolFacts
  <2> QED BY <2>2, <2>3, <1>13
<1>15. ASSUME NEW m \in Names, NEW t \in ToSet(free'[m])
       PROVE  mine[t] = t /\ host[t] = m /\ t \notin leaked' /\ \A q \in Using' : mine[q] # t
  <2>1. t \in ToSet(free[m]) \/ (m = n /\ t = s)
    BY <1>7, <1>13, <1>15
  <2>2. CASE t \in ToSet(free[m])
    BY <2>2, <1>1, <1>9 DEF AgentIInv, PoolOK
  <2>3. CASE m = n /\ t = s
    BY <2>3, <1>1, <1>2, <1>3, <1>9
  <2> QED BY <2>1, <2>2, <2>3
<1>16. ASSUME NEW m \in Names, NEW t \in ToSet(used'[m])
       PROVE  t \in ToSet(used[m]) /\ (t \in leaked' \/ \E q \in Using' : mine[q] = t)
  <2>1. t \in ToSet(used[m]) /\ (m = n => t # s)
    BY <1>6, <1>12, <1>16
  <2>2. mine[t] = t /\ host[t] = m /\ (t \in leaked \/ \E q \in Using : mine[q] = t)
    BY <2>1 DEF AgentIInv, PoolOK
  <2>3. t # s
    BY <2>1, <2>2, <1>2
  <2> QED BY <2>1, <2>2, <2>3, <1>1, <1>9 DEF s
<1>17. \A t \in leaked' : mine[t] = t /\ \A q \in Using' : mine[q] # t
  BY <1>1, <1>9 DEF AgentIInv, PoolOK
<1>18. UNCHANGED <<host, mine>> /\ Using' \subseteq Using
  BY <1>4, <1>9
<1> QED BY <1>8, <1>10, <1>11, <1>12, <1>13, <1>14, <1>15, <1>16, <1>17, <1>18, SocketsLeft

\* The socket of a request that its own 'response' listener destroyed stays behind.
LEMMA LeakStep ==
  ASSUME AgentIInv, NEW r \in Using, phase' = [phase EXCEPT ![r] = "over"],
         UNCHANGED <<host, mine, pool>>, gone' \subseteq Calls, leaked' = leaked \cup {mine[r]}
  PROVE  MineOK' /\ PoolOK'
<1> DEFINE s == mine[r]
<1>1. r \in Calls /\ UNCHANGED <<host, mine, used, free, dead, dying>>
  BY PoolFacts DEF pool
<1>2. s \in Sockets /\ mine[s] = s /\ \A q \in Using \ {r} : mine[q] # s
  BY <1>1 DEF AgentIInv, MineOK
<1>3. \A m \in Names : s \notin ToSet(free[m])
  BY DEF AgentIInv, PoolOK
<1>4. /\ phase' \in [Calls -> Phases]
      /\ \A q \in Calls : phase'[q] = IF q = r THEN "over" ELSE phase[q]
  BY <1>1, PoolFacts DEF Phases
<1>5. Using' = Using \ {r} /\ leaked' = leaked \cup {s}
  BY <1>4 DEF Using
<1>6. \A q \in Calls : phase'[q] \in {"new", "queued", "flushing"} => phase[q] \in {"new", "queued", "flushing"}
  BY <1>4
<1>7. \A m \in Names : \A t \in ToSet(used'[m]) :
         t \in ToSet(used[m]) /\ (t \in leaked' \/ \E q \in Using' : mine[q] = t)
  <2>1. TAKE m \in Names
  <2>2. TAKE t \in ToSet(used'[m])
  <2>3. t \in ToSet(used[m])
    BY <1>1
  <2>4. t \in leaked \/ \E q \in Using : mine[q] = t
    BY <2>3 DEF AgentIInv, PoolOK
  <2> QED BY <2>3, <2>4, <1>5
<1> HIDE DEF s
<1>8. \A t \in leaked' : mine[t] = t /\ \A q \in Using' : mine[q] # t
  BY <1>2, <1>5 DEF AgentIInv, PoolOK
<1>9. \A m \in Names : \A t \in ToSet(free'[m]) :
         mine[t] = t /\ host[t] = m /\ t \notin leaked' /\ \A q \in Using' : mine[q] # t
  BY <1>1, <1>3, <1>5 DEF AgentIInv, PoolOK
<1>10. /\ dead' \subseteq Sockets /\ dying' \subseteq dead' /\ leaked' \subseteq Sockets /\ Using' \subseteq Using
       /\ free' \in [Names -> Seq(Sockets)] /\ used' \in [Names -> Seq(Sockets)]
       /\ \A m \in Names : Distinct(free'[m]) /\ Distinct(used'[m]) /\ Len(free'[m]) <= MaxFreeSockets
  BY <1>1, <1>2, <1>5 DEF AgentIInv, PoolOK
<1> QED BY <1>1, <1>4, <1>6, <1>7, <1>8, <1>9, <1>10, SocketsLeft

-----------------------------------------------------------------------------
(* The steps *)

\* A step of _doSend
LEMMA SendsStep == ASSUME AgentIInv, NEW r \in Calls, Sends(r) PROVE AgentIInv'
<1>1. UNCHANGED <<host, limits, destroyedAgent>> /\ phase \in [Calls -> Phases]
      /\ phase[r] \in {"flushing", "finishing", "waiting"}
  BY PoolFacts DEF Sends, Flushed, BodyFinished, Response, Others
<1>2. /\ \E p \in {"finishing", "waiting", "over"} : phase' = [phase EXCEPT ![r] = p]
      /\ gone' \subseteq Calls
  BY DEF AgentIInv, MineOK, Sends, Flushed, BodyFinished, Response, RequestEnds
<1>3. PICK p \in {"finishing", "waiting", "over"} : phase' = [phase EXCEPT ![r] = p]
  BY <1>2
<1>4. /\ phase' \in [Calls -> Phases] /\ Running' = Running
      /\ \A q \in Calls : phase'[q] = IF q = r THEN p ELSE phase[q]
  BY <1>1, <1>3 DEF Phases, Running
<1>5. CountsMatch' /\ LinesOK'
  BY <1>1, <1>4, LimitsKept
<1>6. \A q \in Calls : phase'[q] \in {"new", "queued", "flushing"} => phase[q] \in {"new", "queued", "flushing"}
  BY <1>4
<1>7. MineOK' /\ PoolOK'
  <2>1. ASSUME NEW keepAlive \in BOOLEAN, RequestEnds(r, keepAlive) PROVE MineOK' /\ PoolOK'
    <3>1. CASE r \in Using
      BY <1>1, <1>2, <2>1, <3>1, LeaveStep
    <3>2. CASE r \notin Using
      BY <1>1, <1>2, <1>4, <1>6, <2>1, <3>2, SocketsKept DEF AgentIInv, MineOK, Using, RequestEnds,
         LeaveSocket
    <3> QED BY <3>1, <3>2
  <2>2. CASE Flushed(r)
    <3>1. CASE /\ phase' = [phase EXCEPT ![r] = "finishing"] /\ TakeSocket(r)
               /\ UNCHANGED <<dead, dying, leaked>>
      BY <1>1, <2>2, <3>1, TakeSocketStep DEF Flushed
    <3> QED BY <2>1, <2>2, <3>1 DEF Flushed
  <2>3. CASE BodyFinished(r)
    <3>1. CASE phase' = [phase EXCEPT ![r] = "waiting"] /\ UNCHANGED <<mine, pool, leaked>>
      BY <1>1, <1>2, <1>4, <1>6, <2>3, <3>1, SocketsKept DEF BodyFinished, Using
    <3> QED BY <2>1, <2>3, <3>1 DEF BodyFinished
  <2>4. CASE Response(r)
    <3>1. CASE /\ leaked' = leaked \cup {mine[r]} /\ phase' = [phase EXCEPT ![r] = "over"]
               /\ UNCHANGED <<mine, pool>>
      BY <1>1, <1>2, <2>4, <3>1, LeakStep DEF Response, Using
    <3> QED BY <2>1, <2>4, <3>1 DEF Response
  <2> QED BY <2>2, <2>3, <2>4 DEF Sends
<1> QED BY <1>1, <1>5, <1>7 DEF AgentIInv

\* A request is given to the agent, or its slot given back.
LEMMA LimitsStep ==
  ASSUME AgentIInv, NEW r \in Calls, Schedule(r) \/ SettleSend(r)
  PROVE  AgentIInv'
<1>1. UNCHANGED <<host, gone, mine, pool, leaked, destroyedAgent>>
  BY DEF Schedule, SettleSend
<1>2. CountsMatch' /\ LinesOK'
  BY ScheduleLimits, SettleLimits
<1>3. /\ phase' \in [Calls -> Phases] /\ Using' = Using
      /\ \A q \in Calls : phase'[q] \in {"new", "queued", "flushing"} => phase[q] \in {"new", "queued", "flushing"}
  <2>1. phase \in [Calls -> Phases] /\ host \in [Calls -> Names]
    BY PoolFacts
  <2>2. CASE Schedule(r)
    <3>1. phase[r] = "new" /\ \E p \in {"flushing", "queued"} : phase' = [phase EXCEPT ![r] = p]
      BY <2>2 DEF Schedule
    <3>2. PICK p \in {"flushing", "queued"} : phase' = [phase EXCEPT ![r] = p]
      BY <3>1
    <3>3. \A q \in Calls : phase'[q] = IF q = r THEN p ELSE phase[q]
      BY <3>2, <2>1
    <3>4. phase' \in [Calls -> Phases]
      BY <3>2, <2>1 DEF Phases
    <3> QED BY <3>1, <3>3, <3>4 DEF Using
  <2>3. CASE SettleSend(r)
    <3> DEFINE over == [phase EXCEPT ![r] = "done"]
    <3>1. phase[r] = "over" /\ over \in [Calls -> Phases]
          /\ \A q \in Calls : over[q] = IF q = r THEN "done" ELSE phase[q]
      BY <2>1, <2>3 DEF SettleSend, Phases
    <3> DEFINE freed == Freed(activeCount, host[r])
    <3>2. PICK next \in QueueDrained(freed, Looked(host[r])) :
            phase' = IF next = <<>> THEN over ELSE [over EXCEPT ![next[2]] = "flushing"]
      BY <2>3 DEF SettleSend, Freed
    <3> HIDE DEF freed
    <3>3. phase' = over \/ \E q \in Calls : phase[q] = "queued" /\ phase' = [over EXCEPT ![q] = "flushing"]
      <4>1. CASE next = <<>>
        BY <4>1, <3>2
      <4>2. CASE next # <<>>
        <5>1. PICK m \in Names : requestQueue[m] # <<>> /\ next = <<m, Head(requestQueue[m])>>
          BY <4>2, <3>2 DEF QueueDrained, Looked
        <5>2. /\ requestQueue[m] \in Seq(Calls) /\ Distinct(requestQueue[m])
              /\ \A c \in ToSet(requestQueue[m]) : c \in Calls /\ phase[c] = "queued"
          BY DEF AgentIInv, LinesOK
        <5>3. Head(requestQueue[m]) \in ToSet(requestQueue[m])
          BY <5>1, <5>2, ListShrinks
        <5>4. next[2] = Head(requestQueue[m])
          BY <5>1
        <5> HIDE DEF over
        <5> QED BY <4>2, <5>2, <5>3, <5>4, <3>2
      <4> QED BY <4>1, <4>2
    <3> HIDE DEF over
    <3>4. CASE phase' = over
      BY <3>1, <3>4 DEF Using
    <3>5. CASE \E q \in Calls : phase[q] = "queued" /\ phase' = [over EXCEPT ![q] = "flushing"]
      <4>1. PICK c \in Calls : phase[c] = "queued" /\ phase' = [over EXCEPT ![c] = "flushing"]
        BY <3>5
      <4>2. \A q \in Calls : phase'[q] = IF q = c THEN "flushing" ELSE IF q = r THEN "done" ELSE phase[q]
        BY <4>1, <3>1
      <4>3. phase' \in [Calls -> Phases]
        BY <4>1, <3>1 DEF Phases
      <4> QED BY <4>1, <4>2, <4>3, <3>1 DEF Using
    <3> QED BY <3>3, <3>4, <3>5
  <2> QED BY <2>2, <2>3
<1>4. gone' \subseteq Calls
  BY <1>1 DEF AgentIInv, MineOK
<1>5. MineOK' /\ PoolOK'
  BY <1>1, <1>3, <1>4, SocketsKept
<1> QED BY <1>1, <1>2, <1>5 DEF AgentIInv

LEMMA AbortStep == ASSUME AgentIInv, NEW r \in Calls, Abort(r) PROVE AgentIInv'
BY LimitsKept, SocketsKept DEF Abort, Others, Running, Using, AgentIInv, MineOK

\* A socket ends or is closed: it is in fewer lists.
LEMMA SocketStep ==
  ASSUME AgentIInv, NEW s \in Sockets, FreeSocketEnds(s) \/ SocketClose(s)
  PROVE  AgentIInv'
<1>1. UNCHANGED <<phase, host, gone, mine, limits, leaked, destroyedAgent>>
  BY DEF FreeSocketEnds, SocketClose
<1>2. Running' = Running /\ Using' = Using
  BY <1>1 DEF Running, Using
<1>3. CountsMatch' /\ LinesOK'
  BY <1>1, <1>2, LimitsKept
<1>4. dead' \subseteq Sockets /\ dying' \subseteq dead'
  BY DEF FreeSocketEnds, SocketClose, AgentIInv, PoolOK
<1>5. /\ free' = free \/ free' = [n \in Names |-> Without(free[n], s)]
      /\ used' = used \/ used' = [n \in Names |-> Without(used[n], s)]
  BY DEF FreeSocketEnds, SocketClose
<1>6. /\ free' \in [Names -> Seq(Sockets)]
      /\ \A n \in Names : /\ Distinct(free'[n]) /\ Len(free'[n]) <= MaxFreeSockets
                          /\ ToSet(free'[n]) \subseteq ToSet(free[n])
  <2>1. CASE free' = free
    BY <2>1, PoolFacts
  <2>2. CASE free' = [n \in Names |-> Without(free[n], s)]
    <3>1. /\ free' \in [Names -> Seq(Sockets)]
          /\ \A n \in Names : /\ Distinct(free'[n]) /\ Len(free'[n]) <= Len(free[n])
                              /\ ToSet(free'[n]) = ToSet(free[n]) \ {s}
      <4>1. \A n \in Names : free[n] \in Seq(Sockets) /\ Distinct(free[n]) /\ free'[n] = Without(free[n], s)
        BY <2>2, PoolFacts
      <4>2. ASSUME NEW n \in Names
            PROVE  /\ free'[n] \in Seq(Sockets) /\ Distinct(free'[n]) /\ Len(free'[n]) <= Len(free[n])
                   /\ ToSet(free'[n]) = ToSet(free[n]) \ {s}
        BY <4>1, ListWithout
      <4> QED BY <2>2, <4>2
    <3>2. \A n \in Names : Len(free'[n]) \in Nat /\ Len(free[n]) \in Nat /\ Len(free[n]) <= MaxFreeSockets
      BY <3>1, PoolFacts
    <3>3. \A n \in Names : Len(free'[n]) <= MaxFreeSockets
      BY <3>1, <3>2, PoolFacts
    <3> QED BY <3>1, <3>3
  <2> QED BY <1>5, <2>1, <2>2
<1>7. /\ used' \in [Names -> Seq(Sockets)]
      /\ \A n \in Names : Distinct(used'[n]) /\ ToSet(used'[n]) \subseteq ToSet(used[n])
  <2>1. CASE used' = used
    BY <2>1, PoolFacts
  <2>2. CASE used' = [n \in Names |-> Without(used[n], s)]
    <3>1. /\ used' \in [Names -> Seq(Sockets)]
          /\ \A n \in Names : Distinct(used'[n]) /\ ToSet(used'[n]) = ToSet(used[n]) \ {s}
      <4>1. \A n \in Names : used[n] \in Seq(Sockets) /\ Distinct(used[n]) /\ used'[n] = Without(used[n], s)
        BY <2>2, PoolFacts
      <4>2. ASSUME NEW n \in Names
            PROVE  /\ used'[n] \in Seq(Sockets) /\ Distinct(used'[n]) 
                   /\ ToSet(used'[n]) = ToSet(used[n]) \ {s}
        BY <4>1, ListWithout
      <4> QED BY <2>2, <4>2
    <3> QED BY <3>1
  <2> QED BY <1>5, <2>1, <2>2
<1>8. \A n \in Names : \A t \in ToSet(free'[n]) :
         mine[t] = t /\ host[t] = n /\ t \notin leaked' /\ \A r \in Using' : mine[r] # t
  BY <1>1, <1>2, <1>6 DEF AgentIInv, PoolOK
<1>9. \A n \in Names : \A t \in ToSet(used'[n]) :
         t \in ToSet(used[n]) /\ (t \in leaked' \/ \E r \in Using' : mine[r] = t)
  BY <1>1, <1>2, <1>7 DEF AgentIInv, PoolOK
<1>10. \A t \in leaked' : mine[t] = t /\ \A r \in Using' : mine[r] # t
  BY <1>1, <1>2 DEF AgentIInv, PoolOK
<1>11. phase' \in [Calls -> Phases] /\ gone' \subseteq Calls /\ leaked' \subseteq Sockets
  BY <1>1 DEF AgentIInv, MineOK, PoolOK
<1>12. MineOK' /\ PoolOK'
  BY <1>1, <1>2, <1>4, <1>6, <1>7, <1>8, <1>9, <1>10, <1>11, SocketsLeft
<1> QED BY <1>1, <1>3, <1>12 DEF AgentIInv

LEMMA DestroyStep == ASSUME AgentIInv, DestroyAgent PROVE AgentIInv'
<1> DEFINE all == UNION {ToSet(used[n]) \cup ToSet(free[n]) : n \in Names}
<1>1. /\ UNCHANGED <<phase, host, mine, leaked>> /\ destroyedAgent' = TRUE
      /\ dead' = dead \cup all /\ dying' = dying \cup (all \ dead)
      /\ gone' = gone \cup {r \in Running : mine[r] \in all \ dead}
      /\ used' = [n \in Names |-> <<>>] /\ free' = [n \in Names |-> <<>>]
  BY DEF DestroyAgent
<1>2. all \subseteq Sockets
  BY PoolFacts DEF ToSet
<1> HIDE DEF all
<1>3. dead' \subseteq Sockets /\ dying' \subseteq dead' /\ leaked' \subseteq Sockets /\ gone' \subseteq Calls
      /\ phase' \in [Calls -> Phases] /\ Using' = Using
  BY <1>1, <1>2 DEF AgentIInv, PoolOK, MineOK, Running, Using
<1>4. /\ free' \in [Names -> Seq(Sockets)] /\ used' \in [Names -> Seq(Sockets)]
      /\ \A n \in Names : /\ ToSet(free'[n]) = {} /\ ToSet(used'[n]) = {}
                          /\ Distinct(free'[n]) /\ Distinct(used'[n]) /\ Len(free'[n]) <= MaxFreeSockets
  BY <1>1, PoolFacts DEF Distinct, ToSet
<1>5. \A t \in leaked' : mine[t] = t /\ \A r \in Using' : mine[r] # t
  BY <1>1, <1>3 DEF AgentIInv, PoolOK
<1>6. MineOK' /\ PoolOK'
  BY <1>1, <1>3, <1>4, <1>5, SocketsLeft
<1> QED BY <1>1, <1>6, DestroyLimits DEF AgentIInv

LEMMA AgentStep == AgentIInv /\ [AgentNext]_AgentVars => AgentIInv'
<1>1. SUFFICES ASSUME AgentIInv, [AgentNext]_AgentVars PROVE AgentIInv'
  OBVIOUS
<1>2. CASE UNCHANGED AgentVars
  BY <1>1, <1>2 DEF AgentVars, limits, pool, AgentIInv, CountsMatch, CountsOf, At, LinesOK, NoIdleSlot, CanRun,
                    MineOK, PoolOK, Using, Running
<1>3. CASE AgentNext
  BY <1>1, <1>3, SendsStep, LimitsStep, AbortStep, SocketStep, DestroyStep DEF AgentNext
<1> QED BY <1>1, <1>2, <1>3

LEMMA AgentStarts == AgentInit => AgentIInv
<1>1. SUFFICES ASSUME AgentInit PROVE AgentIInv
  OBVIOUS
<1>2. Running = {} /\ Using = {} /\ Cardinality({}) = 0 /\ \A n \in Names : At(Running, n) = {}
  BY <1>1, FS_EmptySet DEF AgentInit, Running, Using, At
<1>3. Total(activeCount) = 0
  BY <1>1, RunningFinite, FS_EmptySet DEF Slots, AgentInit, Total
<1>4. CountsMatch
  <2>1. /\ activeCount \in [Names -> Nat] /\ \A n \in Names : activeCount[n] = 0
        /\ MaxSockets \in Nat /\ MaxTotalSockets \in Nat
    BY <1>1, AgentAssumption DEF AgentInit
  <2>2. \A n \in Names : Cardinality(At(Running, n)) = 0
    BY <1>2
  <2>3. Cardinality(Running) = 0
    BY <1>2
  <2> QED BY <1>3, <2>1, <2>2, <2>3 DEF CountsMatch, CountsOf
<1>5. LinesOK
  BY <1>1 DEF AgentInit, LinesOK, Distinct, ToSet, NoIdleSlot
<1>6. MineOK
  BY <1>1, <1>2 DEF AgentInit, MineOK, Phases
<1>7. PoolOK
  BY <1>1, <1>2, AgentAssumption DEF AgentInit, PoolOK, Distinct, ToSet
<1> QED BY <1>1, <1>4, <1>5, <1>6, <1>7 DEF AgentIInv, AgentInit

LEMMA AgentImplied == AgentIInv => AgentInv
<1>1. SUFFICES ASSUME AgentIInv PROVE AgentInv
  OBVIOUS
<1>2. AgentTypeOK
  <2>1. activeCount \in [Names -> 0..Cardinality(Calls)]
    <3>1. activeCount \in [Names -> Nat] /\ \A n \in Names : activeCount[n] <= Cardinality(At(Running, n))
      BY <1>1 DEF AgentIInv, CountsMatch, CountsOf
    <3>2. ASSUME NEW n \in Names PROVE activeCount[n] \in 0..Cardinality(Calls)
      <4>1. At(Running, n) \in SUBSET Calls
        BY DEF At, Running
      <4>2. /\ Cardinality(At(Running, n)) \in Nat /\ Cardinality(At(Running, n)) <= Cardinality(Calls)
            /\ Cardinality(Calls) \in Nat
        BY <4>1, RunningFinite
      <4>3. activeCount[n] \in Nat /\ activeCount[n] <= Cardinality(At(Running, n))
        BY <3>1
      <4> QED BY <4>2, <4>3
    <3> QED BY <3>1, <3>2
  <2> QED BY <1>1, <2>1 DEF AgentTypeOK, AgentIInv, LinesOK, MineOK, PoolOK
<1>3. WithinLimits
  <2>1. SUFFICES ASSUME ~destroyedAgent
                 PROVE  /\ Cardinality(Running) <= MaxTotalSockets
                        /\ \A n \in Names : Cardinality({r \in Running : host[r] = n}) <= MaxSockets
    BY DEF WithinLimits
  <2>2. /\ Total(activeCount) <= MaxTotalSockets /\ Total(activeCount) = Cardinality(Running)
        /\ \A n \in Names : activeCount[n] <= MaxSockets /\ activeCount[n] = Cardinality(At(Running, n))
    BY <1>1, <2>1 DEF AgentIInv, CountsMatch, CountsOf
  <2> QED BY <2>2 DEF At
<1>4. SocketsNotShared
  BY <1>1 DEF AgentIInv, MineOK, PoolOK, SocketsNotShared, Using
<1>5. OnlyUsedSockets
  BY <1>1 DEF AgentIInv, PoolOK, OnlyUsedSockets, Using, Running
<1> QED BY <1>1, <1>2, <1>3, <1>4, <1>5 DEF AgentInv, AgentIInv, LinesOK

\* Of any requests to any hosts, within any limits: no more run than the agent allows, none
\* waits that could run, no two share a socket and none of a free one, and agent.sockets
\* lists those in use (node_http.js, Agent).
THEOREM AgentIsSafe == AgentSpec => []AgentInv
<1>1. AgentInit => AgentIInv
  BY AgentStarts
<1>2. AgentIInv /\ [AgentNext]_AgentVars => AgentIInv'
  BY AgentStep
<1> QED BY <1>1, <1>2, AgentImplied, PTL DEF AgentSpec

-----------------------------------------------------------------------------
(* The writer of a socket: where its chunks are, which callbacks were called, what is due *)

\* A list of the chunks that follow the first n
Following(list, n) == list = [k \in 1..Len(list) |-> n + k]

Streams ==
    [buffered : Seq(Chunk), batch : Seq(Chunk), corked : BOOLEAN, needDrain : BOOLEAN,
     ending : BOOLEAN, errored : BOOLEAN, finalCalled : BOOLEAN, finished : BOOLEAN,
     destroyed : BOOLEAN, pendingcb : Int, onFinished : BOOLEAN, endAnswer : Seq({"ok", "error"}),
     net : {"none", "connect", "handle", "final"}, phase : {"connecting", "open", "gone"},
     ticks : Seq(Ticks), closed : BOOLEAN, answers : [Chunk -> Seq({"ok", "error"})],
     onWire : Seq(Chunk)]

\* How many chunks are with the host, in the write under way and buffered, and the jobs
Wire(s) == Len(s.onWire)
Held(s) == Len(s.batch)
Waiting(s) == Len(s.buffered)
Jobs(s) == Len(s.ticks)

\* The chunks with the host, those of the write under way and those buffered follow each
\* other; they are all that write() took, but when the stream is over.
PlacesOK(s, m, over) ==
    /\ Following(s.onWire, 0) /\ Following(s.batch, Wire(s))
    /\ Following(s.buffered, Wire(s) + Held(s))
    /\ Wire(s) + Held(s) + Waiting(s) <= m /\ (~over => m = Wire(s) + Held(s) + Waiting(s))

\* The callbacks of the first n chunks were told of success; those that are under way or
\* buffered wait; and the others, of the m that were made, had an error.
AnswersOK(s, m, n) ==
    \A i \in Chunk :
        s.answers[i] = IF i <= n THEN <<"ok">>
                       ELSE IF i <= Wire(s) + Held(s) + Waiting(s) \/ i > m THEN <<>> ELSE <<"error">>

FinishDue(s) == \E i \in 1..Jobs(s) : s.ticks[i] = "finish"

\* Whether _final or 'finish' is due, and whether a write is under way
Finishing(s) == IF s.net = "final" \/ FinishDue(s) THEN 1 ELSE 0
Under(s) == IF s.batch = <<>> THEN 0 ELSE 1

\* pendingcb counts what is due; what an error answered is never taken off.
CallbacksOK(s, m, extra) ==
    /\ Under(s) + Waiting(s) + Finishing(s) + extra <= s.pendingcb
    /\ s.pendingcb <= m - Wire(s) - Held(s) + Under(s) + Finishing(s) + extra

\* 'finish' is due once, after end(), with nothing left to write.
EndingOK(s, over) ==
    /\ s.finished \/ Finishing(s) = 1 => s.ending /\ s.batch = <<>> /\ s.buffered = <<>>
    /\ Finishing(s) = 1 => s.finalCalled \/ s.destroyed
    /\ ~(s.net = "final" /\ FinishDue(s))
    /\ \A i, j \in 1..Jobs(s) : s.ticks[i] = "finish" /\ s.ticks[j] = "finish" => i = j
    /\ \A i \in 1..Jobs(s) : s.ticks[i] = "errorBuffer" => over
    /\ s.batch = <<>> <=> s.net \in {"none", "final"}

\* In the middle of a step n of the answers are given, pendingcb is ahead by "extra", and
\* the stream may be over before it is destroyed.
StreamOK(s, m, n, extra, over) ==
    /\ s \in Streams /\ n <= Wire(s) /\ (s.destroyed => over)
    /\ PlacesOK(s, m, over) /\ AnswersOK(s, m, n) /\ CallbacksOK(s, m, extra) /\ EndingOK(s, over)

\* What is buffered waits for the write under way, or for uncork().
Tidy(s) ==
    /\ s.buffered # <<>> /\ s.batch = <<>> => s.corked \/ s.destroyed
    /\ s.errored => s.destroyed

Fine(s, m) == StreamOK(s, m, Wire(s), 0, s.destroyed) /\ Tidy(s)

WriteIInv == made \in 0..Writes /\ Fine(stream, made)

-----------------------------------------------------------------------------
(* Lists *)

LEMMA FollowingItems ==
  ASSUME NEW list \in Seq(Chunk), NEW n \in Nat, Following(list, n)
  PROVE  \A i \in Chunk : i \in ToSet(list) <=> n < i /\ i <= n + Len(list)
<1>1. Len(list) \in Nat /\ DOMAIN list = 1..Len(list)
  OBVIOUS
<1>2. \A k \in 1..Len(list) : list[k] = n + k
  BY DEF Following
<1>3. Chunk \subseteq Nat
  BY WriteAssumption DEF Chunk
<1>4. SUFFICES ASSUME NEW i \in Chunk PROVE i \in ToSet(list) <=> n < i /\ i <= n + Len(list)
  OBVIOUS
<1>5. i \in Nat
  BY <1>3
<1>6. i \in ToSet(list) => n < i /\ i <= n + Len(list)
  <2>1. SUFFICES ASSUME i \in ToSet(list) PROVE n < i /\ i <= n + Len(list)
    OBVIOUS
  <2>2. PICK k \in 1..Len(list) : i = list[k]
    BY <1>1, <2>1 DEF ToSet
  <2> QED BY <1>1, <1>2, <2>2
<1>7. n < i /\ i <= n + Len(list) => i \in ToSet(list)
  <2>1. SUFFICES ASSUME n < i, i <= n + Len(list) PROVE i \in ToSet(list)
    OBVIOUS
  <2>2. i - n \in 1..Len(list) /\ n + (i - n) = i
    BY <1>1, <1>5, <2>1
  <2>3. list[i - n] = i
    BY <1>2, <2>2
  <2> QED BY <1>1, <2>2, <2>3 DEF ToSet
<1> QED BY <1>6, <1>7

LEMMA FollowingNone == ASSUME NEW n PROVE Following(<<>>, n)
BY DEF Following

LEMMA FollowingOne ==
  ASSUME NEW list \in Seq(Chunk), NEW n \in Nat, Following(list, n), NEW i \in Chunk, i = n + Len(list) + 1
  PROVE  Append(list, i) \in Seq(Chunk) /\ Len(Append(list, i)) = Len(list) + 1 /\ Following(Append(list, i), n)
<1> DEFINE z == Len(list)
           more == Append(list, i)
<1>1. z \in Nat /\ more \in Seq(Chunk) /\ Len(more) = z + 1 /\ more[z + 1] = i /\ \A k \in 1..z : more[k] = list[k]
  OBVIOUS
<1>2. \A k \in 1..z : list[k] = n + k
  BY DEF Following
<1>3. i = n + (z + 1) /\ DOMAIN more = 1..Len(more)
  <2>1. i = n + z + 1
    OBVIOUS
  <2>2. DOMAIN more = 1..Len(more)
    BY <1>1
  <2> HIDE DEF more, z
  <2> QED BY <1>1, <2>1, <2>2
<1>4. more = [k \in DOMAIN more |-> more[k]]
  BY <1>1
<1> HIDE DEF more, z
<1>5. ASSUME NEW k \in 1..z + 1 PROVE more[k] = n + k
  <2>1. k \in 1..z \/ k = z + 1
    BY <1>1
  <2>2. CASE k \in 1..z
    BY <2>2, <1>1, <1>2
  <2>3. CASE k = z + 1
    BY <2>3, <1>1, <1>3
  <2> QED BY <2>1, <2>2, <2>3
<1>6. Following(more, n)
  BY <1>1, <1>3, <1>4, <1>5 DEF Following
<1> QED BY <1>1, <1>6 DEF more, z

LEMMA FollowingBoth ==
  ASSUME NEW u \in Seq(Chunk), NEW v \in Seq(Chunk), NEW n \in Nat, Following(u, n), Following(v, n + Len(u))
  PROVE  u \o v \in Seq(Chunk) /\ Len(u \o v) = Len(u) + Len(v) /\ Following(u \o v, n)
<1> DEFINE x == Len(u)
           y == Len(v)
           w == u \o v
<1>1. w \in Seq(Chunk) /\ Len(w) = x + y /\ x \in Nat /\ y \in Nat
  OBVIOUS
<1>2. \A k \in 1..x : w[k] = u[k]
  OBVIOUS
<1>3. \A k \in x + 1..x + y : w[k] = v[k - x]
  OBVIOUS
<1>4. /\ \A k \in 1..x : u[k] = n + k
      /\ \A k \in 1..y : v[k] = (n + x) + k
  BY DEF Following
<1> HIDE DEF w, x, y
<1>5. w = [k \in 1..Len(w) |-> w[k]]
  BY <1>1
<1>6. ASSUME NEW k \in 1..x + y PROVE w[k] = n + k
  <2>1. CASE k <= x
    BY <2>1, <1>1, <1>2, <1>4
  <2>2. CASE ~(k <= x)
    BY <1>1, <1>3, <1>4, <2>2
  <2> QED BY <2>1, <2>2
<1>7. Following(w, n)
  BY <1>1, <1>5, <1>6 DEF Following
<1> QED BY <1>1, <1>7 DEF w, x, y

-----------------------------------------------------------------------------
(* One state of a stream and another *)

LEMMA Lengths ==
  ASSUME NEW s \in Streams
  PROVE  /\ Wire(s) \in Nat /\ Held(s) \in Nat /\ Waiting(s) \in Nat /\ s.pendingcb \in Int
         /\ (Size(s) = 0 <=> s.batch = <<>> /\ s.buffered = <<>>)
         /\ Finishing(s) \in {0, 1} /\ Under(s) \in {0, 1} /\ Under(s) <= Held(s)
         /\ (s.batch = <<>> <=> Held(s) = 0) /\ (s.batch = <<>> <=> Under(s) = 0)
         /\ (s.buffered = <<>> <=> Waiting(s) = 0) /\ Jobs(s) \in Nat
BY DEF Streams, Wire, Held, Waiting, Jobs, Size, Finishing, Under

\* Where chunks and answers are, and 'finish', is the same, and pendingcb k more.
SameBut(s, t, k) ==
    /\ t \in Streams /\ t.buffered = s.buffered /\ t.batch = s.batch /\ t.net = s.net
    /\ t.ticks = s.ticks /\ t.answers = s.answers /\ t.onWire = s.onWire /\ t.finished = s.finished
    /\ t.pendingcb = s.pendingcb + k
    /\ (s.ending => t.ending) /\ (s.finalCalled => t.finalCalled) /\ (s.destroyed => t.destroyed)

\* What a step leaves alone that does not move chunks
Kept(s, t) ==
    /\ t.onWire = s.onWire /\ t.batch = s.batch /\ t.buffered = s.buffered
    /\ t.corked = s.corked /\ t.errored = s.errored /\ t.destroyed = s.destroyed
Quiet(s, t) == SameBut(s, t, 0) /\ Kept(s, t)
Steady(s, t) ==
    /\ t.onWire = s.onWire /\ t.batch = s.batch
    /\ t.corked = s.corked /\ t.errored = s.errored /\ t.destroyed = s.destroyed

LEMMA SameIsOK ==
  ASSUME NEW s, NEW t, NEW m \in Nat, NEW n \in Nat, NEW extra \in Int, NEW k \in Int, NEW over,
         NEW after, StreamOK(s, m, n, extra, over), SameBut(s, t, k), over => after, t.destroyed => after,
         NEW total, total = extra + k
  PROVE  StreamOK(t, m, n, total, after)
<1>1. s \in Streams /\ t \in Streams /\ n <= Wire(s) /\ (t.destroyed => after)
  BY DEF StreamOK, SameBut
<1>2. /\ Wire(t) = Wire(s) /\ Held(t) = Held(s) /\ Waiting(t) = Waiting(s)
      /\ Under(t) = Under(s) /\ Finishing(t) = Finishing(s) /\ (FinishDue(t) <=> FinishDue(s))
      /\ t.pendingcb = s.pendingcb + k
  BY DEF SameBut, Wire, Held, Waiting, Jobs, Under, Finishing, FinishDue
<1>3. PlacesOK(t, m, after)
  BY <1>2 DEF StreamOK, PlacesOK, SameBut
<1>4. AnswersOK(t, m, n)
  BY <1>2 DEF StreamOK, AnswersOK, SameBut
<1>5. CallbacksOK(t, m, total)
  <2>1. /\ Under(s) + Waiting(s) + Finishing(s) + extra <= s.pendingcb
        /\ s.pendingcb <= m - Wire(s) - Held(s) + Under(s) + Finishing(s) + extra
    BY DEF StreamOK, CallbacksOK
  <2>2. /\ Wire(s) \in Nat /\ Held(s) \in Nat /\ Waiting(s) \in Nat /\ s.pendingcb \in Int
        /\ Finishing(s) \in Int /\ Under(s) \in Int
    BY <1>1, Lengths
  <2>3. /\ Under(s) + Waiting(s) + Finishing(s) + (extra + k) <= s.pendingcb + k
        /\ s.pendingcb + k <= m - Wire(s) - Held(s) + Under(s) + Finishing(s) + (extra + k)
    BY <2>1, <2>2
  <2> QED BY <2>3, <1>2 DEF CallbacksOK
<1>6. EndingOK(t, after)
  <2>1. EndingOK(s, over)
    BY DEF StreamOK
  <2>2. /\ t.finished = s.finished /\ t.batch = s.batch /\ t.buffered = s.buffered /\ t.net = s.net
        /\ t.ticks = s.ticks /\ (s.ending => t.ending) /\ (s.finalCalled => t.finalCalled)
        /\ (s.destroyed => t.destroyed)
    BY DEF SameBut
  <2>3. /\ t.finished \/ Finishing(t) = 1 => t.ending /\ t.batch = <<>> /\ t.buffered = <<>>
        /\ Finishing(t) = 1 => t.finalCalled \/ t.destroyed
    BY <2>1, <2>2, <1>2 DEF EndingOK
  <2>4. ~(t.net = "final" /\ FinishDue(t))
    <3>1. ~(s.net = "final" /\ FinishDue(s))
      BY <2>1 DEF EndingOK
    <3> QED BY <3>1, <2>2, <1>2, Zenon
  <2>6. t.batch = <<>> <=> t.net \in {"none", "final"}
    BY <2>1, <2>2 DEF EndingOK
  <2>7. Jobs(t) = Jobs(s)
    BY <2>2 DEF Jobs
  <2>8. \A i, j \in 1..Jobs(t) : t.ticks[i] = "finish" /\ t.ticks[j] = "finish" => i = j
    BY <2>1, <2>2, <2>7 DEF EndingOK
  <2>5. \A i \in 1..Jobs(t) : t.ticks[i] = "errorBuffer" => after
    BY <2>1, <2>2, <2>7 DEF EndingOK
  <2> QED BY <2>3, <2>4, <2>5, <2>6, <2>8 DEF EndingOK
<1> QED BY <1>1, <1>2, <1>3, <1>4, <1>5, <1>6 DEF StreamOK

LEMMA SameAsIs ==
  ASSUME NEW s, NEW t, NEW m \in Nat, NEW n \in Nat, NEW extra \in Int, NEW over, NEW after,
         StreamOK(s, m, n, extra, over), SameBut(s, t, 0), over => after, t.destroyed => after
  PROVE  StreamOK(t, m, n, extra, after)
<1>1. PICK k \in Int : k = 0
  OBVIOUS
<1>2. SameBut(s, t, k) /\ extra = extra + k
  BY <1>1
<1> QED BY <1>1, <1>2, SameIsOK

LEMMA LaterFields ==
  ASSUME NEW s \in Streams, NEW job \in Ticks
  PROVE  /\ Later(s, job) \in Streams /\ Kept(s, Later(s, job))
         /\ Later(s, job).ticks = Append(s.ticks, job) /\ Later(s, job).net = s.net
         /\ Later(s, job).answers = s.answers /\ Later(s, job).finished = s.finished
         /\ Later(s, job).pendingcb = s.pendingcb /\ Later(s, job).ending = s.ending
         /\ Later(s, job).finalCalled = s.finalCalled
         /\ Jobs(Later(s, job)) = Jobs(s) + 1
         /\ \A i \in 1..Jobs(s) + 1 :
               Later(s, job).ticks[i] = IF i = Jobs(s) + 1 THEN job ELSE s.ticks[i]
<1>1. s.ticks \in Seq(Ticks)
  BY DEF Streams
<1>2. Append(s.ticks, job) \in Seq(Ticks)
  BY <1>1
<1>3. Later(s, job) \in Streams
  BY <1>2 DEF Later, Streams
<1>4. /\ Len(Append(s.ticks, job)) = Jobs(s) + 1
      /\ \A i \in 1..Jobs(s) + 1 :
            Append(s.ticks, job)[i] = IF i = Jobs(s) + 1 THEN job ELSE s.ticks[i]
  BY <1>1 DEF Jobs
<1>5. /\ Later(s, job).ticks = Append(s.ticks, job) /\ Later(s, job).net = s.net
      /\ Later(s, job).answers = s.answers /\ Later(s, job).finished = s.finished
      /\ Later(s, job).pendingcb = s.pendingcb /\ Later(s, job).ending = s.ending
      /\ Later(s, job).finalCalled = s.finalCalled /\ Kept(s, Later(s, job))
  BY DEF Later, Streams, Kept
<1>6. Jobs(Later(s, job)) = Jobs(s) + 1
  BY <1>4, <1>5 DEF Jobs
<1> QED BY <1>3, <1>4, <1>5, <1>6

\* A job but 'finish' is put off.
LEMMA LaterIsOK ==
  ASSUME NEW s, NEW m \in Nat, NEW n \in Nat, NEW extra \in Int, NEW over, NEW job \in {"errorBuffer", "close"},
         StreamOK(s, m, n, extra, over), job = "errorBuffer" => over
  PROVE  StreamOK(Later(s, job), m, n, extra, over) /\ Kept(s, Later(s, job))
<1> DEFINE t == Later(s, job)
<1>1. s \in Streams /\ job \in Ticks /\ job # "finish"
  BY DEF StreamOK, Ticks
<1>2. /\ t \in Streams /\ Kept(s, t) /\ t.net = s.net /\ t.answers = s.answers /\ t.finished = s.finished
      /\ t.pendingcb = s.pendingcb /\ t.ending = s.ending /\ t.finalCalled = s.finalCalled
      /\ Jobs(t) = Jobs(s) + 1
      /\ \A i \in 1..Jobs(s) + 1 : t.ticks[i] = IF i = Jobs(s) + 1 THEN job ELSE s.ticks[i]
  BY <1>1, LaterFields
<1> HIDE DEF t
<1>3. Jobs(s) \in Nat
  BY <1>1, Lengths
<1>4. FinishDue(t) <=> FinishDue(s)
  BY <1>1, <1>2, <1>3 DEF FinishDue
<1>5. Wire(t) = Wire(s) /\ Held(t) = Held(s) /\ Waiting(t) = Waiting(s) /\ Under(t) = Under(s) /\ Finishing(t) = Finishing(s)
  BY <1>2, <1>4 DEF Kept, Wire, Held, Waiting, Under, Finishing
<1>6. PlacesOK(t, m, over) /\ AnswersOK(t, m, n) /\ CallbacksOK(t, m, extra)
  BY <1>2, <1>5 DEF StreamOK, PlacesOK, AnswersOK, CallbacksOK, Kept
<1>7. EndingOK(t, over)
  BY <1>1, <1>2, <1>3, <1>4, <1>5 DEF StreamOK, EndingOK, Kept
<1>8. n <= Wire(t) /\ (t.destroyed => over)
  BY <1>2, <1>5 DEF StreamOK, Kept
<1> QED BY <1>2, <1>6, <1>7, <1>8 DEF StreamOK, t

\* 'finish' is put off: nothing is left to write, and it is not due yet.
LEMMA FinishIsOK ==
  ASSUME NEW s, NEW m \in Nat, NEW n \in Nat, NEW extra \in Int, NEW over,
         NEW more, more = extra + 1, StreamOK(s, m, n, more, over), Finishing(s) = 0, s.ending, s.batch = <<>>, s.buffered = <<>>,
         s.finalCalled \/ s.destroyed
  PROVE  StreamOK(Later(s, "finish"), m, n, extra, over) /\ Kept(s, Later(s, "finish"))
<1> DEFINE t == Later(s, "finish")
<1>1. s \in Streams /\ "finish" \in Ticks /\ s.net # "final" /\ ~FinishDue(s)
  BY DEF StreamOK, Ticks, Finishing
<1>2. /\ t \in Streams /\ Kept(s, t) /\ t.net = s.net /\ t.answers = s.answers /\ t.finished = s.finished
      /\ t.pendingcb = s.pendingcb /\ t.ending = s.ending /\ t.finalCalled = s.finalCalled
      /\ Jobs(t) = Jobs(s) + 1
      /\ \A i \in 1..Jobs(s) + 1 : t.ticks[i] = IF i = Jobs(s) + 1 THEN "finish" ELSE s.ticks[i]
  <2>1. PICK job \in Ticks : job = "finish"
    BY <1>1
  <2> HIDE DEF t
  <2>2. /\ Later(s, job) \in Streams /\ Kept(s, Later(s, job)) /\ Later(s, job).net = s.net
        /\ Later(s, job).answers = s.answers /\ Later(s, job).finished = s.finished
        /\ Later(s, job).pendingcb = s.pendingcb /\ Later(s, job).ending = s.ending
        /\ Later(s, job).finalCalled = s.finalCalled /\ Jobs(Later(s, job)) = Jobs(s) + 1
        /\ \A i \in 1..Jobs(s) + 1 : Later(s, job).ticks[i] = IF i = Jobs(s) + 1 THEN job ELSE s.ticks[i]
    <3>1. s \in Streams
      BY <1>1
    <3>2. job \in Ticks
      BY <2>1
    <3> QED BY ONLY <3>1, <3>2, LaterFields
  <2>3. Later(s, job) = t
    BY <2>1 DEF t
  <2> QED BY <2>1, <2>2, <2>3
<1> HIDE DEF t
<1>3. Jobs(s) \in Nat
  BY <1>1, Lengths
<1>4. FinishDue(t)
  <2>1. Jobs(s) + 1 \in 1..Jobs(t) /\ t.ticks[Jobs(s) + 1] = "finish"
    BY <1>2, <1>3
  <2> QED BY <2>1 DEF FinishDue
<1>5. Wire(t) = Wire(s) /\ Held(t) = Held(s) /\ Waiting(t) = Waiting(s) /\ Under(t) = Under(s) /\ Finishing(t) = 1
  BY <1>2, <1>4 DEF Kept, Wire, Held, Waiting, Under, Finishing
<1>6. PlacesOK(t, m, over) /\ AnswersOK(t, m, n)
  BY <1>2, <1>5 DEF StreamOK, PlacesOK, AnswersOK, Kept
<1>7. CallbacksOK(t, m, extra)
  <2>1. /\ Under(s) + Waiting(s) + (extra + 1) <= s.pendingcb
        /\ s.pendingcb <= m - Wire(s) - Held(s) + Under(s) + (extra + 1)
    BY <1>1, Lengths DEF StreamOK, CallbacksOK
  <2>0. /\ Wire(s) \in Nat /\ Held(s) \in Nat /\ Waiting(s) \in Nat /\ s.pendingcb \in Int
        /\ Under(s) \in Int
    BY <1>1, Lengths
  <2>2. Under(s) + Waiting(s) + 1 + extra <= s.pendingcb
    BY <2>0, <2>1
  <2>3. s.pendingcb <= m - Wire(s) - Held(s) + Under(s) + 1 + extra
    BY <2>0, <2>1
  <2> QED BY <2>2, <2>3, <1>2, <1>5 DEF CallbacksOK, Kept
<1>8. EndingOK(t, over)
  BY <1>1, <1>2, <1>3, <1>4, <1>5 DEF FinishDue, StreamOK, EndingOK, Kept
<1>9. n <= Wire(t) /\ (t.destroyed => over)
  BY <1>2, <1>5 DEF StreamOK, Kept
<1> QED BY <1>2, <1>6, <1>7, <1>8, <1>9 DEF StreamOK, t

LEMMA QuietIsOK ==
  ASSUME NEW s, NEW t, NEW m \in Nat, NEW n \in Nat, NEW extra \in Int, NEW over,
         StreamOK(s, m, n, extra, over), Quiet(s, t)
  PROVE  StreamOK(t, m, n, extra, over)
BY SameAsIs DEF Quiet, Kept, StreamOK

LEMMA AnswerEndIsQuiet ==
  ASSUME NEW s \in Streams, NEW with \in {"ok", "error"}
  PROVE  Quiet(s, AnswerEnd(s, with))
<1>1. CASE s.onFinished
  <2> DEFINE t == [s EXCEPT !.onFinished = FALSE, !.endAnswer = Append(@, with)]
  <2>1. AnswerEnd(s, with) = t
    BY <1>1 DEF AnswerEnd
  <2>2. s.endAnswer \in Seq({"ok", "error"}) /\ s.pendingcb \in Int
    BY DEF Streams
  <2>3. Append(s.endAnswer, with) \in Seq({"ok", "error"})
    BY <2>2
  <2>4. t \in Streams
    BY <2>3 DEF Streams
  <2>5. Quiet(s, t)
    BY <2>2, <2>4 DEF Quiet, SameBut, Kept, Streams
  <2> QED BY <2>1, <2>5
<1>2. CASE ~s.onFinished
  BY <1>2 DEF AnswerEnd, Streams, Quiet, SameBut, Kept
<1> QED BY <1>1, <1>2

LEMMA DrainIsQuiet == ASSUME NEW s \in Streams PROVE Quiet(s, Drain(s))
<1>1. s.pendingcb \in Int
  BY DEF Streams
<1>2. CASE Drain(s) = s
  BY <1>1, <1>2 DEF Quiet, SameBut, Kept
<1>3. CASE Drain(s) = [s EXCEPT !.needDrain = FALSE]
  <2> DEFINE t == [s EXCEPT !.needDrain = FALSE]
  <2>1. t \in Streams
    BY DEF Streams
  <2>2. /\ t.buffered = s.buffered /\ t.batch = s.batch /\ t.net = s.net /\ t.ticks = s.ticks
        /\ t.answers = s.answers /\ t.onWire = s.onWire /\ t.finished = s.finished
        /\ t.pendingcb = s.pendingcb /\ t.ending = s.ending /\ t.finalCalled = s.finalCalled
        /\ t.destroyed = s.destroyed /\ t.corked = s.corked /\ t.errored = s.errored
    BY DEF Streams
  <2> HIDE DEF t
  <2>3. Quiet(s, t)
    BY <1>1, <2>1, <2>2 DEF Quiet, SameBut, Kept
  <2> QED BY <1>3, <2>3 DEF t
<1> QED BY <1>2, <1>3 DEF Drain

LEMMA AnswerFields ==
  ASSUME NEW s \in Streams, NEW chunks, NEW with \in {"ok", "error"}
  PROVE  /\ Answer(s, chunks, with) \in Streams
         /\ \A i \in Chunk : Answer(s, chunks, with).answers[i] =
               IF i \in ToSet(chunks) THEN Append(s.answers[i], with) ELSE s.answers[i]
         /\ Answer(s, chunks, with) = [s EXCEPT !.answers = Answer(s, chunks, with).answers]
<1> DEFINE new == [i \in Chunk |-> IF i \in ToSet(chunks) THEN Append(s.answers[i], with) ELSE s.answers[i]]
<1>1. \A i \in Chunk : s.answers[i] \in Seq({"ok", "error"})
  BY DEF Streams
<1>2. \A i \in Chunk : Append(s.answers[i], with) \in Seq({"ok", "error"})
  BY <1>1
<1>3. new \in [Chunk -> Seq({"ok", "error"})]
  BY <1>1, <1>2
<1>4. Answer(s, chunks, with) = [s EXCEPT !.answers = new]
  BY DEF Answer
<1>5. \A i \in Chunk : new[i] = IF i \in ToSet(chunks) THEN Append(s.answers[i], with) ELSE s.answers[i]
  OBVIOUS
<1> HIDE DEF new
<1>6. [s EXCEPT !.answers = new] \in Streams /\ [s EXCEPT !.answers = new].answers = new
  BY <1>3 DEF Streams
<1> QED BY <1>4, <1>5, <1>6

\* An error answers what is buffered or in the write under way, which is dropped.
LEMMA DroppedIsOK ==
  ASSUME NEW s, NEW t, NEW m \in Nat, NEW n \in Nat, NEW extra \in Int, NEW over, over = TRUE,
         StreamOK(s, m, n, extra, over), n = Wire(s), t \in Streams,
         t.buffered = <<>>, t.batch = <<>>, t.onWire = s.onWire, t.ticks = s.ticks, t.finished = s.finished,
         s.ending => t.ending, s.finalCalled => t.finalCalled, s.destroyed => t.destroyed,
         t.net = IF s.batch = <<>> THEN s.net ELSE "none", t.pendingcb = s.pendingcb - Under(s),
         \A i \in Chunk : t.answers[i] = IF i \in ToSet(s.batch) \cup ToSet(s.buffered)
                                         THEN Append(s.answers[i], "error") ELSE s.answers[i]
  PROVE  StreamOK(t, m, n, extra, over)
<1>1. s \in Streams /\ PlacesOK(s, m, over) /\ AnswersOK(s, m, n) /\ CallbacksOK(s, m, extra) /\ EndingOK(s, over)
  BY DEF StreamOK
<1>2. /\ Wire(s) \in Nat /\ Held(s) \in Nat /\ Waiting(s) \in Nat /\ s.pendingcb \in Int
      /\ Finishing(s) \in {0, 1} /\ Under(s) \in {0, 1} /\ Under(s) <= Held(s) /\ (s.batch = <<>> <=> Under(s) = 0)
  BY <1>1, Lengths
<1>3. Wire(t) = Wire(s) /\ Held(t) = 0 /\ Waiting(t) = 0 /\ Under(t) = 0 /\ Jobs(t) = Jobs(s)
  BY DEF Wire, Held, Waiting, Under, Jobs
<1>4. t.net = "final" <=> s.net = "final"
  BY <1>1 DEF EndingOK
<1>5. FinishDue(t) <=> FinishDue(s)
  BY <1>3 DEF FinishDue
<1>6. Finishing(t) = Finishing(s)
  BY <1>4, <1>5 DEF Finishing
<1>7. PlacesOK(t, m, over)
  BY <1>1, <1>2, <1>3, FollowingNone DEF PlacesOK
<1>8. AnswersOK(t, m, n)
  <2>1. SUFFICES ASSUME NEW i \in Chunk
                 PROVE  t.answers[i] = IF i <= n THEN <<"ok">>
                                       ELSE IF i <= Wire(t) + Held(t) + Waiting(t) \/ i > m THEN <<>> ELSE <<"error">>
    BY DEF AnswersOK
  <2>2. i \in Nat
    BY WriteAssumption DEF Chunk
  <2>3. i \in ToSet(s.batch) <=> n < i /\ i <= n + Held(s)
    BY <1>1, FollowingItems DEF Streams, PlacesOK, Held
  <2>4. i \in ToSet(s.buffered) <=> n + Held(s) < i /\ i <= n + Held(s) + Waiting(s)
    <3>1. s.buffered \in Seq(Chunk) /\ Following(s.buffered, n + Held(s))
      BY <1>1 DEF Streams, PlacesOK
    <3>2. n + Held(s) \in Nat
      BY <1>2
    <3> QED BY <3>1, <3>2, FollowingItems DEF Waiting
  <2>5. s.answers[i] = IF i <= n THEN <<"ok">>
                       ELSE IF i <= n + Held(s) + Waiting(s) \/ i > m THEN <<>> ELSE <<"error">>
    BY <1>1 DEF AnswersOK
  <2>6. n + Held(s) + Waiting(s) <= m
    BY <1>1 DEF PlacesOK
  <2>7. Append(<<>>, "error") = <<"error">>
    OBVIOUS
  <2>8. CASE n < i /\ i <= n + Held(s) + Waiting(s)
    <3>1. i \in ToSet(s.batch) \cup ToSet(s.buffered)
      BY <2>2, <2>3, <2>4, <2>8, <1>2
    <3>2. s.answers[i] = <<>> /\ ~(i > m) /\ ~(i <= n)
      BY <2>2, <2>5, <2>6, <2>8, <1>2
    <3>3. t.answers[i] = <<"error">>
      BY <3>1, <3>2, <2>7
    <3> QED BY <3>2, <3>3, <1>2, <1>3, <2>2
  <2>9. CASE ~(n < i /\ i <= n + Held(s) + Waiting(s))
    BY <1>2, <1>3, <2>2, <2>3, <2>4, <2>5, <2>9
  <2> QED BY <2>8, <2>9
<1>9. CallbacksOK(t, m, extra)
  <2>1. /\ Under(s) + Waiting(s) + Finishing(s) + extra <= s.pendingcb
        /\ s.pendingcb <= m - Wire(s) - Held(s) + Under(s) + Finishing(s) + extra
    BY <1>1 DEF CallbacksOK
  <2> DEFINE due == Finishing(s)
             u == Under(s)
             cb == s.pendingcb
  <2>3. due \in Int /\ u \in Int /\ cb \in Int
    BY <1>2
  <2>4. u + Waiting(s) + due + extra <= cb /\ cb <= m - Wire(s) - Held(s) + u + due + extra /\ u <= Held(s)
    BY <2>1, <1>2
  <2> HIDE DEF due, u, cb
  <2> DEFINE w == Wire(s)
             h == Held(s)
             q == Waiting(s)
  <2>6. w \in Int /\ h \in Nat /\ q \in Nat /\ m \in Int
        /\ u + q + due + extra <= cb /\ cb <= m - w - h + u + due + extra /\ u <= h
    BY <2>4, <1>2
  <2> HIDE DEF w, h, q
  <2>5. 0 + 0 + due + extra <= cb - u /\ cb - u <= m - w - 0 + 0 + due + extra
    BY <2>3, <2>6
  <2>2. /\ 0 + 0 + Finishing(s) + extra <= s.pendingcb - Under(s)
        /\ s.pendingcb - Under(s) <= m - Wire(s) - 0 + 0 + Finishing(s) + extra
    BY <2>5 DEF due, u, cb, w
  <2> QED BY <2>2, <1>2, <1>3, <1>6 DEF CallbacksOK
<1>10. EndingOK(t, over)
  BY <1>1, <1>3, <1>4, <1>5, <1>6 DEF EndingOK
<1> QED BY <1>2, <1>3, <1>7, <1>8, <1>9, <1>10 DEF StreamOK

\* The stream is over, or about to be.
LEMMA OverIsOK ==
  ASSUME NEW s, NEW m \in Nat, NEW n \in Nat, NEW extra \in Int, NEW over, StreamOK(s, m, n, extra, over),
         NEW after, after = TRUE
  PROVE  StreamOK(s, m, n, extra, after)
<1>1. s \in Streams /\ s.pendingcb \in Int
  BY DEF StreamOK, Streams
<1>2. SameBut(s, s, 0)
  BY <1>1 DEF SameBut
<1>3. (over => after) /\ (s.destroyed => after)
  OBVIOUS
<1> QED BY <1>2, <1>3, SameAsIs

LEMMA FineWhenOver ==
  ASSUME NEW t, NEW m \in Nat, NEW n, n = Wire(t), NEW over, over = TRUE, StreamOK(t, m, n, 0, over), t.destroyed
  PROVE  Fine(t, m)
BY DEF StreamOK, Streams, Fine, Tidy

LEMMA FailedFields ==
  ASSUME NEW s \in Streams, NEW t, t = Failed(s)
  PROVE  /\ t \in Streams /\ t.buffered = <<>> /\ t.batch = s.batch /\ t.onWire = s.onWire
         /\ t.ticks = s.ticks /\ t.finished = s.finished /\ (s.ending => t.ending)
         /\ (s.finalCalled => t.finalCalled) /\ t.destroyed = s.destroyed /\ t.corked = s.corked
         /\ t.errored = s.errored /\ t.net = s.net /\ t.pendingcb = s.pendingcb
         /\ \A i \in Chunk : t.answers[i] = IF i \in ToSet(s.buffered)
                                            THEN Append(s.answers[i], "error") ELSE s.answers[i]
<1> DEFINE a == Answer(s, s.buffered, "error")
           e == AnswerEnd(a, "error")
<1>1. /\ a \in Streams /\ a = [s EXCEPT !.answers = a.answers]
      /\ \A i \in Chunk : a.answers[i] = IF i \in ToSet(s.buffered)
                                         THEN Append(s.answers[i], "error") ELSE s.answers[i]
  BY AnswerFields
<1> HIDE DEF a
<1>2. Quiet(a, e)
  BY <1>1, AnswerEndIsQuiet
<1> HIDE DEF e
<1>3. t = [e EXCEPT !.buffered = <<>>]
  BY DEF Failed, e, a
<1>4. /\ a.batch = s.batch /\ a.onWire = s.onWire /\ a.ticks = s.ticks /\ a.finished = s.finished
      /\ a.ending = s.ending /\ a.finalCalled = s.finalCalled /\ a.destroyed = s.destroyed
      /\ a.corked = s.corked /\ a.errored = s.errored /\ a.net = s.net /\ a.pendingcb = s.pendingcb
      /\ a.pendingcb \in Int
  BY <1>1 DEF Streams
<1>5. e \in Streams
  BY <1>2 DEF Quiet, SameBut
<1>10. <<>> \in Seq(Chunk)
  OBVIOUS
<1>11. t \in Streams
  BY <1>3, <1>5, <1>10 DEF Streams
<1>6. /\ t.buffered = <<>> /\ t.batch = e.batch /\ t.onWire = e.onWire /\ t.ticks = e.ticks
      /\ t.finished = e.finished /\ t.ending = e.ending /\ t.finalCalled = e.finalCalled
      /\ t.destroyed = e.destroyed /\ t.corked = e.corked /\ t.errored = e.errored /\ t.net = e.net
      /\ t.pendingcb = e.pendingcb /\ t.answers = e.answers
  BY <1>3, <1>5 DEF Streams
<1>7. /\ e.batch = a.batch /\ e.onWire = a.onWire /\ e.ticks = a.ticks /\ e.finished = a.finished
      /\ (a.ending => e.ending) /\ (a.finalCalled => e.finalCalled) /\ e.destroyed = a.destroyed
      /\ e.corked = a.corked /\ e.errored = a.errored /\ e.net = a.net /\ e.answers = a.answers
      /\ e.pendingcb = a.pendingcb + 0
  BY <1>2 DEF Quiet, SameBut, Kept
<1>8. t.pendingcb = s.pendingcb
  BY <1>4, <1>6, <1>7
<1>9. /\ t.batch = s.batch /\ t.onWire = s.onWire /\ t.ticks = s.ticks /\ t.finished = s.finished
      /\ (s.ending => t.ending) /\ (s.finalCalled => t.finalCalled) /\ t.destroyed = s.destroyed
      /\ t.corked = s.corked /\ t.errored = s.errored /\ t.net = s.net /\ t.answers = a.answers
  BY <1>4, <1>6, <1>7
<1> QED BY <1>1, <1>6, <1>8, <1>9, <1>11

LEMMA ErrorBufferIsOK ==
  ASSUME NEW s, NEW m \in Nat, NEW n \in Nat, NEW extra \in Int, NEW over,
         StreamOK(s, m, n, extra, over), over = s.destroyed, s.destroyed, n = Wire(s), NEW t, t = ErrorBuffer(s)
  PROVE  StreamOK(t, m, n, extra, over) /\ Steady(s, t)
<1>0. over = TRUE
  BY DEF StreamOK, Streams
<1>1. CASE s.batch # <<>>
  BY <1>1 DEF ErrorBuffer, Steady
<1>2. CASE s.batch = <<>>
  <2>1. t = Failed(s) /\ s \in Streams /\ s.pendingcb \in Int /\ Under(s) = 0
    BY <1>2 DEF ErrorBuffer, StreamOK, Streams, Under
  <2>2. /\ t \in Streams /\ t.buffered = <<>> /\ t.batch = s.batch /\ t.onWire = s.onWire
        /\ t.ticks = s.ticks /\ t.finished = s.finished /\ (s.ending => t.ending)
        /\ (s.finalCalled => t.finalCalled) /\ t.destroyed = s.destroyed /\ t.corked = s.corked
        /\ t.errored = s.errored /\ t.net = s.net /\ t.pendingcb = s.pendingcb
        /\ \A i \in Chunk : t.answers[i] = IF i \in ToSet(s.buffered)
                                           THEN Append(s.answers[i], "error") ELSE s.answers[i]
    BY <2>1, FailedFields
  <2>3. ToSet(s.batch) \cup ToSet(s.buffered) = ToSet(s.buffered)
    BY <1>2 DEF ToSet
  <2>4. \A i \in Chunk : t.answers[i] = IF i \in ToSet(s.batch) \cup ToSet(s.buffered)
                                        THEN Append(s.answers[i], "error") ELSE s.answers[i]
    BY <2>2, <2>3
  <2>5. t.pendingcb = s.pendingcb - Under(s) /\ t.net = IF s.batch = <<>> THEN s.net ELSE "none"
    BY <1>2, <2>1, <2>2
  <2>6. t.batch = <<>>
    BY <1>2, <2>2
  <2>7. StreamOK(t, m, n, extra, over)
    BY <1>0, <2>2, <2>4, <2>5, <2>6, DroppedIsOK
  <2> QED BY <2>2, <2>7 DEF Steady
<1> QED BY <1>1, <1>2

LEMMA DestroyIsOK ==
  ASSUME NEW s, NEW m \in Nat, NEW n \in Nat, NEW extra \in Int, NEW over, NEW error \in BOOLEAN,
         StreamOK(s, m, n, extra, over), NEW t, t = Destroy(s, error), NEW after, after = TRUE
  PROVE  StreamOK(t, m, n, extra, after) /\ t.destroyed /\ t.onWire = s.onWire
<1>1. StreamOK(s, m, n, extra, after) /\ s \in Streams
  BY OverIsOK DEF StreamOK
<1>2. CASE s.destroyed
  BY <1>1, <1>2 DEF Destroy
<1>3. CASE ~s.destroyed
  <2> DEFINE p == IF s.buffered # <<>> \/ s.onFinished THEN Later(s, "errorBuffer") ELSE s
             d == [p EXCEPT !.destroyed = TRUE, !.errored = @ \/ error, !.phase = "gone"]
  <2>1. StreamOK(p, m, n, extra, after) /\ p.onWire = s.onWire
    BY <1>1, LaterIsOK DEF Kept
  <2>2. t = Later(d, "close")
    BY <1>3 DEF Destroy
  <2> HIDE DEF p
  <2>3. p \in Streams /\ p.pendingcb \in Int
    BY <2>1 DEF StreamOK, Streams
  <2>4. /\ d \in Streams /\ d.buffered = p.buffered /\ d.batch = p.batch /\ d.net = p.net
        /\ d.ticks = p.ticks /\ d.answers = p.answers /\ d.onWire = p.onWire /\ d.finished = p.finished
        /\ d.pendingcb = p.pendingcb /\ d.ending = p.ending /\ d.finalCalled = p.finalCalled /\ d.destroyed
    BY <2>3 DEF Streams
  <2> HIDE DEF d
  <2>5. SameBut(p, d, 0)
    BY <2>3, <2>4 DEF SameBut
  <2>6. (after => after) /\ (d.destroyed => after)
    OBVIOUS
  <2>7. StreamOK(d, m, n, extra, after)
    BY <2>1, <2>5, <2>6, SameAsIs
  <2>8. StreamOK(t, m, n, extra, after) /\ Kept(d, t)
    BY <2>2, <2>7, LaterIsOK
  <2> QED BY <2>1, <2>4, <2>8 DEF Kept
<1> QED BY <1>2, <1>3

-----------------------------------------------------------------------------
(* Finishing *)

\* The callback of _final, or what takes its place: 'finish' is put off, if it is needed.
LEMMA FinalIsOK ==
  ASSUME NEW d, NEW m \in Nat, NEW n \in Nat, NEW extra \in Int, NEW over,
         StreamOK(d, m, n, extra, over), Finishing(d) = 0, d.ending, d.batch = <<>>, d.buffered = <<>>,
         d.finalCalled \/ d.destroyed,
         NEW t, t = IF NeedFinish(d) THEN Later([d EXCEPT !.pendingcb = @ + 1], "finish") ELSE d
  PROVE  StreamOK(t, m, n, extra, over) /\ Kept(d, t)
<1>1. d \in Streams /\ d.pendingcb \in Int
  BY DEF StreamOK, Streams
<1>2. CASE ~NeedFinish(d)
  BY <1>2 DEF Kept
<1>3. CASE NeedFinish(d)
  <2> DEFINE c == [d EXCEPT !.pendingcb = @ + 1]
  <2>1. t = Later(c, "finish")
    BY <1>3
  <2>2. d.pendingcb + 1 \in Int
    BY <1>1
  <2>3. c \in Streams
    BY <1>1, <2>2 DEF Streams
  <2>4. /\ c.buffered = d.buffered /\ c.batch = d.batch /\ c.net = d.net /\ c.ticks = d.ticks
        /\ c.answers = d.answers /\ c.onWire = d.onWire /\ c.finished = d.finished
        /\ c.pendingcb = d.pendingcb + 1 /\ c.ending = d.ending /\ c.finalCalled = d.finalCalled
        /\ c.destroyed = d.destroyed /\ c.corked = d.corked /\ c.errored = d.errored
    BY <1>1 DEF Streams
  <2> HIDE DEF c
  <2>5. PICK k \in Int : k = 1
    OBVIOUS
  <2>6. PICK more \in Int : more = extra + k
    BY <2>5
  <2>7. SameBut(d, c, k) /\ (over => over) /\ (c.destroyed => over)
    BY <2>3, <2>4, <2>5 DEF SameBut, StreamOK
  <2>8. StreamOK(c, m, n, more, over)
    BY <2>6, <2>7, SameIsOK
  <2>9. Finishing(c) = 0
    BY <2>4 DEF Finishing, FinishDue, Jobs
  <2>10. more = extra + 1 /\ c.ending /\ c.batch = <<>> /\ c.buffered = <<>> /\ (c.finalCalled \/ c.destroyed)
    BY <2>4, <2>5, <2>6
  <2>11. StreamOK(t, m, n, extra, over) /\ Kept(c, t)
    BY <2>1, <2>8, <2>9, <2>10, FinishIsOK
  <2> QED BY <2>4, <2>11 DEF Kept
<1> QED BY <1>2, <1>3

\* 'finish': the stream has finished.
LEMMA FinishedIsOK ==
  ASSUME NEW s, NEW m \in Nat, NEW n \in Nat, NEW extra \in Int, NEW over, NEW more, more = extra + 1,
         StreamOK(s, m, n, more, over), Finishing(s) = 0, s.ending, s.batch = <<>>, s.buffered = <<>>,
         NEW t, t = Finished(s)
  PROVE  StreamOK(t, m, n, extra, over) /\ Kept(s, t)
<1> DEFINE f == [s EXCEPT !.pendingcb = @ - 1, !.finished = TRUE]
<1>1. s \in Streams /\ s.pendingcb \in Int
  BY DEF StreamOK, Streams
<1>2. s.pendingcb - 1 \in Int
  BY <1>1
<1>3. f \in Streams
  BY <1>1, <1>2 DEF Streams
<1>4. /\ f.buffered = s.buffered /\ f.batch = s.batch /\ f.net = s.net /\ f.ticks = s.ticks
      /\ f.answers = s.answers /\ f.onWire = s.onWire /\ f.pendingcb = s.pendingcb - 1
      /\ f.ending = s.ending /\ f.finalCalled = s.finalCalled /\ f.destroyed = s.destroyed
      /\ f.corked = s.corked /\ f.errored = s.errored
  BY <1>1 DEF Streams
<1>5. t = AnswerEnd(f, "ok")
  BY DEF Finished
<1> HIDE DEF f
<1>6. /\ Wire(f) = Wire(s) /\ Held(f) = Held(s) /\ Waiting(f) = Waiting(s) /\ Jobs(f) = Jobs(s)
      /\ Under(f) = Under(s) /\ (FinishDue(f) <=> FinishDue(s)) /\ Finishing(f) = 0
  BY <1>4 DEF Wire, Held, Waiting, Jobs, Under, Finishing, FinishDue
<1>7. PlacesOK(f, m, over) /\ AnswersOK(f, m, n)
  BY <1>4, <1>6 DEF StreamOK, PlacesOK, AnswersOK
<1>8. CallbacksOK(f, m, extra)
  <2>1. /\ Under(s) + Waiting(s) + 0 + more <= s.pendingcb
        /\ s.pendingcb <= m - Wire(s) - Held(s) + Under(s) + 0 + more
    BY DEF StreamOK, CallbacksOK
  <2>2. /\ Wire(s) \in Nat /\ Held(s) \in Nat /\ Waiting(s) \in Nat /\ Under(s) \in Int
    BY <1>1, Lengths
  <2>3. /\ Under(s) + Waiting(s) + 0 + extra <= s.pendingcb - 1
        /\ s.pendingcb - 1 <= m - Wire(s) - Held(s) + Under(s) + 0 + extra
    <3> DEFINE cb == s.pendingcb
               low == Under(s) + Waiting(s)
               high == m - Wire(s) - Held(s) + Under(s)
    <3>1. cb \in Int /\ low \in Int /\ high \in Int
      BY <2>2, <1>1
    <3>2. low + 0 + more <= cb /\ cb <= high + 0 + more
      BY <2>1
    <3> HIDE DEF cb, low, high
    <3>3. low + 0 + extra <= cb - 1 /\ cb - 1 <= high + 0 + extra
      BY <3>1, <3>2
    <3> QED BY <3>3 DEF cb, low, high
  <2> QED BY <2>3, <1>4, <1>6 DEF CallbacksOK
<1>9. EndingOK(f, over)
  BY <1>4, <1>6 DEF StreamOK, Finishing, EndingOK
<1>10. StreamOK(f, m, n, extra, over)
  BY <1>3, <1>4, <1>6, <1>7, <1>8, <1>9 DEF StreamOK
<1>11. Quiet(f, t)
  BY <1>3, <1>5, AnswerEndIsQuiet
<1>12. StreamOK(t, m, n, extra, over)
  BY <1>10, <1>11, QuietIsOK
<1> QED BY <1>4, <1>11, <1>12 DEF Quiet, Kept

\* callFinal, where 'finish' is needed: _final is called, once.
LEMMA CallFinalIsOK ==
  ASSUME NEW s, NEW m \in Nat, NEW n \in Nat, NEW extra \in Int, NEW over,
         StreamOK(s, m, n, extra, over), ~s.finalCalled, ~s.destroyed, s.ending, s.batch = <<>>, s.buffered = <<>>,
         NEW t, t = CallFinal(s)
  PROVE  StreamOK(t, m, n, extra, over) /\ Kept(s, t) /\ t.finalCalled
<1> DEFINE c == [s EXCEPT !.finalCalled = TRUE, !.pendingcb = @ + 1]
<1>1. s \in Streams /\ s.pendingcb \in Int /\ s.pendingcb + 1 \in Int
  BY DEF StreamOK, Streams
<1>2. Finishing(s) = 0 /\ s.net = "none" /\ ~FinishDue(s)
  BY <1>1, Lengths DEF StreamOK, EndingOK, Finishing
<1>3. c \in Streams
  BY <1>1 DEF Streams
<1>4. /\ c.buffered = s.buffered /\ c.batch = s.batch /\ c.net = s.net /\ c.ticks = s.ticks
      /\ c.answers = s.answers /\ c.onWire = s.onWire /\ c.finished = s.finished
      /\ c.pendingcb = s.pendingcb + 1 /\ c.ending = s.ending /\ c.finalCalled /\ c.phase = s.phase
      /\ c.destroyed = s.destroyed /\ c.corked = s.corked /\ c.errored = s.errored
  BY <1>1 DEF Streams
<1>5. t = IF s.phase = "connecting" THEN [c EXCEPT !.net = "final"] ELSE OnFinish(c)
  BY DEF CallFinal
<1> HIDE DEF c
<1>6. CASE s.phase # "connecting"
  <2> DEFINE d == [c EXCEPT !.pendingcb = @ - 1, !.net = "none"]
  <2>1. t = IF NeedFinish(d) THEN Later([d EXCEPT !.pendingcb = @ + 1], "finish") ELSE d
    BY <1>5, <1>6 DEF OnFinish
  <2>2. c.pendingcb - 1 = s.pendingcb /\ c.pendingcb - 1 \in Int
    BY <1>1, <1>4
  <2>3. d \in Streams
    BY <1>3, <2>2 DEF Streams
  <2>4. /\ d.buffered = c.buffered /\ d.batch = c.batch /\ d.net = "none" /\ d.ticks = c.ticks
        /\ d.answers = c.answers /\ d.onWire = c.onWire /\ d.finished = c.finished
        /\ d.pendingcb = c.pendingcb - 1 /\ d.ending = c.ending /\ d.finalCalled = c.finalCalled
        /\ d.destroyed = c.destroyed /\ d.corked = c.corked /\ d.errored = c.errored
    BY <1>3 DEF Streams
  <2> HIDE DEF d
  <2>5. d.pendingcb = s.pendingcb + 0
    BY <1>1, <2>2, <2>4
  <2>6. SameBut(s, d, 0) /\ (over => over) /\ (d.destroyed => over)
    BY <1>2, <1>4, <2>3, <2>4, <2>5 DEF SameBut, StreamOK
  <2>7. StreamOK(d, m, n, extra, over)
    BY <2>6, SameAsIs
  <2>8. Finishing(d) = 0 /\ d.ending /\ d.batch = <<>> /\ d.buffered = <<>> /\ (d.finalCalled \/ d.destroyed)
    BY <1>2, <1>4, <2>4 DEF Finishing, FinishDue, Jobs
  <2>9. StreamOK(t, m, n, extra, over) /\ Kept(d, t)
    BY <2>1, <2>7, <2>8, FinalIsOK
  <2>10. t.finalCalled
    <3>1. CASE t = d
      BY <3>1, <1>4, <2>4
    <3>2. CASE t = Later([d EXCEPT !.pendingcb = @ + 1], "finish")
      <4> DEFINE e == [d EXCEPT !.pendingcb = @ + 1]
      <4>1. e.finalCalled /\ Later(e, "finish") = [e EXCEPT !.ticks = Append(@, "finish")]
        BY <1>4, <2>3, <2>4 DEF Streams, Later
      <4>2. e \in Streams
        <5>1. d.pendingcb + 1 \in Int
          BY <2>5, <1>1
        <5> QED BY <2>3, <5>1 DEF Streams
      <4> HIDE DEF e
      <4>3. [e EXCEPT !.ticks = Append(@, "finish")].finalCalled = e.finalCalled
        BY <4>2 DEF Streams
      <4> QED BY <3>2, <4>1, <4>3 DEF e
    <3> QED BY <2>1, <3>1, <3>2
  <2> QED BY <1>4, <2>4, <2>9, <2>10 DEF Kept
<1>7. CASE s.phase = "connecting"
  <2>1. t = [c EXCEPT !.net = "final"]
    BY <1>5, <1>7
  <2>2. t \in Streams
    BY <1>3, <2>1 DEF Streams
  <2>3. /\ t.buffered = c.buffered /\ t.batch = c.batch /\ t.net = "final" /\ t.ticks = c.ticks
        /\ t.answers = c.answers /\ t.onWire = c.onWire /\ t.finished = c.finished
        /\ t.pendingcb = c.pendingcb /\ t.ending = c.ending /\ t.finalCalled = c.finalCalled
        /\ t.destroyed = c.destroyed /\ t.corked = c.corked /\ t.errored = c.errored
    BY <1>3, <2>1 DEF Streams
  <2>4. /\ Wire(t) = Wire(s) /\ Held(t) = Held(s) /\ Waiting(t) = Waiting(s) /\ Jobs(t) = Jobs(s)
        /\ Under(t) = Under(s) /\ ~FinishDue(t) /\ Finishing(t) = 1
    BY <1>2, <1>4, <2>3 DEF Wire, Held, Waiting, Jobs, Under, Finishing, FinishDue
  <2>5. PlacesOK(t, m, over) /\ AnswersOK(t, m, n)
    BY <1>4, <2>3, <2>4 DEF StreamOK, PlacesOK, AnswersOK
  <2>6. CallbacksOK(t, m, extra)
    <3>1. /\ Under(s) + Waiting(s) + 0 + extra <= s.pendingcb
          /\ s.pendingcb <= m - Wire(s) - Held(s) + Under(s) + 0 + extra
      BY <1>2 DEF StreamOK, CallbacksOK
    <3>2. /\ Wire(s) \in Nat /\ Held(s) \in Nat /\ Waiting(s) \in Nat /\ Under(s) \in Int
      BY <1>1, Lengths
    <3>3. /\ Under(s) + Waiting(s) + 1 + extra <= s.pendingcb + 1
          /\ s.pendingcb + 1 <= m - Wire(s) - Held(s) + Under(s) + 1 + extra
      <4> DEFINE cb == s.pendingcb
                 low == Under(s) + Waiting(s)
                 high == m - Wire(s) - Held(s) + Under(s)
      <4>1. cb \in Int /\ low \in Int /\ high \in Int
        BY <3>2, <1>1
      <4>2. low + 0 + extra <= cb /\ cb <= high + 0 + extra
        BY <3>1
      <4> HIDE DEF cb, low, high
      <4>3. low + 1 + extra <= cb + 1 /\ cb + 1 <= high + 1 + extra
        BY <4>1, <4>2
      <4> QED BY <4>3 DEF cb, low, high
    <3> QED BY <3>3, <1>4, <2>3, <2>4 DEF CallbacksOK
  <2>7. EndingOK(t, over)
    BY <1>4, <2>3, <2>4 DEF StreamOK, EndingOK
  <2>8. n <= Wire(t) /\ (t.destroyed => over)
    BY <1>4, <2>3, <2>4 DEF StreamOK
  <2> QED BY <2>2, <2>5, <2>6, <2>7, <2>8, <1>4, <2>3 DEF StreamOK, Kept
<1> QED BY <1>6, <1>7

LEMMA FinishMaybeIsOK ==
  ASSUME NEW s, NEW m \in Nat, NEW n \in Nat, NEW extra \in Int, extra = 0, NEW over,
         StreamOK(s, m, n, extra, over), NEW sync, NEW t, t = FinishMaybe(s, sync)
  PROVE  StreamOK(t, m, n, extra, over) /\ Kept(s, t)
<1> DEFINE p == IF s.finalCalled \/ s.destroyed THEN s ELSE CallFinal(s)
           q == [p EXCEPT !.pendingcb = 1]
<1>0. s \in Streams /\ Kept(s, s)
  BY DEF StreamOK, Kept
<1>1. CASE ~NeedFinish(s)
  BY <1>0, <1>1 DEF FinishMaybe
<1>2. CASE NeedFinish(s)
  <2>1. s.ending /\ s.batch = <<>> /\ s.buffered = <<>>
    BY <1>0, <1>2, Lengths DEF NeedFinish
  <2>2. StreamOK(p, m, n, extra, over) /\ Kept(s, p) /\ (p.finalCalled \/ p.destroyed)
    <3>1. CASE s.finalCalled \/ s.destroyed
      BY <1>0, <3>1
    <3>2. CASE ~(s.finalCalled \/ s.destroyed)
      <4>1. p = CallFinal(s) /\ ~s.finalCalled /\ ~s.destroyed
        BY <3>2
      <4> HIDE DEF p
      <4> QED BY <2>1, <4>1, CallFinalIsOK
    <3> QED BY <3>1, <3>2
  <2>3. t = IF p.pendingcb # 0 \/ ~NeedFinish(p) THEN p
            ELSE IF sync THEN Later(q, "finish") ELSE Finished(q)
    BY <1>2 DEF FinishMaybe
  <2> HIDE DEF p
  <2>4. CASE p.pendingcb # 0 \/ ~NeedFinish(p)
    BY <2>2, <2>3, <2>4
  <2>5. CASE p.pendingcb = 0 /\ NeedFinish(p)
    <3>1. p \in Streams /\ p.ending /\ p.batch = <<>> /\ p.buffered = <<>>
      BY <2>1, <2>2, <2>5 DEF StreamOK, NeedFinish, Kept
    <3>2. Finishing(p) = 0
      <4>1. Under(p) + Waiting(p) + Finishing(p) + extra <= 0
        BY <2>2, <2>5 DEF StreamOK, CallbacksOK
      <4> QED BY <3>1, <4>1, Lengths
    <3>3. q \in Streams
      <4>1. 1 \in Int
        OBVIOUS
      <4> QED BY <3>1, <4>1 DEF Streams
    <3>4. /\ q.buffered = p.buffered /\ q.batch = p.batch /\ q.net = p.net /\ q.ticks = p.ticks
          /\ q.answers = p.answers /\ q.onWire = p.onWire /\ q.finished = p.finished
          /\ q.pendingcb = 1 /\ q.ending = p.ending /\ q.finalCalled = p.finalCalled
          /\ q.destroyed = p.destroyed /\ q.corked = p.corked /\ q.errored = p.errored
      BY <3>1 DEF Streams
    <3> HIDE DEF q
    <3>5. PICK k \in Int : k = 1
      OBVIOUS
    <3>6. PICK more \in Int : more = extra + k
      BY <3>5
    <3>7. SameBut(p, q, k) /\ (over => over) /\ (q.destroyed => over)
      BY <2>2, <2>5, <3>3, <3>4, <3>5 DEF SameBut, StreamOK
    <3>8. StreamOK(q, m, n, more, over) /\ more = extra + 1
      <4>1. StreamOK(p, m, n, extra, over) /\ m \in Nat /\ n \in Nat /\ extra \in Int
        BY <2>2
      <4>2. StreamOK(q, m, n, more, over)
        BY ONLY <4>1, <3>5, <3>6, <3>7, SameIsOK
      <4> QED BY <3>5, <3>6, <4>2
    <3>9. Finishing(q) = 0 /\ q.ending /\ q.batch = <<>> /\ q.buffered = <<>> /\ (q.finalCalled \/ q.destroyed)
      BY <2>2, <3>1, <3>2, <3>4 DEF Finishing, FinishDue, Jobs
    <3>10. StreamOK(Later(q, "finish"), m, n, extra, over) /\ Kept(q, Later(q, "finish"))
      BY <3>8, <3>9, FinishIsOK
    <3>11. StreamOK(Finished(q), m, n, extra, over) /\ Kept(q, Finished(q))
      BY <3>8, <3>9, FinishedIsOK
    <3>12. Kept(p, q)
      BY <3>4 DEF Kept
    <3>13. StreamOK(t, m, n, extra, over) /\ Kept(q, t)
      BY <2>3, <2>5, <3>10, <3>11
    <3> QED BY <2>2, <3>12, <3>13 DEF Kept
  <2> QED BY <2>4, <2>5
<1> QED BY <1>1, <1>2

-----------------------------------------------------------------------------
(* Writing *)

\* clearBuffer, with no write under way.
Cleared(s, t) ==
    /\ t.onWire = s.onWire /\ t.destroyed = s.destroyed /\ t.corked = s.corked /\ t.errored = s.errored
    /\ (t.buffered # <<>> /\ t.batch = <<>> => t.corked \/ t.destroyed)

LEMMA ClearBufferIsOK ==
  ASSUME NEW s, NEW m \in Nat, NEW n \in Nat, NEW extra \in Int, NEW over,
         StreamOK(s, m, n, extra, over), s.batch = <<>>, NEW t, t = ClearBuffer(s)
  PROVE  StreamOK(t, m, n, extra, over) /\ Cleared(s, t)
<1>1. CASE s.corked \/ s.destroyed \/ s.buffered = <<>>
  BY <1>1 DEF ClearBuffer, Cleared
<1>2. CASE ~(s.corked \/ s.destroyed \/ s.buffered = <<>>)
  <2> DEFINE net == IF s.phase = "connecting" THEN "connect" ELSE "handle"
  <2>1. s \in Streams /\ s.pendingcb \in Int /\ s.buffered # <<>>
    BY <1>2 DEF StreamOK, Streams
  <2>2. t = [s EXCEPT !.buffered = <<>>, !.pendingcb = @ - (Len(s.buffered) - 1), !.batch = s.buffered, !.net = net]
    BY <1>2, <2>1 DEF ClearBuffer, DoWrite, Streams
  <2>3. Waiting(s) \in Nat /\ Waiting(s) # 0 /\ s.pendingcb - (Len(s.buffered) - 1) \in Int
    BY <2>1, Lengths DEF Waiting
  <2>4. s.buffered \in Seq(Chunk) /\ <<>> \in Seq(Chunk) /\ net \in {"connect", "handle"}
    BY <2>1 DEF Streams
  <2> HIDE DEF net
  <2>5. t \in Streams
    BY <2>1, <2>2, <2>3, <2>4 DEF Streams
  <2>6. /\ t.buffered = <<>> /\ t.batch = s.buffered /\ t.net = net /\ t.ticks = s.ticks
        /\ t.answers = s.answers /\ t.onWire = s.onWire /\ t.finished = s.finished
        /\ t.ending = s.ending /\ t.finalCalled = s.finalCalled
        /\ t.destroyed = s.destroyed /\ t.corked = s.corked /\ t.errored = s.errored
    BY <2>1, <2>2 DEF Streams
  <2>7. t.pendingcb = s.pendingcb - (Waiting(s) - 1)
    BY <2>1, <2>2 DEF Streams, Waiting
  <2>8. /\ Wire(t) = Wire(s) /\ Held(t) = Waiting(s) /\ Waiting(t) = 0 /\ Jobs(t) = Jobs(s)
        /\ Under(t) = 1 /\ Under(s) = 0 /\ Held(s) = 0 /\ (FinishDue(t) <=> FinishDue(s))
    BY <2>1, <2>6 DEF Wire, Held, Waiting, Jobs, Under, FinishDue
  <2>9. Finishing(s) = 0 /\ ~s.finished /\ ~FinishDue(s) /\ Finishing(t) = 0
    BY <2>1, <2>4, <2>6, <2>8, Lengths DEF StreamOK, EndingOK, Finishing
  <2>10. Wire(s) \in Nat
    BY <2>1, Lengths
  <2>11. PlacesOK(t, m, over)
    BY <2>3, <2>6, <2>8, <2>10, FollowingNone DEF StreamOK, PlacesOK
  <2>12. AnswersOK(t, m, n)
    BY <2>3, <2>6, <2>8, <2>10 DEF StreamOK, AnswersOK
  <2>13. CallbacksOK(t, m, extra)
    <3>1. 0 + Waiting(s) + 0 + extra <= s.pendingcb /\ s.pendingcb <= m - Wire(s) - 0 + 0 + 0 + extra
      BY <2>8, <2>9 DEF StreamOK, CallbacksOK
    <3> DEFINE w == Wire(s)
               q == Waiting(s)
               cb == s.pendingcb
    <3>2. w \in Int /\ q \in Int /\ cb \in Int
      BY <2>1, <2>3, <2>10
    <3>3. 0 + q + 0 + extra <= cb /\ cb <= m - w - 0 + 0 + 0 + extra
      BY <3>1
    <3> HIDE DEF w, q, cb
    <3>4. 1 + 0 + 0 + extra <= cb - (q - 1) /\ cb - (q - 1) <= m - w - q + 1 + 0 + extra
      BY <3>2, <3>3
    <3>5. 1 + 0 + 0 + extra <= t.pendingcb /\ t.pendingcb <= m - Wire(s) - Waiting(s) + 1 + 0 + extra
      BY <3>4, <2>7 DEF w, q, cb
    <3> QED BY <3>5, <2>8, <2>9 DEF CallbacksOK
  <2>14. EndingOK(t, over)
    BY <2>1, <2>4, <2>6, <2>8, <2>9 DEF StreamOK, EndingOK
  <2>15. n <= Wire(t) /\ (t.destroyed => over)
    BY <2>6, <2>8 DEF StreamOK
  <2> QED BY <2>5, <2>6, <2>11, <2>12, <2>13, <2>14, <2>15 DEF StreamOK, Cleared
<1> QED BY <1>1, <1>2

\* The callbacks of the chunks that follow the first n are called, once the host has them.
LEMMA AnsweredIsOK ==
  ASSUME NEW s, NEW m \in Nat, NEW n \in Nat, NEW extra \in Int, NEW over,
         StreamOK(s, m, n, extra, over), NEW list \in Seq(Chunk), Following(list, n),
         NEW next \in Nat, next = n + Len(list), next <= Wire(s), NEW t, t = Answer(s, list, "ok")
  PROVE  StreamOK(t, m, next, extra, over) /\ Kept(s, t)
<1>1. s \in Streams
  BY DEF StreamOK
<1>2. /\ t \in Streams /\ t = [s EXCEPT !.answers = t.answers]
      /\ \A i \in Chunk : t.answers[i] = IF i \in ToSet(list) THEN Append(s.answers[i], "ok") ELSE s.answers[i]
  BY <1>1, AnswerFields
<1>3. /\ t.buffered = s.buffered /\ t.batch = s.batch /\ t.net = s.net /\ t.ticks = s.ticks
      /\ t.onWire = s.onWire /\ t.finished = s.finished /\ t.pendingcb = s.pendingcb
      /\ t.ending = s.ending /\ t.finalCalled = s.finalCalled
      /\ t.destroyed = s.destroyed /\ t.corked = s.corked /\ t.errored = s.errored
  BY <1>1, <1>2 DEF Streams
<1>4. /\ Wire(t) = Wire(s) /\ Held(t) = Held(s) /\ Waiting(t) = Waiting(s) /\ Jobs(t) = Jobs(s)
      /\ Under(t) = Under(s) /\ (FinishDue(t) <=> FinishDue(s)) /\ Finishing(t) = Finishing(s)
  BY <1>3 DEF Wire, Held, Waiting, Jobs, Under, Finishing, FinishDue
<1>5. PlacesOK(t, m, over) /\ CallbacksOK(t, m, extra) /\ EndingOK(t, over) /\ (t.destroyed => over)
  BY <1>3, <1>4 DEF StreamOK, PlacesOK, CallbacksOK, EndingOK
<1>6. AnswersOK(t, m, next)
  <2>1. SUFFICES ASSUME NEW i \in Chunk
                 PROVE  t.answers[i] = IF i <= next THEN <<"ok">>
                                       ELSE IF i <= Wire(s) + Held(s) + Waiting(s) \/ i > m THEN <<>> ELSE <<"error">>
    BY <1>4 DEF AnswersOK
  <2>2. i \in Nat /\ Wire(s) \in Nat /\ Held(s) \in Nat /\ Waiting(s) \in Nat
    BY <1>1, Lengths, WriteAssumption DEF Chunk
  <2>3. i \in ToSet(list) <=> n < i /\ i <= next
    BY FollowingItems
  <2>4. s.answers[i] = IF i <= n THEN <<"ok">>
                       ELSE IF i <= Wire(s) + Held(s) + Waiting(s) \/ i > m THEN <<>> ELSE <<"error">>
    BY DEF StreamOK, AnswersOK
  <2>5. Append(<<>>, "ok") = <<"ok">> /\ Len(list) \in Nat
    OBVIOUS
  <2>6. CASE i <= n
    <3>1. ~(n < i) /\ i <= next
      BY <2>2, <2>5, <2>6
    <3> QED BY <1>2, <2>3, <2>4, <2>6, <3>1
  <2>7. CASE ~(i <= n) /\ i <= next
    <3>1. i <= Wire(s) + Held(s) + Waiting(s) /\ n < i
      BY <2>2, <2>7
    <3>2. s.answers[i] = <<>>
      BY <2>4, <2>7, <3>1
    <3>3. t.answers[i] = Append(<<>>, "ok")
      BY <1>2, <2>3, <2>7, <3>1, <3>2
    <3> QED BY <2>5, <2>7, <3>3
  <2>8. CASE ~(i <= next)
    BY <1>2, <2>2, <2>3, <2>4, <2>5, <2>8
  <2> QED BY <2>6, <2>7, <2>8
<1> QED BY <1>2, <1>3, <1>4, <1>5, <1>6 DEF StreamOK, Kept

\* writeOrBuffer: the chunk follows the others.
LEMMA AcceptIsOK ==
  ASSUME NEW s, NEW m \in Nat, Fine(s, m), ~s.destroyed, ~s.ending, NEW i \in Chunk, i = m + 1,
         NEW t, t = WriteOrBuffer(s, i)
  PROVE  Fine(t, i)
<1> DEFINE need == s.needDrain \/ Size(s) + 1 >= WriteMark
           net == IF s.phase = "connecting" THEN "connect" ELSE "handle"
           n == Wire(s)
           over == s.destroyed
<1>1. s \in Streams /\ s.pendingcb \in Int /\ ~s.errored /\ StreamOK(s, m, n, 0, over)
  BY DEF Fine, Tidy, StreamOK, Streams
<1>2. /\ Wire(s) \in Nat /\ Held(s) \in Nat /\ Waiting(s) \in Nat /\ Jobs(s) \in Nat
      /\ (s.batch = <<>> <=> Held(s) = 0) /\ (s.batch = <<>> <=> Under(s) = 0)
      /\ Finishing(s) \in {0, 1} /\ Under(s) \in {0, 1}
  BY <1>1, Lengths
<1>3. /\ PlacesOK(s, m, over) /\ AnswersOK(s, m, n) /\ CallbacksOK(s, m, 0) /\ EndingOK(s, over)
      /\ m = Wire(s) + Held(s) + Waiting(s)
  BY <1>1 DEF StreamOK, PlacesOK
<1>4. /\ Finishing(s) = 0 /\ ~s.finished /\ s.net # "final" /\ ~FinishDue(s)
  BY <1>2, <1>3 DEF EndingOK, Finishing
<1>5. /\ need \in BOOLEAN /\ s.pendingcb + 1 \in Int /\ net \in {"connect", "handle"}
      /\ s.onWire \in Seq(Chunk) /\ s.batch \in Seq(Chunk) /\ s.buffered \in Seq(Chunk)
      /\ Following(s.onWire, 0) /\ Following(s.batch, Wire(s))
      /\ Following(s.buffered, Wire(s) + Held(s)) /\ i \in Nat
  BY <1>1, <1>3, WriteAssumption DEF PlacesOK, Streams, Chunk
<1>6. i = Wire(s) + Held(s) + Waiting(s) + 1
  BY <1>3
<1>7. 0 <= i /\ ~(m >= i) /\ n <= m
  BY <1>2, <1>3, <1>5
<1>8. \A j \in Chunk : j \in Nat
  BY WriteAssumption DEF Chunk
\* Where the answers are.
<1>9. ASSUME NEW u, u.answers = s.answers, Wire(u) = Wire(s), Wire(u) + Held(u) + Waiting(u) = i
      PROVE  AnswersOK(u, i, n)
  <2>1. SUFFICES ASSUME NEW j \in Chunk
                 PROVE  s.answers[j] = IF j <= n THEN <<"ok">> ELSE IF j <= i \/ j > i THEN <<>> ELSE <<"error">>
    BY <1>9 DEF AnswersOK
  <2>2. s.answers[j] = IF j <= n THEN <<"ok">> ELSE IF j <= m \/ j > m THEN <<>> ELSE <<"error">>
    BY <1>3 DEF AnswersOK
  <2>3. (j <= i \/ j > i) /\ (j <= m \/ j > m)
    BY <1>5, <1>8
  <2> QED BY <2>2, <2>3
<1>10. ASSUME NEW u, u.ticks = s.ticks, u.net # "final", ~u.finished, u.batch = <<>> <=> u.net = "none"
       PROVE  EndingOK(u, over) /\ Finishing(u) = 0
  BY <1>3, <1>4, <1>10 DEF Jobs, FinishDue, Finishing, EndingOK
<1>11. /\ Under(s) + Waiting(s) <= s.pendingcb /\ s.pendingcb <= m - Wire(s) - Held(s) + Under(s)
  <2>1. /\ Under(s) + Waiting(s) + 0 + 0 <= s.pendingcb
        /\ s.pendingcb <= m - Wire(s) - Held(s) + Under(s) + 0 + 0
    BY <1>3, <1>4 DEF CallbacksOK
  <2> QED BY <1>1, <1>2, <2>1
<1> HIDE DEF need, net
<1>12. CASE MustBuffer(s)
  <2> DEFINE more == Append(s.buffered, i)
  <2>1. t = [s EXCEPT !.pendingcb = @ + 1, !.needDrain = need, !.buffered = more]
    BY <1>1, <1>12 DEF WriteOrBuffer, Streams, need
  <2>2. more \in Seq(Chunk) /\ Len(more) = Waiting(s) + 1 /\ Following(more, Wire(s) + Held(s)) /\ more # <<>>
    <3>1. Wire(s) + Held(s) \in Nat /\ i = Wire(s) + Held(s) + Len(s.buffered) + 1
      BY <1>2, <1>6 DEF Waiting
    <3>2. more \in Seq(Chunk) /\ Len(more) = Len(s.buffered) + 1 /\ Following(more, Wire(s) + Held(s))
      BY <1>5, <3>1, FollowingOne
    <3>3. Len(more) # 0
      BY <3>2, <1>2 DEF Waiting
    <3> HIDE DEF more
    <3>4. more # <<>>
      BY <3>3
    <3> QED BY <3>2, <3>4 DEF Waiting
  <2> HIDE DEF more
  <2>3. t \in Streams
    BY <1>1, <1>5, <2>1, <2>2 DEF Streams
  <2>4. /\ t.buffered = more /\ t.batch = s.batch /\ t.net = s.net /\ t.ticks = s.ticks /\ t.answers = s.answers
        /\ t.onWire = s.onWire /\ t.finished = s.finished /\ t.pendingcb = s.pendingcb + 1
        /\ t.ending = s.ending /\ t.finalCalled = s.finalCalled
        /\ t.destroyed = s.destroyed /\ t.corked = s.corked /\ t.errored = s.errored
    BY <1>1, <2>1 DEF Streams
  <2>5. Wire(t) = Wire(s) /\ Held(t) = Held(s) /\ Waiting(t) = Waiting(s) + 1 /\ Under(t) = Under(s)
    BY <2>2, <2>4 DEF Wire, Held, Waiting, Under
  <2>6. Wire(s) + Held(s) + (Waiting(s) + 1) = i /\ i <= i
    BY <1>2, <1>5, <1>6
  <2>7. PlacesOK(t, i, over)
    BY <1>5, <2>2, <2>4, <2>5, <2>6 DEF PlacesOK
  <2>8. AnswersOK(t, i, n)
    BY <1>9, <2>4, <2>5, <2>6
  <2>9. EndingOK(t, over) /\ Finishing(t) = 0
    BY <1>3, <1>4, <1>10, <2>4 DEF EndingOK
  <2>10. CallbacksOK(t, i, 0)
    <3> DEFINE cb == s.pendingcb
               u == Under(s)
               w == Wire(s)
               h == Held(s)
               q == Waiting(s)
    <3>1. cb \in Int /\ u \in Int /\ w \in Int /\ h \in Int /\ q \in Int
      BY <1>1, <1>2
    <3>2. u + q <= cb /\ cb <= m - w - h + u
      BY <1>11
    <3> HIDE DEF cb, u, w, h, q
    <3>3. u + (q + 1) + 0 + 0 <= cb + 1 /\ cb + 1 <= i - w - h + u + 0 + 0
      BY <3>1, <3>2
    <3> QED BY <3>3, <2>4, <2>5, <2>9 DEF CallbacksOK, cb, u, w, h, q
  <2>11. Tidy(t)
    BY <1>1, <1>12, <2>4 DEF Tidy, MustBuffer
  <2>12. StreamOK(t, i, Wire(t), 0, t.destroyed)
    BY <1>2, <2>3, <2>4, <2>5, <2>7, <2>8, <2>9, <2>10 DEF StreamOK
  <2> QED BY <2>11, <2>12 DEF Fine
<1>13. CASE ~MustBuffer(s)
  <2> DEFINE one == <<i>>
  <2>1. s.batch = <<>> /\ s.buffered = <<>> /\ Held(s) = 0 /\ Waiting(s) = 0 /\ Under(s) = 0
    BY <1>13 DEF MustBuffer, Fine, Tidy, Held, Waiting, Under
  <2>2. t = [s EXCEPT !.pendingcb = @ + 1, !.needDrain = need, !.batch = one, !.net = net]
    BY <1>1, <1>13 DEF WriteOrBuffer, DoWrite, Streams, need, net
  <2>3. one \in Seq(Chunk) /\ Len(one) = 1 /\ Following(one, Wire(s)) /\ one # <<>>
    <3>1. one = Append(<<>>, i) /\ <<>> \in Seq(Chunk) /\ Len(<<>>) = 0
      OBVIOUS
    <3>2. i = Wire(s) + Len(<<>>) + 1
      BY <1>2, <1>6, <2>1, <3>1
    <3>3. Following(<<>>, Wire(s))
      BY FollowingNone
    <3>4. one \in Seq(Chunk) /\ Len(one) = Len(<<>>) + 1 /\ Following(one, Wire(s))
      BY <1>2, <3>1, <3>2, <3>3, FollowingOne
    <3> QED BY <3>1, <3>4
  <2> HIDE DEF one
  <2>4. t \in Streams
    BY <1>1, <1>5, <2>2, <2>3 DEF Streams
  <2>5. /\ t.buffered = <<>> /\ t.batch = one /\ t.net = net /\ t.ticks = s.ticks /\ t.answers = s.answers
        /\ t.onWire = s.onWire /\ t.finished = s.finished /\ t.pendingcb = s.pendingcb + 1
        /\ t.ending = s.ending /\ t.finalCalled = s.finalCalled
        /\ t.destroyed = s.destroyed /\ t.corked = s.corked /\ t.errored = s.errored
    BY <1>1, <2>1, <2>2 DEF Streams
  <2>6. Wire(t) = Wire(s) /\ Held(t) = 1 /\ Waiting(t) = 0 /\ Under(t) = 1
    BY <2>3, <2>5 DEF Wire, Held, Waiting, Under
  <2>7. Wire(s) + 1 + 0 = i /\ i <= i
    BY <1>2, <1>5, <1>6, <2>1
  <2>8. PlacesOK(t, i, over)
    BY <1>5, <2>3, <2>5, <2>6, <2>7, FollowingNone DEF PlacesOK
  <2>9. AnswersOK(t, i, n)
    BY <1>9, <2>5, <2>6, <2>7
  <2>10. EndingOK(t, over) /\ Finishing(t) = 0
    BY <1>4, <1>5, <1>10, <2>3, <2>5
  <2>11. CallbacksOK(t, i, 0)
    <3> DEFINE cb == s.pendingcb
               w == Wire(s)
    <3>1. cb \in Int /\ w \in Int
      BY <1>1, <1>2
    <3>2. 0 + 0 <= cb /\ cb <= m - w - 0 + 0
      BY <1>11, <2>1
    <3> HIDE DEF cb, w
    <3>3. 1 + 0 + 0 + 0 <= cb + 1 /\ cb + 1 <= i - w - 1 + 1 + 0 + 0
      BY <3>1, <3>2
    <3> QED BY <3>3, <2>5, <2>6, <2>10 DEF CallbacksOK, cb, w
  <2>12. Tidy(t)
    BY <1>1, <2>5 DEF Tidy
  <2>13. StreamOK(t, i, Wire(t), 0, t.destroyed)
    BY <1>2, <2>4, <2>5, <2>6, <2>8, <2>9, <2>10, <2>11 DEF StreamOK
  <2> QED BY <2>12, <2>13 DEF Fine
<1> QED BY <1>12, <1>13

\* A write() that is refused is answered at once.
LEMMA RefusedIsOK ==
  ASSUME NEW s, NEW m \in Nat, NEW n \in Nat, NEW over, over = TRUE, StreamOK(s, m, n, 0, over),
         NEW i \in Chunk, i = m + 1, NEW t, t = Answer(s, <<i>>, "error")
  PROVE  StreamOK(t, i, n, 0, over) /\ Kept(s, t)
<1>1. s \in Streams /\ i \in Nat /\ \A j \in Chunk : j \in Nat
  BY WriteAssumption DEF StreamOK, Chunk
<1>2. ToSet(<<i>>) = {i}
  BY DEF ToSet
<1>3. /\ t \in Streams /\ t = [s EXCEPT !.answers = t.answers]
      /\ \A j \in Chunk : t.answers[j] = IF j \in ToSet(<<i>>) THEN Append(s.answers[j], "error") ELSE s.answers[j]
  <2>1. PICK one : one = <<i>>
    OBVIOUS
  <2>2. t = Answer(s, one, "error")
    BY <2>1
  <2>3. /\ t \in Streams /\ t = [s EXCEPT !.answers = t.answers]
        /\ \A j \in Chunk : t.answers[j] = IF j \in ToSet(one) THEN Append(s.answers[j], "error") ELSE s.answers[j]
    <3>1. PICK with \in {"ok", "error"} : with = "error"
      OBVIOUS
    <3>2. /\ Answer(s, one, with) \in Streams
          /\ \A j \in Chunk : Answer(s, one, with).answers[j] =
                IF j \in ToSet(one) THEN Append(s.answers[j], with) ELSE s.answers[j]
          /\ Answer(s, one, with) = [s EXCEPT !.answers = Answer(s, one, with).answers]
      <4>1. s \in Streams
        BY <1>1
      <4> QED BY ONLY <4>1, <3>1, AnswerFields
    <3> QED BY ONLY <2>2, <3>1, <3>2
  <2> QED BY <2>1, <2>3
<1>4. /\ t.buffered = s.buffered /\ t.batch = s.batch /\ t.net = s.net /\ t.ticks = s.ticks
      /\ t.onWire = s.onWire /\ t.finished = s.finished /\ t.pendingcb = s.pendingcb
      /\ t.ending = s.ending /\ t.finalCalled = s.finalCalled
      /\ t.destroyed = s.destroyed /\ t.corked = s.corked /\ t.errored = s.errored
  BY <1>1, <1>3 DEF Streams
<1>5. /\ Wire(t) = Wire(s) /\ Held(t) = Held(s) /\ Waiting(t) = Waiting(s) /\ Jobs(t) = Jobs(s)
      /\ Under(t) = Under(s) /\ (FinishDue(t) <=> FinishDue(s)) /\ Finishing(t) = Finishing(s)
  BY <1>4 DEF Wire, Held, Waiting, Jobs, Under, Finishing, FinishDue
<1>6. /\ Wire(s) \in Nat /\ Held(s) \in Nat /\ Waiting(s) \in Nat /\ s.pendingcb \in Int
      /\ Finishing(s) \in Int /\ Under(s) \in Int
  BY <1>1, Lengths
<1>7. Wire(s) + Held(s) + Waiting(s) <= m /\ n <= Wire(s)
  BY DEF StreamOK, PlacesOK
<1>8. PlacesOK(t, i, over)
  BY <1>1, <1>4, <1>5, <1>6, <1>7 DEF StreamOK, PlacesOK
<1>9. CallbacksOK(t, i, 0)
  <2> DEFINE cb == s.pendingcb
             low == Under(s) + Waiting(s) + Finishing(s)
             u == Under(s)
             due == Finishing(s)
             w == Wire(s)
             h == Held(s)
  <2>1. cb \in Int /\ u \in Int /\ due \in Int /\ w \in Int /\ h \in Int
    BY <1>6
  <2>2. low + 0 <= cb /\ cb <= m - w - h + u + due + 0
    BY DEF StreamOK, CallbacksOK
  <2> HIDE DEF cb, low, u, due, w, h
  <2>3. cb <= i - w - h + u + due + 0
    BY <1>1, <2>1, <2>2
  <2> QED BY <1>4, <1>5, <2>2, <2>3 DEF CallbacksOK, cb, low, u, due, w, h
<1>10. EndingOK(t, over)
  BY <1>4, <1>5 DEF StreamOK, EndingOK
<1>11. AnswersOK(t, i, n)
  <2>1. SUFFICES ASSUME NEW j \in Chunk
                 PROVE  t.answers[j] = IF j <= n THEN <<"ok">>
                                       ELSE IF j <= Wire(s) + Held(s) + Waiting(s) \/ j > i THEN <<>> ELSE <<"error">>
    BY <1>5 DEF AnswersOK
  <2>2. s.answers[j] = IF j <= n THEN <<"ok">>
                       ELSE IF j <= Wire(s) + Held(s) + Waiting(s) \/ j > m THEN <<>> ELSE <<"error">>
    BY DEF StreamOK, AnswersOK
  <2>3. CASE j = i
    <3>1. ~(j <= n) /\ ~(j <= Wire(s) + Held(s) + Waiting(s)) /\ j > m /\ ~(j > i)
      BY <2>3, <1>1, <1>6, <1>7
    <3>2. s.answers[j] = <<>> /\ Append(<<>>, "error") = <<"error">>
      BY <2>2, <3>1
    <3>3. t.answers[j] = <<"error">>
      BY <1>2, <1>3, <2>3, <3>2
    <3> QED BY <3>1, <3>3
  <2>4. CASE j # i
    BY <1>1, <1>2, <1>3, <2>2, <2>4
  <2> QED BY <2>3, <2>4
<1>12. n <= Wire(t) /\ (t.destroyed => over)
  BY <1>5, <1>7
<1> QED BY <1>3, <1>4, <1>8, <1>9, <1>10, <1>11, <1>12 DEF StreamOK, Kept

\* A step that moves no chunk leaves the stream fine.
LEMMA KeptIsFine ==
  ASSUME NEW s, NEW t, NEW m \in Nat, NEW n \in Nat, NEW over, StreamOK(t, m, n, 0, over), Kept(s, t),
         n = Wire(s), over = s.destroyed, Tidy(s)
  PROVE  Fine(t, m)
BY DEF Kept, Wire, Tidy, Fine

LEMMA DestroyIsFine ==
  ASSUME NEW s, NEW m \in Nat, NEW over, StreamOK(s, m, Wire(s), 0, over), NEW error \in BOOLEAN,
         NEW t, t = Destroy(s, error)
  PROVE  Fine(t, m)
<1>1. PICK after : after = TRUE
  OBVIOUS
<1>2. PICK n \in Nat : n = Wire(s)
  BY Lengths DEF StreamOK
<1>3. PICK extra \in Int : extra = 0
  OBVIOUS
<1>4. StreamOK(s, m, n, extra, over)
  BY <1>2, <1>3
<1>5. StreamOK(t, m, n, extra, after) /\ t.destroyed /\ t.onWire = s.onWire
  BY <1>1, <1>4, DestroyIsOK
<1>6. n = Wire(t)
  BY <1>2, <1>5 DEF Wire
<1>7. StreamOK(t, m, n, 0, after)
  BY <1>3, <1>5
<1> QED BY <1>1, <1>5, <1>6, <1>7, FineWhenOver

\* The host takes the batch: the next one is on its way, and then the callbacks are called.
LEMMA WroteIsFine ==
  ASSUME NEW s, NEW m \in Nat, Fine(s, m), s.net = "handle", NEW t, t = Wrote(s)
  PROVE  Fine(t, m)
<1> DEFINE done == [s EXCEPT !.batch = <<>>, !.net = "none", !.onWire = @ \o s.batch]
           clear == ClearBuffer(done)
           drained == Drain(clear)
           told == Answer(drained, s.batch, "ok")
           counted == [told EXCEPT !.pendingcb = @ - 1]
           e == IF counted.destroyed THEN ErrorBuffer(counted) ELSE counted
           n == Wire(s)
           next == Wire(s) + Held(s)
           over == s.destroyed
<1>1. t = FinishMaybe(e, FALSE)
  BY DEF Wrote
<1>2. /\ s \in Streams /\ s.pendingcb \in Int /\ StreamOK(s, m, n, 0, over) /\ Tidy(s)
      /\ PlacesOK(s, m, over) /\ AnswersOK(s, m, n) /\ CallbacksOK(s, m, 0) /\ EndingOK(s, over)
  BY DEF Fine, StreamOK, Streams
<1>3. /\ Wire(s) \in Nat /\ Held(s) \in Nat /\ Waiting(s) \in Nat /\ next \in Nat
      /\ (s.batch = <<>> <=> Held(s) = 0) /\ (s.batch = <<>> <=> Under(s) = 0)
      /\ Finishing(s) \in {0, 1} /\ Under(s) \in {0, 1}
  BY <1>2, Lengths
<1>4. s.batch # <<>> /\ Under(s) = 1
  BY <1>2, <1>3 DEF EndingOK
<1>5. Finishing(s) = 0 /\ ~s.finished /\ ~FinishDue(s)
  BY <1>2, <1>3, <1>4 DEF EndingOK, Finishing
<1>6. /\ s.onWire \in Seq(Chunk) /\ s.batch \in Seq(Chunk) /\ s.buffered \in Seq(Chunk)
      /\ Following(s.onWire, 0) /\ Following(s.batch, n) /\ Following(s.buffered, next)
  BY <1>2 DEF PlacesOK, Streams
\* What the host has
<1>7. s.onWire \o s.batch \in Seq(Chunk) /\ Len(s.onWire \o s.batch) = next /\ Following(s.onWire \o s.batch, 0)
  <2>1. PICK zero \in Nat : zero = 0
    OBVIOUS
  <2>2. PICK u \in Seq(Chunk) : u = s.onWire
    BY <1>6
  <2>3. PICK v \in Seq(Chunk) : v = s.batch
    BY <1>6
  <2>4. Following(u, zero) /\ Following(v, zero + Len(u))
    BY <1>3, <1>6, <2>1, <2>2, <2>3 DEF Wire
  <2>5. u \o v \in Seq(Chunk) /\ Len(u \o v) = Len(u) + Len(v) /\ Following(u \o v, zero)
    BY <2>4, FollowingBoth
  <2> QED BY <2>1, <2>2, <2>3, <2>5 DEF Wire, Held
<1>8. done \in Streams
  <2>1. <<>> \in Seq(Chunk)
    OBVIOUS
  <2> QED BY <1>2, <1>7, <2>1 DEF Streams
<1>9. /\ done.buffered = s.buffered /\ done.batch = <<>> /\ done.net = "none" /\ done.ticks = s.ticks
      /\ done.answers = s.answers /\ done.onWire = s.onWire \o s.batch /\ done.finished = s.finished
      /\ done.pendingcb = s.pendingcb /\ done.ending = s.ending /\ done.finalCalled = s.finalCalled
      /\ done.destroyed = s.destroyed /\ done.corked = s.corked /\ done.errored = s.errored
  BY <1>2 DEF Streams
<1> HIDE DEF done
<1>10. /\ Wire(done) = next /\ Held(done) = 0 /\ Waiting(done) = Waiting(s) /\ Jobs(done) = Jobs(s)
       /\ Under(done) = 0 /\ ~FinishDue(done) /\ Finishing(done) = 0
  BY <1>5, <1>7, <1>9 DEF Wire, Held, Waiting, Jobs, Under, FinishDue, Finishing
<1>11. next + 0 = next /\ next + 0 + Waiting(s) = Wire(s) + Held(s) + Waiting(s) /\ n <= next
  BY <1>3
<1>12. PlacesOK(done, m, over)
  BY <1>2, <1>6, <1>7, <1>9, <1>10, <1>11, FollowingNone DEF PlacesOK
<1>13. AnswersOK(done, m, n)
  BY <1>2, <1>9, <1>10, <1>11 DEF AnswersOK
<1>14. CallbacksOK(done, m, 1)
  <2> DEFINE cb == s.pendingcb
             w == Wire(s)
             h == Held(s)
             q == Waiting(s)
  <2>1. cb \in Int /\ w \in Int /\ h \in Int /\ q \in Int
    BY <1>2, <1>3
  <2>2. 1 + q + 0 + 0 <= cb /\ cb <= m - w - h + 1 + 0 + 0
    BY <1>2, <1>4, <1>5 DEF CallbacksOK
  <2> HIDE DEF cb, w, h, q
  <2>3. 0 + q + 0 + 1 <= cb /\ cb <= m - (w + h) - 0 + 0 + 0 + 1
    BY <2>1, <2>2
  <2> QED BY <2>3, <1>9, <1>10 DEF CallbacksOK, cb, w, h, q
<1>15. EndingOK(done, over)
  BY <1>2, <1>5, <1>9, <1>10 DEF EndingOK
<1>16. PICK one \in Int : one = 1
  OBVIOUS
<1>17. StreamOK(done, m, n, one, over)
  BY <1>8, <1>9, <1>10, <1>11, <1>12, <1>13, <1>14, <1>15, <1>16 DEF StreamOK
<1> HIDE DEF clear, drained, told, counted, e
<1>18. PICK from \in Nat : from = n
  BY <1>3
<1>30. PICK ended : ended = over
  OBVIOUS
<1> HIDE DEF n, over
<1>19. /\ StreamOK(clear, m, from, one, ended) /\ clear.onWire = done.onWire /\ clear.destroyed = s.destroyed
       /\ clear.corked = s.corked /\ clear.errored = s.errored
       /\ (clear.buffered # <<>> /\ clear.batch = <<>> => clear.corked \/ clear.destroyed)
  <2>1. StreamOK(done, m, from, one, ended) /\ done.batch = <<>> /\ clear = ClearBuffer(done)
    BY <1>9, <1>17, <1>18, <1>30 DEF clear
  <2>2. StreamOK(clear, m, from, one, ended) /\ Cleared(done, clear)
    BY <2>1, ClearBufferIsOK
  <2> QED BY <1>9, <2>2 DEF Cleared
<1>20. Tidy(clear)
  BY <1>2, <1>19 DEF Tidy
<1>21. StreamOK(drained, m, from, one, ended) /\ Kept(clear, drained)
  BY <1>19, DrainIsQuiet, QuietIsOK DEF StreamOK, drained, Quiet
<1>22. PICK to \in Nat : to = next
  BY <1>3
<1>23. StreamOK(told, m, to, one, ended) /\ Kept(drained, told)
  <2>1. PICK list \in Seq(Chunk) : list = s.batch
    BY <1>6
  <2>2. Following(list, from) /\ to = from + Len(list) /\ told = Answer(drained, list, "ok")
    BY <1>6, <1>18, <1>22, <2>1 DEF told, n, Held
  <2>3. Wire(drained) = next
    BY <1>10, <1>19, <1>21 DEF Kept, Wire
  <2>4. to <= Wire(drained)
    BY <1>22, <2>3, <1>3
  <2> QED BY <1>21, <2>2, <2>4, AnsweredIsOK
<1>24. PICK zero \in Int : zero = 0
  OBVIOUS
<1>25. StreamOK(counted, m, to, zero, ended) /\ Kept(told, counted)
  <2>1. told \in Streams /\ told.pendingcb \in Int
    BY <1>23 DEF StreamOK, Streams
  <2>2. told.pendingcb - 1 \in Int
    BY <2>1
  <2>3. counted \in Streams
    BY <2>1, <2>2 DEF Streams, counted
  <2>4. /\ counted.buffered = told.buffered /\ counted.batch = told.batch /\ counted.net = told.net
        /\ counted.ticks = told.ticks /\ counted.answers = told.answers /\ counted.onWire = told.onWire
        /\ counted.finished = told.finished /\ counted.pendingcb = told.pendingcb - 1
        /\ counted.ending = told.ending /\ counted.finalCalled = told.finalCalled
        /\ counted.destroyed = told.destroyed /\ counted.corked = told.corked /\ counted.errored = told.errored
    BY <2>1 DEF Streams, counted
  <2>5. PICK k \in Int : k = 0 - 1
    OBVIOUS
  <2>6. counted.pendingcb = told.pendingcb + k /\ zero = one + k
    BY <2>1, <2>4, <2>5, <1>16, <1>24
  <2>7. SameBut(told, counted, k) /\ Kept(told, counted)
    BY <2>3, <2>4, <2>6 DEF SameBut, Kept
  <2>8. (ended => ended) /\ (counted.destroyed => ended)
    BY <2>4, <1>23 DEF StreamOK
  <2>9. StreamOK(counted, m, to, zero, ended)
    BY <1>23, <2>6, <2>7, <2>8, SameIsOK
  <2> QED BY <2>7, <2>9
<1>26. Kept(clear, counted) /\ Wire(counted) = to /\ counted.destroyed = ended /\ Tidy(counted)
  BY <1>10, <1>19, <1>20, <1>21, <1>22, <1>23, <1>25, <1>30 DEF Kept, Wire, over, Tidy
<1>27. StreamOK(e, m, to, zero, ended) /\ Wire(e) = to /\ e.destroyed = ended /\ Tidy(e)
  <2>1. CASE counted.destroyed
    <3>1. e = ErrorBuffer(counted) /\ ended = TRUE /\ to = Wire(counted)
      BY <1>25, <1>26, <2>1 DEF StreamOK, Streams, e
    <3>2. StreamOK(e, m, to, zero, ended) /\ Steady(counted, e)
      BY <1>25, <1>26, <2>1, <3>1, ErrorBufferIsOK
    <3> QED BY <2>1, <3>2, <1>26 DEF Steady, Wire, Tidy
  <2>2. CASE ~counted.destroyed
    BY <1>25, <1>26, <2>2 DEF e
  <2> QED BY <2>1, <2>2
<1>28. StreamOK(t, m, to, zero, ended) /\ Kept(e, t)
  BY <1>1, <1>24, <1>27, FinishMaybeIsOK
<1>29. StreamOK(t, m, to, 0, ended)
  BY <1>24, <1>28
<1> QED BY <1>27, <1>28, <1>29, KeptIsFine

\* The host fails the batch, and everything that waits behind it.
LEMMA WriteErrorIsFine ==
  ASSUME NEW s, NEW m \in Nat, Fine(s, m), s.net = "handle", NEW t, t = WriteError(s)
  PROVE  Fine(t, m)
<1> DEFINE a == Answer(s, s.batch, "error")
           told == [a EXCEPT !.batch = <<>>, !.net = "none", !.errored = TRUE, !.pendingcb = @ - 1]
           e == ErrorBuffer(told)
<1>1. s \in Streams /\ s.pendingcb \in Int /\ StreamOK(s, m, Wire(s), 0, s.destroyed) /\ s.batch # <<>> /\ Under(s) = 1
  BY DEF Fine, StreamOK, EndingOK, Streams, Under
<1>2. /\ a \in Streams /\ a = [s EXCEPT !.answers = a.answers]
      /\ \A i \in Chunk : a.answers[i] = IF i \in ToSet(s.batch) THEN Append(s.answers[i], "error") ELSE s.answers[i]
  BY <1>1, AnswerFields
<1> HIDE DEF a
<1>3. /\ a.buffered = s.buffered /\ a.onWire = s.onWire /\ a.ticks = s.ticks /\ a.finished = s.finished
      /\ a.ending = s.ending /\ a.finalCalled = s.finalCalled /\ a.destroyed = s.destroyed
      /\ a.corked = s.corked /\ a.pendingcb = s.pendingcb
  BY <1>1, <1>2 DEF Streams
<1>4. told \in Streams
  <2>1. <<>> \in Seq(Chunk) /\ a.pendingcb - 1 \in Int
    BY <1>1, <1>3
  <2> QED BY <1>2, <2>1 DEF Streams
<1>5. /\ told.buffered = s.buffered /\ told.batch = <<>> /\ told.onWire = s.onWire /\ told.ticks = s.ticks
      /\ told.finished = s.finished /\ told.ending = s.ending /\ told.finalCalled = s.finalCalled
      /\ told.destroyed = s.destroyed /\ told.net = "none" /\ told.pendingcb = s.pendingcb - 1
      /\ told.answers = a.answers
  BY <1>2, <1>3 DEF Streams
<1> HIDE DEF told
<1>6. PICK f : f = Failed(told)
  OBVIOUS
<1>7. e = f
  BY <1>5, <1>6 DEF ErrorBuffer
<1>8. /\ f \in Streams /\ f.buffered = <<>> /\ f.batch = told.batch /\ f.onWire = told.onWire
      /\ f.ticks = told.ticks /\ f.finished = told.finished /\ (told.ending => f.ending)
      /\ (told.finalCalled => f.finalCalled) /\ f.destroyed = told.destroyed
      /\ f.net = told.net /\ f.pendingcb = told.pendingcb
      /\ \A i \in Chunk : f.answers[i] = IF i \in ToSet(told.buffered)
                                         THEN Append(told.answers[i], "error") ELSE told.answers[i]
  BY <1>4, <1>6, FailedFields
<1>9. PICK n \in Nat : n = Wire(s)
  BY <1>1, Lengths
<1>10. PICK after : after = TRUE
  OBVIOUS
<1>11. PICK extra \in Int : extra = 0
  OBVIOUS
<1>12. StreamOK(s, m, n, extra, after)
  <2>1. PICK over : over = s.destroyed
    OBVIOUS
  <2>2. StreamOK(s, m, n, extra, over)
    BY <1>1, <1>9, <1>11, <2>1
  <2> QED BY <1>10, <2>2, OverIsOK
<1>13. \A i \in Chunk : ~(i \in ToSet(s.batch) /\ i \in ToSet(s.buffered))
  <2>1. /\ s.batch \in Seq(Chunk) /\ s.buffered \in Seq(Chunk) /\ Following(s.batch, n)
        /\ Following(s.buffered, n + Held(s))
    BY <1>1, <1>9 DEF StreamOK, PlacesOK, Streams
  <2>2. Held(s) \in Nat
    BY <1>1, Lengths
  <2>3. n + Held(s) \in Nat
    BY <2>2
  <2>4. \A i \in Chunk : i \in ToSet(s.batch) <=> n < i /\ i <= n + Held(s)
    BY <2>1, FollowingItems DEF Held
  <2>5. \A i \in Chunk : i \in ToSet(s.buffered) <=> n + Held(s) < i /\ i <= n + Held(s) + Len(s.buffered)
    BY <2>1, <2>3, FollowingItems
  <2>6. \A i \in Chunk : i \in Nat
    BY WriteAssumption DEF Chunk
  <2>7. SUFFICES ASSUME NEW i \in Chunk PROVE ~(i <= n + Held(s) /\ n + Held(s) < i)
    BY <2>4, <2>5
  <2> QED BY <2>2, <2>6
<1>14. \A i \in Chunk : f.answers[i] = IF i \in ToSet(s.batch) \cup ToSet(s.buffered)
                                       THEN Append(s.answers[i], "error") ELSE s.answers[i]
  BY <1>2, <1>5, <1>8, <1>13
<1>15. /\ f \in Streams /\ f.buffered = <<>> /\ f.batch = <<>> /\ f.onWire = s.onWire /\ f.ticks = s.ticks
       /\ f.finished = s.finished /\ (s.ending => f.ending) /\ (s.finalCalled => f.finalCalled)
       /\ (s.destroyed => f.destroyed) /\ f.net = (IF s.batch = <<>> THEN s.net ELSE "none")
       /\ f.pendingcb = s.pendingcb - Under(s)
  BY <1>1, <1>5, <1>8
<1>16. StreamOK(f, m, n, extra, after)
  BY <1>9, <1>10, <1>12, <1>14, <1>15, DroppedIsOK
<1>17. StreamOK(f, m, Wire(f), 0, after)
  BY <1>9, <1>11, <1>15, <1>16 DEF Wire
<1>18. t = Destroy(f, TRUE)
  BY <1>7 DEF WriteError, e, told, a
<1> QED BY <1>17, <1>18, DestroyIsFine

-----------------------------------------------------------------------------
(* The other steps *)

\* A change of the other fields
LEMMA QuietIsFine ==
  ASSUME NEW s, NEW m \in Nat, Fine(s, m), NEW t, SameBut(s, t, 0), Kept(s, t)
  PROVE  Fine(t, m)
<1>1. PICK n \in Nat : n = Wire(s)
  BY Lengths DEF Fine, StreamOK
<1>2. PICK over : over = s.destroyed
  OBVIOUS
<1>3. PICK extra \in Int : extra = 0
  OBVIOUS
<1>4. StreamOK(s, m, n, extra, over) /\ Tidy(s)
  BY <1>1, <1>2, <1>3 DEF Fine
<1>5. StreamOK(t, m, n, extra, over)
  BY <1>4, QuietIsOK DEF Quiet
<1>6. StreamOK(t, m, n, 0, over)
  BY <1>3, <1>5
<1> QED BY <1>1, <1>2, <1>4, <1>6, KeptIsFine

LEMMA UncorkIsFine ==
  ASSUME NEW s, NEW m \in Nat, Fine(s, m), NEW t, t = UncorkStream(s)
  PROVE  Fine(t, m)
<1> DEFINE u == [s EXCEPT !.corked = FALSE]
<1>1. s \in Streams /\ s.pendingcb \in Int /\ s.corked \in BOOLEAN
  BY DEF Fine, StreamOK, Streams
<1>2. u \in Streams
  BY <1>1 DEF Streams
<1>3. /\ u.buffered = s.buffered /\ u.batch = s.batch /\ u.net = s.net /\ u.ticks = s.ticks
      /\ u.answers = s.answers /\ u.onWire = s.onWire /\ u.finished = s.finished
      /\ u.pendingcb = s.pendingcb /\ u.ending = s.ending /\ u.finalCalled = s.finalCalled
      /\ u.destroyed = s.destroyed /\ u.corked = FALSE /\ u.errored = s.errored
  BY <1>1 DEF Streams
<1>4. SameBut(s, u, 0)
  BY <1>1, <1>2, <1>3 DEF SameBut
<1>5. PICK n \in Nat : n = Wire(s)
  BY <1>1, Lengths
<1>6. PICK over : over = s.destroyed
  OBVIOUS
<1>7. PICK extra \in Int : extra = 0
  OBVIOUS
<1>8. StreamOK(u, m, n, extra, over)
  <2>1. StreamOK(s, m, n, extra, over)
    BY <1>5, <1>6, <1>7 DEF Fine
  <2>2. (over => over) /\ (u.destroyed => over)
    BY <1>3, <1>6
  <2> QED BY <1>4, <2>1, <2>2, SameAsIs
<1> HIDE DEF u
<1>9. CASE s.corked /\ s.batch = <<>>
  <2>1. t = ClearBuffer(u) /\ u.batch = <<>>
    BY <1>3, <1>9 DEF UncorkStream, u
  <2>2. StreamOK(t, m, n, extra, over) /\ Cleared(u, t)
    BY <1>8, <2>1, ClearBufferIsOK
  <2>3. Tidy(t)
    BY <1>3, <2>2 DEF Fine, Tidy, Cleared
  <2>4. StreamOK(t, m, Wire(t), 0, t.destroyed)
    BY <1>3, <1>5, <1>6, <1>7, <2>2 DEF Wire, Cleared
  <2> QED BY <2>3, <2>4 DEF Fine
<1>10. CASE ~(s.corked /\ s.batch = <<>>)
  BY <1>1, <1>3, <1>5, <1>6, <1>7, <1>8, <1>10 DEF UncorkStream, u, Fine, Tidy, Wire
<1> QED BY <1>9, <1>10

LEMMA EndIsFine ==
  ASSUME NEW m \in Nat, Fine(stream, m), End
  PROVE  Fine(stream', m)
<1> DEFINE u == UncorkStream(stream)
           a == [u EXCEPT !.endAnswer = Append(@, "error")]
           g == [u EXCEPT !.ending = TRUE]
           f == FinishMaybe(g, TRUE)
           h == [f EXCEPT !.onFinished = TRUE]
<1>1. stream' = IF u.errored THEN a ELSE h
  BY DEF End
<1>2. Fine(u, m)
  BY UncorkIsFine
<1> HIDE DEF u
<1>3. u \in Streams /\ u.pendingcb \in Int
  BY <1>2 DEF Fine, StreamOK, Streams
<1>4. Fine(a, m)
  <2>1. Append(u.endAnswer, "error") \in Seq({"ok", "error"})
    BY <1>3 DEF Streams
  <2>2. a \in Streams
    BY <1>3, <2>1 DEF Streams
  <2>3. /\ a.buffered = u.buffered /\ a.batch = u.batch /\ a.net = u.net /\ a.ticks = u.ticks
        /\ a.answers = u.answers /\ a.onWire = u.onWire /\ a.finished = u.finished
        /\ a.pendingcb = u.pendingcb /\ a.ending = u.ending /\ a.finalCalled = u.finalCalled
        /\ a.destroyed = u.destroyed /\ a.corked = u.corked /\ a.errored = u.errored
    BY <1>3 DEF Streams
  <2> HIDE DEF a
  <2>4. SameBut(u, a, 0) /\ Kept(u, a)
    BY <1>3, <2>2, <2>3 DEF SameBut, Kept
  <2> QED BY <1>2, <2>4, QuietIsFine
<1>5. Fine(h, m)
  <2>1. g \in Streams
    BY <1>3 DEF Streams
  <2>2. /\ g.buffered = u.buffered /\ g.batch = u.batch /\ g.net = u.net /\ g.ticks = u.ticks
        /\ g.answers = u.answers /\ g.onWire = u.onWire /\ g.finished = u.finished
        /\ g.pendingcb = u.pendingcb /\ g.ending /\ g.finalCalled = u.finalCalled
        /\ g.destroyed = u.destroyed /\ g.corked = u.corked /\ g.errored = u.errored
    BY <1>3 DEF Streams
  <2> HIDE DEF g
  <2>3. Fine(g, m)
    BY <1>2, <1>3, <2>1, <2>2, QuietIsFine DEF SameBut, Kept
  <2>4. Fine(f, m)
    <3>1. PICK n \in Nat : n = Wire(g)
      BY <2>1, Lengths
    <3>2. PICK over : over = g.destroyed
      OBVIOUS
    <3>3. PICK extra \in Int : extra = 0
      OBVIOUS
    <3>4. StreamOK(g, m, n, extra, over) /\ Tidy(g)
      BY <2>3, <3>1, <3>2, <3>3 DEF Fine
    <3> HIDE DEF f
    <3>5. f = FinishMaybe(g, TRUE)
      BY DEF f
    <3>6. StreamOK(f, m, n, extra, over) /\ Kept(g, f)
      BY <3>3, <3>4, <3>5, FinishMaybeIsOK
    <3>7. StreamOK(f, m, n, 0, over)
      BY <3>3, <3>6
    <3> QED BY <3>1, <3>2, <3>4, <3>6, <3>7, KeptIsFine
  <2> HIDE DEF f
  <2>5. f \in Streams /\ f.pendingcb \in Int
    BY <2>4 DEF Fine, StreamOK, Streams
  <2>6. h \in Streams
    BY <2>5 DEF Streams
  <2>7. /\ h.buffered = f.buffered /\ h.batch = f.batch /\ h.net = f.net /\ h.ticks = f.ticks
        /\ h.answers = f.answers /\ h.onWire = f.onWire /\ h.finished = f.finished
        /\ h.pendingcb = f.pendingcb /\ h.ending = f.ending /\ h.finalCalled = f.finalCalled
        /\ h.destroyed = f.destroyed /\ h.corked = f.corked /\ h.errored = f.errored
    BY <2>5 DEF Streams
  <2> HIDE DEF h
  <2>8. SameBut(f, h, 0) /\ Kept(f, h)
    BY <2>5, <2>6, <2>7 DEF SameBut, Kept
  <2> QED BY <2>4, <2>8, QuietIsFine
<1> QED BY <1>1, <1>4, <1>5

LEMMA WriteIsFine ==
  ASSUME made \in Nat, Fine(stream, made), Write
  PROVE  made' \in 0..Writes /\ Fine(stream', made')
<1> DEFINE a == Answer(stream, <<made'>>, "error")
<1>1. made' \in Chunk /\ made' = made + 1 /\ made' \in 0..Writes
  BY WriteAssumption DEF Write, Chunk
<1>2. CASE ~stream.ending /\ ~stream.destroyed
  BY <1>1, <1>2, AcceptIsOK DEF Write
<1>3. CASE stream.ending \/ stream.destroyed
  <2>1. PICK n \in Nat : n = Wire(stream)
    BY Lengths DEF Fine, StreamOK
  <2>2. PICK over : over = stream.destroyed
    OBVIOUS
  <2>3. PICK extra \in Int : extra = 0
    OBVIOUS
  <2>4. PICK after : after = TRUE
    OBVIOUS
  <2>5. StreamOK(stream, made, n, extra, after)
    BY <2>1, <2>2, <2>3, <2>4, OverIsOK DEF Fine
  <2>6. StreamOK(stream, made, n, 0, after)
    BY <2>3, <2>5
  <2>7. PICK i \in Chunk : i = made'
    BY <1>1
  <2>8. PICK t : t = a
    OBVIOUS
  <2>9. StreamOK(t, i, n, 0, after) /\ Kept(stream, t)
    BY <1>1, <2>4, <2>6, <2>7, <2>8, RefusedIsOK
  <2>10. i \in Nat /\ StreamOK(t, i, Wire(t), 0, after)
    BY <1>1, <2>1, <2>7, <2>9, WriteAssumption DEF Kept, Wire, Chunk
  <2>11. CASE stream.ending
    <3>1. PICK d : d = Destroy(t, TRUE)
      OBVIOUS
    <3>2. stream' = d
      BY <2>8, <2>11, <3>1 DEF Write
    <3>3. Fine(d, i)
      BY <2>10, <3>1, DestroyIsFine
    <3> QED BY <1>1, <2>7, <3>2, <3>3
  <2>12. CASE ~stream.ending
    <3>1. stream' = t
      BY <1>3, <2>8, <2>12 DEF Write
    <3>2. t.destroyed
      BY <1>3, <2>9, <2>12 DEF Kept
    <3>3. PICK k \in Nat : k = Wire(t)
      BY <2>10, Lengths DEF StreamOK
    <3>4. Fine(t, i)
      BY <2>4, <2>10, <3>2, <3>3, FineWhenOver
    <3> QED BY <1>1, <2>7, <3>1, <3>4
  <2> QED BY <2>11, <2>12
<1> QED BY <1>2, <1>3

LEMMA ConnectedIsFine ==
  ASSUME NEW m \in Nat, Fine(stream, m), Connected
  PROVE  Fine(stream', m)
<1> DEFINE o == [stream EXCEPT !.phase = "open"]
<1>1. \/ stream' = IF o.net = "connect" THEN DoWrite(o, o.batch) ELSE IF o.net = "final" THEN OnFinish(o) ELSE o
      \/ stream' = Destroy(stream, TRUE)
  BY DEF Connected
<1>2. stream \in Streams /\ stream.pendingcb \in Int
  BY DEF Fine, StreamOK, Streams
<1>3. o \in Streams
  BY <1>2 DEF Streams
<1>4. /\ o.buffered = stream.buffered /\ o.batch = stream.batch /\ o.net = stream.net /\ o.ticks = stream.ticks
      /\ o.answers = stream.answers /\ o.onWire = stream.onWire /\ o.finished = stream.finished
      /\ o.pendingcb = stream.pendingcb /\ o.ending = stream.ending /\ o.finalCalled = stream.finalCalled
      /\ o.destroyed = stream.destroyed /\ o.corked = stream.corked /\ o.errored = stream.errored
      /\ o.phase = "open"
  BY <1>2 DEF Streams
<1> HIDE DEF o
<1>5. Fine(o, m)
  BY <1>2, <1>3, <1>4, QuietIsFine DEF SameBut, Kept
<1>6. PICK n \in Nat : n = Wire(o)
  BY <1>3, Lengths
<1>7. PICK over : over = o.destroyed
  OBVIOUS
<1>8. PICK extra \in Int : extra = 0
  OBVIOUS
<1>9. StreamOK(o, m, n, extra, over) /\ Tidy(o) /\ o.pendingcb \in Int
  BY <1>2, <1>4, <1>5, <1>6, <1>7, <1>8 DEF Fine
<1>10. CASE stream' = Destroy(stream, TRUE)
  <2>1. StreamOK(stream, m, Wire(stream), 0, stream.destroyed)
    BY DEF Fine
  <2>2. PICK t : t = stream'
    OBVIOUS
  <2>3. Fine(t, m)
    BY <1>10, <2>1, <2>2, DestroyIsFine
  <2> QED BY <2>2, <2>3
<1>11. CASE o.net = "connect" /\ stream' = DoWrite(o, o.batch)
  <2> DEFINE t == [o EXCEPT !.batch = o.batch, !.net = "handle"]
  <2>1. stream' = t
    BY <1>4, <1>11 DEF DoWrite
  <2>2. t \in Streams
    BY <1>3 DEF Streams
  <2>3. /\ t.buffered = o.buffered /\ t.batch = o.batch /\ t.net = "handle" /\ t.ticks = o.ticks
        /\ t.answers = o.answers /\ t.onWire = o.onWire /\ t.finished = o.finished
        /\ t.pendingcb = o.pendingcb /\ t.ending = o.ending /\ t.finalCalled = o.finalCalled
        /\ t.destroyed = o.destroyed /\ t.corked = o.corked /\ t.errored = o.errored
    BY <1>3 DEF Streams
  <2> HIDE DEF t
  <2>4. /\ Wire(t) = Wire(o) /\ Held(t) = Held(o) /\ Waiting(t) = Waiting(o) /\ Jobs(t) = Jobs(o)
        /\ Under(t) = Under(o) /\ (FinishDue(t) <=> FinishDue(o)) /\ Finishing(t) = Finishing(o)
    BY <1>11, <2>3 DEF Wire, Held, Waiting, Jobs, Under, Finishing, FinishDue
  <2>5. PlacesOK(t, m, over) /\ AnswersOK(t, m, n) /\ CallbacksOK(t, m, extra)
    BY <1>9, <2>3, <2>4 DEF StreamOK, PlacesOK, AnswersOK, CallbacksOK
  <2>6. EndingOK(t, over)
    BY <1>9, <1>11, <2>3, <2>4 DEF StreamOK, EndingOK
  <2>7. StreamOK(t, m, n, extra, over)
    BY <1>9, <2>2, <2>3, <2>4, <2>5, <2>6 DEF StreamOK
  <2>8. StreamOK(t, m, n, 0, over) /\ Kept(o, t)
    BY <1>8, <2>3, <2>7 DEF Kept
  <2>9. Fine(t, m)
    BY <1>6, <1>7, <1>9, <2>8, KeptIsFine
  <2> QED BY <2>1, <2>9
<1>12. CASE o.net = "final" /\ stream' = OnFinish(o)
  <2> DEFINE d == [o EXCEPT !.pendingcb = @ - 1, !.net = "none"]
             t == IF NeedFinish(d) THEN Later([d EXCEPT !.pendingcb = @ + 1], "finish") ELSE d
  <2>1. stream' = t
    BY <1>12 DEF OnFinish
  <2>2. d \in Streams
    <3>1. o.pendingcb - 1 \in Int
      BY <1>9
    <3> QED BY <1>3, <3>1 DEF Streams
  <2>3. /\ d.buffered = o.buffered /\ d.batch = o.batch /\ d.net = "none" /\ d.ticks = o.ticks
        /\ d.answers = o.answers /\ d.onWire = o.onWire /\ d.finished = o.finished
        /\ d.pendingcb = o.pendingcb - 1 /\ d.ending = o.ending /\ d.finalCalled = o.finalCalled
        /\ d.destroyed = o.destroyed /\ d.corked = o.corked /\ d.errored = o.errored
    BY <1>3 DEF Streams
  <2> HIDE DEF d
  <2>4. /\ o.ending /\ o.batch = <<>> /\ o.buffered = <<>> /\ (o.finalCalled \/ o.destroyed)
        /\ Finishing(o) = 1 /\ ~FinishDue(o)
    BY <1>9, <1>12 DEF Finishing, StreamOK, EndingOK
  <2>5. /\ Wire(d) = Wire(o) /\ Held(d) = Held(o) /\ Waiting(d) = Waiting(o) /\ Jobs(d) = Jobs(o)
        /\ Under(d) = Under(o) /\ ~FinishDue(d) /\ Finishing(d) = 0
    BY <2>3, <2>4 DEF Wire, Held, Waiting, Jobs, Under, FinishDue, Finishing
  <2>6. PlacesOK(d, m, over) /\ AnswersOK(d, m, n)
    BY <1>9, <2>3, <2>5 DEF StreamOK, PlacesOK, AnswersOK
  <2>7. CallbacksOK(d, m, extra)
    <3> DEFINE cb == o.pendingcb
               low == Under(o) + Waiting(o)
               high == m - Wire(o) - Held(o) + Under(o)
    <3>1. cb \in Int /\ low \in Int /\ high \in Int
      BY <1>3, <1>9, Lengths
    <3>2. low + 1 + extra <= cb /\ cb <= high + 1 + extra
      BY <1>9, <2>4 DEF StreamOK, CallbacksOK
    <3> HIDE DEF cb, low, high
    <3>3. low + 0 + extra <= cb - 1 /\ cb - 1 <= high + 0 + extra
      BY <3>1, <3>2
    <3> QED BY <3>3, <2>3, <2>5 DEF CallbacksOK, cb, low, high
  <2>8. EndingOK(d, over)
    BY <1>9, <2>3, <2>4, <2>5 DEF StreamOK, EndingOK
  <2>9. StreamOK(d, m, n, extra, over)
    BY <1>9, <2>2, <2>3, <2>5, <2>6, <2>7, <2>8 DEF StreamOK
  <2>10. PICK u : u = t
    OBVIOUS
  <2>11. StreamOK(u, m, n, extra, over) /\ Kept(d, u)
    BY <2>3, <2>4, <2>5, <2>9, <2>10, FinalIsOK
  <2>12. Kept(o, u) /\ StreamOK(u, m, n, 0, over)
    BY <1>8, <2>3, <2>11 DEF Kept
  <2>13. Fine(u, m)
    BY <1>6, <1>7, <1>9, <2>12, KeptIsFine
  <2> QED BY <2>1, <2>10, <2>13
<1> QED BY <1>1, <1>5, <1>10, <1>11, <1>12

\* A job is taken off the queue; without 'finish' it is no longer due.
Taken(s) == [s EXCEPT !.ticks = Tail(@)]

LEMMA TakenIsOK ==
  ASSUME NEW s, NEW m \in Nat, NEW n \in Nat, NEW over, StreamOK(s, m, n, 0, over), s.ticks # <<>>,
         NEW job, job = Head(s.ticks), NEW extra \in Int, job = "finish" => extra = 1,
         job # "finish" => extra = 0, NEW t, t = Taken(s)
  PROVE  /\ StreamOK(t, m, n, extra, over) /\ Kept(s, t)
         /\ (job = "finish" => t.ending /\ t.batch = <<>> /\ t.buffered = <<>> /\ Finishing(t) = 0)
         /\ (job = "errorBuffer" => over)
<1> DEFINE rest == Tail(s.ticks)
<1>1. s \in Streams /\ s.pendingcb \in Int /\ s.ticks \in Seq(Ticks) /\ t = [s EXCEPT !.ticks = rest]
  BY DEF StreamOK, Streams, Taken
<1>2. /\ rest \in Seq(Ticks) /\ Jobs(s) \in Nat /\ Jobs(s) >= 1 /\ Len(rest) = Jobs(s) - 1
      /\ \A i \in 1..Jobs(s) - 1 : rest[i] = s.ticks[i + 1]
      /\ job = s.ticks[1]
  BY <1>1 DEF Jobs
<1> HIDE DEF rest
<1>3. t \in Streams
  BY <1>1, <1>2 DEF Streams
<1>4. /\ t.buffered = s.buffered /\ t.batch = s.batch /\ t.net = s.net /\ t.ticks = rest
      /\ t.answers = s.answers /\ t.onWire = s.onWire /\ t.finished = s.finished
      /\ t.pendingcb = s.pendingcb /\ t.ending = s.ending /\ t.finalCalled = s.finalCalled
      /\ t.destroyed = s.destroyed /\ t.corked = s.corked /\ t.errored = s.errored
  BY <1>1 DEF Streams
<1>5. /\ Wire(t) = Wire(s) /\ Held(t) = Held(s) /\ Waiting(t) = Waiting(s) /\ Jobs(t) = Jobs(s) - 1
      /\ Under(t) = Under(s)
  BY <1>2, <1>4 DEF Wire, Held, Waiting, Jobs, Under
<1>6. /\ PlacesOK(s, m, over) /\ AnswersOK(s, m, n) /\ CallbacksOK(s, m, 0) /\ EndingOK(s, over)
      /\ n <= Wire(s) /\ (s.destroyed => over)
  BY DEF StreamOK
<1>7. PlacesOK(t, m, over) /\ AnswersOK(t, m, n)
  BY <1>4, <1>5, <1>6 DEF PlacesOK, AnswersOK
<1>8. /\ \A i, j \in 1..Jobs(t) : t.ticks[i] = "finish" /\ t.ticks[j] = "finish" => i = j
      /\ \A i \in 1..Jobs(t) : t.ticks[i] = "errorBuffer" => over
  <2>1. ASSUME NEW i \in 1..Jobs(t) PROVE i \in 1..Jobs(s) - 1 /\ i + 1 \in 1..Jobs(s) /\ t.ticks[i] = s.ticks[i + 1]
    BY <1>2, <1>4, <1>5
  <2>2. \A i \in 1..Jobs(t) : t.ticks[i] = "errorBuffer" => over
    BY <1>6, <2>1 DEF EndingOK
  <2>3. ASSUME NEW i \in 1..Jobs(t), NEW j \in 1..Jobs(t), t.ticks[i] = "finish", t.ticks[j] = "finish" PROVE i = j
    BY <1>6, <2>1, <2>3 DEF EndingOK
  <2> QED BY <2>2, <2>3
<1>9. Finishing(s) = Finishing(t) + extra /\ (job = "finish" => Finishing(t) = 0 /\ Finishing(s) = 1)
      /\ (FinishDue(t) => FinishDue(s))
  <2>1. 1 \in 1..Jobs(s)
    BY <1>2
  <2>2. CASE job = "finish"
    <3>1. FinishDue(s)
      BY <1>2, <2>1, <2>2 DEF FinishDue
    <3>2. ~FinishDue(t)
      <4>1. SUFFICES ASSUME NEW i \in 1..Jobs(t), t.ticks[i] = "finish" PROVE FALSE
        BY DEF FinishDue
      <4>2. i + 1 \in 1..Jobs(s) /\ s.ticks[i + 1] = "finish" /\ i + 1 # 1
        BY <1>2, <1>4, <1>5, <4>1
      <4> QED BY <1>2, <1>6, <2>1, <2>2, <4>2 DEF EndingOK
    <3>3. s.net # "final"
      BY <1>6, <3>1 DEF EndingOK
    <3> QED BY <1>4, <2>2, <3>1, <3>2, <3>3 DEF Finishing
  <2>3. CASE job # "finish"
    <3>1. FinishDue(s) => FinishDue(t)
      <4>1. SUFFICES ASSUME NEW i \in 1..Jobs(s), s.ticks[i] = "finish" PROVE FinishDue(t)
        BY DEF FinishDue
      <4>2. i # 1
        BY <1>2, <2>3, <4>1
      <4>3. i - 1 \in 1..Jobs(t) /\ (i - 1) + 1 = i
        BY <1>2, <1>5, <4>2
      <4>4. t.ticks[i - 1] = "finish"
        BY <1>2, <1>4, <1>5, <4>1, <4>3
      <4> QED BY <4>3, <4>4 DEF FinishDue
    <3>2. FinishDue(t) => FinishDue(s)
      <4>1. SUFFICES ASSUME NEW i \in 1..Jobs(t), t.ticks[i] = "finish" PROVE FinishDue(s)
        BY DEF FinishDue
      <4>2. i + 1 \in 1..Jobs(s) /\ s.ticks[i + 1] = "finish"
        BY <1>2, <1>4, <1>5, <4>1
      <4> QED BY <4>2 DEF FinishDue
    <3> QED BY <1>4, <2>3, <3>1, <3>2 DEF Finishing
  <2> QED BY <2>2, <2>3
<1>10. CallbacksOK(t, m, extra)
  <2> DEFINE cb == s.pendingcb
             low == Under(s) + Waiting(s)
             high == m - Wire(s) - Held(s) + Under(s)
             d == Finishing(t)
  <2>1. cb \in Int /\ low \in Int /\ high \in Int /\ d \in Int
    <3>1. Finishing(t) \in {0, 1} /\ Under(s) \in {0, 1} /\ Wire(s) \in Nat /\ Held(s) \in Nat /\ Waiting(s) \in Nat
      BY <1>1, <1>3, Lengths
    <3> QED BY <1>1, <3>1
  <2>2. low + (d + extra) + 0 <= cb /\ cb <= high + (d + extra) + 0
    BY <1>6, <1>9 DEF CallbacksOK
  <2> HIDE DEF cb, low, high, d
  <2>3. low + d + extra <= cb /\ cb <= high + d + extra
    BY <2>1, <2>2
  <2> QED BY <2>3, <1>4, <1>5 DEF CallbacksOK, cb, low, high, d
<1>11. EndingOK(t, over)
  <2>1. Finishing(t) = 1 => Finishing(s) = 1
    BY <1>1, <1>3, <1>9, Lengths
  <2> QED BY <2>1, <1>4, <1>6, <1>8, <1>9 DEF EndingOK
<1>12. StreamOK(t, m, n, extra, over)
  BY <1>3, <1>4, <1>5, <1>6, <1>7, <1>10, <1>11 DEF StreamOK
<1>13. job = "errorBuffer" => over
  BY <1>2, <1>6 DEF EndingOK
<1> QED BY <1>4, <1>6, <1>9, <1>12, <1>13 DEF Kept, EndingOK

LEMMA TickIsFine ==
  ASSUME NEW m \in Nat, Fine(stream, m), Tick
  PROVE  Fine(stream', m)
<1> DEFINE job == Head(stream.ticks)
           t == Taken(stream)
<1>1. /\ stream.ticks # <<>>
      /\ \/ job = "errorBuffer" /\ stream' = ErrorBuffer(t)
         \/ job = "close" /\ stream' = [t EXCEPT !.closed = TRUE]
         \/ job = "finish" /\ stream' \in {Finished(t), Destroy(Finished(t), FALSE)}
  BY DEF Tick, Taken
<1>2. PICK n \in Nat : n = Wire(stream)
  BY Lengths DEF Fine, StreamOK
<1>3. PICK over : over = stream.destroyed
  OBVIOUS
<1>4. PICK extra \in Int : (job = "finish" => extra = 1) /\ (job # "finish" => extra = 0)
  OBVIOUS
<1>5. StreamOK(stream, m, n, 0, over) /\ Tidy(stream)
  BY <1>2, <1>3 DEF Fine
<1>6. PICK s : s = t
  OBVIOUS
<1>7. /\ StreamOK(s, m, n, extra, over) /\ Kept(stream, s)
      /\ (job = "finish" => s.ending /\ s.batch = <<>> /\ s.buffered = <<>> /\ Finishing(s) = 0)
      /\ (job = "errorBuffer" => over)
  BY <1>1, <1>4, <1>5, <1>6, TakenIsOK
<1>8. s \in Streams /\ s.pendingcb \in Int /\ n = Wire(s) /\ over = s.destroyed /\ Tidy(s)
  BY <1>2, <1>3, <1>5, <1>7 DEF StreamOK, Streams, Kept, Wire, Tidy
<1> HIDE DEF t
<1>9. CASE job = "errorBuffer" /\ stream' = ErrorBuffer(s)
  <2>1. PICK e : e = ErrorBuffer(s)
    OBVIOUS
  <2>2. s.destroyed /\ extra = 0
    BY <1>4, <1>7, <1>8, <1>9
  <2>3. StreamOK(e, m, n, extra, over) /\ Steady(s, e)
    BY <1>7, <1>8, <2>1, <2>2, ErrorBufferIsOK
  <2>4. PICK after : after = TRUE
    OBVIOUS
  <2>5. over = after
    BY <1>8, <2>2, <2>4 DEF Streams
  <2>6. StreamOK(e, m, n, 0, after) /\ n = Wire(e) /\ e.destroyed
    BY <1>8, <2>2, <2>3, <2>5 DEF Steady, Wire
  <2>7. Fine(e, m)
    BY <2>4, <2>6, FineWhenOver
  <2> QED BY <1>9, <2>1, <2>7
<1>10. CASE job = "close" /\ stream' = [s EXCEPT !.closed = TRUE]
  <2> DEFINE c == [s EXCEPT !.closed = TRUE]
  <2>1. c \in Streams
    BY <1>8 DEF Streams
  <2>2. /\ c.buffered = s.buffered /\ c.batch = s.batch /\ c.net = s.net /\ c.ticks = s.ticks
        /\ c.answers = s.answers /\ c.onWire = s.onWire /\ c.finished = s.finished
        /\ c.pendingcb = s.pendingcb /\ c.ending = s.ending /\ c.finalCalled = s.finalCalled
        /\ c.destroyed = s.destroyed /\ c.corked = s.corked /\ c.errored = s.errored
    BY <1>8 DEF Streams
  <2> HIDE DEF c
  <2>3. SameBut(s, c, 0) /\ Kept(s, c)
    BY <1>8, <2>1, <2>2 DEF SameBut, Kept
  <2>4. Fine(s, m)
    BY <1>4, <1>7, <1>8, <1>10 DEF Fine
  <2>5. Fine(c, m)
    BY <2>3, <2>4, QuietIsFine
  <2> QED BY <1>10, <2>5 DEF c
<1>11. CASE job = "finish" /\ stream' \in {Finished(s), Destroy(Finished(s), FALSE)}
  <2>1. PICK zero \in Int : zero = 0
    OBVIOUS
  <2>2. extra = zero + 1
    BY <1>4, <1>11, <2>1
  <2>3. PICK f : f = Finished(s)
    OBVIOUS
  <2>4. StreamOK(f, m, n, zero, over) /\ Kept(s, f)
    BY <1>7, <1>11, <2>2, <2>3, FinishedIsOK
  <2>5. StreamOK(f, m, n, 0, over) /\ n = Wire(f)
    BY <1>8, <2>1, <2>4 DEF Kept, Wire
  <2>6. Fine(f, m)
    BY <1>8, <2>4, <2>5, KeptIsFine
  <2>7. PICK d : d = Destroy(f, FALSE)
    OBVIOUS
  <2>8. Fine(d, m)
    BY <2>5, <2>7, DestroyIsFine
  <2> QED BY <1>11, <2>3, <2>6, <2>7, <2>8
<1> QED BY <1>1, <1>6, <1>9, <1>10, <1>11

LEMMA WriteInitFine == ASSUME WriteInit PROVE WriteIInv
BY FollowingNone, WriteAssumption DEF WriteInit, Streams, Wire, Held, Waiting, Jobs, Under, FinishDue,
   Finishing, PlacesOK, CallbacksOK, EndingOK, Chunk, AnswersOK, Tidy, WriteIInv, Fine, StreamOK

LEMMA WriteStepFine == ASSUME WriteIInv, [WriteNext]_WriteVars PROVE WriteIInv'
<1>1. made \in Nat /\ made \in 0..Writes /\ Fine(stream, made) /\ stream \in Streams /\ stream.pendingcb \in Int
  BY WriteAssumption DEF WriteIInv, Fine, StreamOK, Streams
<1>2. SUFFICES made' \in 0..Writes /\ Fine(stream', made')
  BY DEF WriteIInv, Fine, StreamOK, Tidy, PlacesOK, AnswersOK, CallbacksOK, EndingOK, Wire, Held, Waiting,
         Jobs, Under, Finishing, FinishDue
<1>3. CASE Write
  BY <1>1, <1>3, WriteIsFine
<1>4. CASE Cork
  <2> DEFINE t == [stream EXCEPT !.corked = TRUE]
  <2>1. stream' = t /\ made' = made
    BY <1>4 DEF Cork
  <2>2. t \in Streams
    BY <1>1 DEF Streams
  <2>3. /\ t.buffered = stream.buffered /\ t.batch = stream.batch /\ t.net = stream.net /\ t.ticks = stream.ticks
        /\ t.answers = stream.answers /\ t.onWire = stream.onWire /\ t.finished = stream.finished
        /\ t.pendingcb = stream.pendingcb /\ t.ending = stream.ending /\ t.finalCalled = stream.finalCalled
        /\ t.destroyed = stream.destroyed /\ t.corked /\ t.errored = stream.errored
    BY <1>1 DEF Streams
  <2> HIDE DEF t
  <2>4. Tidy(t)
    BY <1>1, <2>3 DEF Fine, Tidy
  <2>5. SameBut(stream, t, 0)
    BY <1>1, <2>2, <2>3 DEF SameBut
  <2>6. PICK n \in Nat : n = Wire(stream)
    BY <1>1, Lengths
  <2>7. PICK over : over = stream.destroyed
    OBVIOUS
  <2>8. PICK extra \in Int : extra = 0
    OBVIOUS
  <2>9. StreamOK(t, made, n, extra, over)
    BY <1>1, <2>3, <2>5, <2>6, <2>7, <2>8, SameAsIs DEF Fine
  <2>10. StreamOK(t, made, Wire(t), 0, t.destroyed)
    BY <2>3, <2>6, <2>7, <2>8, <2>9 DEF Wire
  <2> QED BY <1>1, <2>1, <2>4, <2>10 DEF Fine
<1>5. CASE Uncork
  BY <1>1, <1>5, UncorkIsFine DEF Uncork
<1>6. CASE End
  BY <1>1, <1>6, EndIsFine DEF End
<1>7. CASE DestroySocket
  <2>1. PICK error \in BOOLEAN : stream' = Destroy(stream, error) /\ made' = made
    BY <1>7 DEF DestroySocket
  <2>2. StreamOK(stream, made, Wire(stream), 0, stream.destroyed)
    BY <1>1 DEF Fine
  <2> QED BY <1>1, <2>1, <2>2, DestroyIsFine
<1>8. CASE Connected
  BY <1>1, <1>8, ConnectedIsFine DEF Connected
<1>9. CASE HostWrites
  BY <1>1, <1>9, WroteIsFine, WriteErrorIsFine DEF HostWrites
<1>10. CASE Tick
  BY <1>1, <1>10, TickIsFine DEF Tick
<1>11. CASE UNCHANGED WriteVars
  BY <1>1, <1>11 DEF WriteVars
<1> QED BY <1>3, <1>4, <1>5, <1>6, <1>7, <1>8, <1>9, <1>10, <1>11 DEF WriteNext

LEMMA FineImplies == ASSUME WriteIInv PROVE WriteInv
<1>1. /\ stream \in Streams /\ made \in 0..Writes /\ PlacesOK(stream, made, stream.destroyed)
      /\ AnswersOK(stream, made, Wire(stream)) /\ CallbacksOK(stream, made, 0)
      /\ EndingOK(stream, stream.destroyed)
  BY DEF WriteIInv, Fine, StreamOK
<1>2. /\ Wire(stream) \in Nat /\ Held(stream) \in Nat /\ Waiting(stream) \in Nat /\ stream.pendingcb \in Int
      /\ Finishing(stream) \in {0, 1} /\ Under(stream) \in {0, 1} /\ Under(stream) <= Held(stream)
      /\ (stream.batch = <<>> <=> Held(stream) = 0) /\ (stream.buffered = <<>> <=> Waiting(stream) = 0)
  BY <1>1, Lengths
<1>3. made \in Nat /\ made <= Writes /\ Writes \in Nat /\ \A i \in Chunk : i \in Nat
  BY <1>1, WriteAssumption DEF Chunk
<1>4. WriteTypeOK
  <2>1. /\ stream.buffered \in Seq(Chunk) /\ stream.batch \in Seq(Chunk)
        /\ stream.net \in {"none", "connect", "handle", "final"}
        /\ stream.phase \in {"connecting", "open", "gone"} /\ stream.ticks \in Seq(Ticks)
        /\ \A i \in Chunk : stream.answers[i] \in Seq({"ok", "error"})
    BY <1>1 DEF Streams
  <2>2. {stream.corked, stream.needDrain, stream.ending, stream.errored, stream.finalCalled,
         stream.finished, stream.destroyed, stream.onFinished, stream.closed} \subseteq BOOLEAN
    BY <1>1 DEF Streams
  <2>3. stream.pendingcb \in 0..Writes + 2
    <3> DEFINE cb == stream.pendingcb
               w == Wire(stream)
               h == Held(stream)
               q == Waiting(stream)
               u == Under(stream)
               d == Finishing(stream)
    <3>1. /\ w \in Nat /\ h \in Nat /\ q \in Nat /\ cb \in Int /\ d \in {0, 1} /\ u \in {0, 1} /\ u <= h
          /\ u + q + d + 0 <= cb /\ cb <= made - w - h + u + d + 0
      BY <1>1, <1>2 DEF CallbacksOK
    <3> HIDE DEF cb, w, h, q, u, d
    <3>2. cb \in 0..Writes + 2
      BY <1>3, <3>1
    <3> QED BY <3>2 DEF cb
  <2>4. /\ (stream.net = "handle" => stream.batch # <<>>)
        /\ (stream.batch # <<>> => stream.net \in {"connect", "handle"})
    BY <1>1, <2>1 DEF EndingOK
  <2> QED BY <1>1, <2>1, <2>2, <2>3, <2>4 DEF WriteTypeOK
<1>5. \A i \in Chunk : stream.answers[i] =
          IF i <= Wire(stream) THEN <<"ok">>
          ELSE IF i <= Wire(stream) + Held(stream) + Waiting(stream) \/ i > made THEN <<>> ELSE <<"error">>
  BY <1>1 DEF AnswersOK
<1>6. AnsweredOnce
  <2>1. Len(<<"ok">>) = 1 /\ Len(<<>>) = 0 /\ Len(<<"error">>) = 1
    OBVIOUS
  <2>2. SUFFICES ASSUME NEW i \in Chunk PROVE Len(stream.answers[i]) <= 1
    BY DEF AnsweredOnce
  <2>3. stream.answers[i] = <<"ok">> \/ stream.answers[i] = <<>> \/ stream.answers[i] = <<"error">>
    BY <1>5
  <2>4. PICK z : z = Len(stream.answers[i])
    OBVIOUS
  <2>5. z = 0 \/ z = 1
    BY <2>1, <2>3, <2>4
  <2>6. z <= 1
    BY <2>5
  <2> QED BY <2>4, <2>6
<1>7. WrittenInOrder
  <2>1. stream.onWire = [k \in 1..Len(stream.onWire) |-> 0 + k]
    BY <1>1 DEF PlacesOK, Following
  <2>2. [k \in 1..Len(stream.onWire) |-> 0 + k] = [k \in 1..Len(stream.onWire) |-> k]
    BY <1>2 DEF Wire
  <2>3. <<"ok">> # <<>> /\ <<"ok">> # <<"error">>
    OBVIOUS
  <2>4. \A i \in Chunk : stream.answers[i] = <<"ok">> <=> i <= Wire(stream)
    BY <1>5, <2>3
  <2> QED BY <2>1, <2>2, <2>4 DEF WrittenInOrder, Wire
<1>8. FinishMeansWritten
  <2>1. SUFFICES ASSUME stream.finished
                 PROVE  /\ stream.buffered = <<>> /\ stream.batch = <<>>
                        /\ \A i \in 1..made : stream.answers[i] # <<>>
    BY DEF FinishMeansWritten
  <2>2. stream.buffered = <<>> /\ stream.batch = <<>>
    BY <1>1, <2>1 DEF EndingOK
  <2>3. Held(stream) = 0 /\ Waiting(stream) = 0
    BY <1>2, <2>2
  <2>4. ASSUME NEW i \in 1..made PROVE stream.answers[i] # <<>>
    BY <1>2, <1>3, <1>5, <2>3 DEF Chunk
  <2> QED BY <2>2, <2>4
<1> QED BY <1>4, <1>6, <1>7, <1>8 DEF WriteInv

\* For any number of writes of a socket, cork(), end(), destroy(), a connection that comes late
\* or fails and a host that fails a write: the chunks reach the host in the order of the calls,
\* each callback is called once and says "ok" only of what the host has taken, and 'finish'
\* comes with nothing left to write.
THEOREM WriteIsSafe == WriteSpec => []WriteInv
<1>1. WriteInit => WriteIInv
  BY WriteInitFine
<1>2. WriteIInv /\ [WriteNext]_WriteVars => WriteIInv'
  BY WriteStepFine
<1>3. WriteIInv => WriteInv
  BY FineImplies
<1> QED BY <1>1, <1>2, <1>3, PTL DEF WriteSpec

-----------------------------------------------------------------------------
\* Induction over the numbers, for a set
LEMMA CountingUp ==
  ASSUME NEW T, 0 \in T, \A n \in Nat : n \in T => n + 1 \in T
  PROVE  \A n \in Nat : n \in T
<1> DEFINE U == {n \in Nat : n \notin T}
<1>1. SUFFICES ASSUME U # {} PROVE FALSE
  OBVIOUS
<1>2. PICK x \in U : \A y \in U : x <= y
  BY <1>1, LeastOf
<1>3. x # 0 /\ x - 1 \in Nat /\ x - 1 \notin U
  BY <1>2
<1>4. x - 1 \in T
  BY <1>3
<1>5. (x - 1) + 1 \in T /\ (x - 1) + 1 = x
  BY <1>3, <1>4
<1> QED BY <1>2, <1>5

\* The first n rounds of a loop
FirstRounds(g, n, S, first, R) ==
    /\ g \in [0..n -> S] /\ g[0] = first
    /\ \A m \in 0..n - 1 : g[m + 1] = R[g[m]]

\* However many rounds are counted, the first ones are the same.
LEMMA RoundsAgree ==
  ASSUME NEW S, NEW first, NEW R, NEW n \in Nat, NEW m \in Nat, NEW g, NEW h,
         FirstRounds(g, n, S, first, R), FirstRounds(h, m, S, first, R)
  PROVE  \A k \in Nat : k <= n /\ k <= m => g[k] = h[k]
<1> DEFINE T == {k \in Nat : k <= n /\ k <= m => g[k] = h[k]}
<1>1. 0 \in T
  BY DEF FirstRounds
<1>2. ASSUME NEW k \in Nat, k \in T PROVE k + 1 \in T
  <2>1. SUFFICES ASSUME k + 1 <= n, k + 1 <= m PROVE g[k + 1] = h[k + 1]
    OBVIOUS
  <2>2. k <= n /\ k <= m /\ k \in 0..n - 1 /\ k \in 0..m - 1
    BY <2>1
  <2>3. g[k] = h[k]
    BY <1>2, <2>2
  <2>4. g[k + 1] = R[g[k]] /\ h[k + 1] = R[h[k]]
    BY <2>2 DEF FirstRounds
  <2> QED BY <2>3, <2>4
<1> HIDE DEF T
<1>3. \A k \in Nat : k \in T
  BY <1>1, <1>2, CountingUp
<1> QED BY <1>3 DEF T

\* A function of all rounds exists: the first n of them do, for every n.
LEMMA RoundsExist ==
  ASSUME NEW S, NEW first \in S, NEW R \in [S -> S]
  PROVE  \E f \in [Nat -> S] : f[0] = first /\ \A n \in Nat : f[n + 1] = R[f[n]]
<1> DEFINE T == {n \in Nat : \E g : FirstRounds(g, n, S, first, R)}
<1>1. 0 \in T
  <2>1. [i \in 0..0 |-> first] \in [0..0 -> S] /\ [i \in 0..0 |-> first][0] = first /\ 0..0 - 1 = {}
    OBVIOUS
  <2>2. FirstRounds([i \in 0..0 |-> first], 0, S, first, R)
    BY <2>1 DEF FirstRounds
  <2> QED BY <2>2
<1>2. ASSUME NEW n \in Nat, n \in T PROVE n + 1 \in T
  <2>1. PICK g : FirstRounds(g, n, S, first, R)
    BY <1>2
  <2> DEFINE h == [i \in 0..n + 1 |-> IF i <= n THEN g[i] ELSE R[g[n]]]
  <2>2. g[n] \in S /\ R[g[n]] \in S /\ \A i \in 0..n : g[i] \in S
    BY <2>1 DEF FirstRounds
  <2>3. h \in [0..n + 1 -> S] /\ h[0] = first
    BY <2>1, <2>2 DEF FirstRounds
  <2>4. ASSUME NEW m \in 0..(n + 1) - 1 PROVE h[m + 1] = R[h[m]]
    <3>1. m \in 0..n /\ m + 1 \in 0..n + 1 /\ h[m] = g[m]
      OBVIOUS
    <3>2. CASE m = n
      BY <3>1, <3>2
    <3>3. CASE m # n
      BY <2>1, <3>1, <3>3 DEF FirstRounds
    <3> QED BY <3>2, <3>3
  <2> HIDE DEF h
  <2>5. FirstRounds(h, n + 1, S, first, R)
    BY <2>3, <2>4 DEF FirstRounds
  <2> QED BY <2>5
<1>3. \A n \in Nat : \E g : FirstRounds(g, n, S, first, R)
  <2> HIDE DEF T
  <2>1. \A n \in Nat : n \in T
    BY <1>1, <1>2, CountingUp
  <2> QED BY <2>1 DEF T
<1> DEFINE rounds(n) == CHOOSE g : FirstRounds(g, n, S, first, R)
           f == [n \in Nat |-> rounds(n)[n]]
<1>4. \A n \in Nat : FirstRounds(rounds(n), n, S, first, R)
  BY <1>3
<1> HIDE DEF rounds
<1>5. f \in [Nat -> S] /\ f[0] = first
  BY <1>4 DEF FirstRounds
<1>6. ASSUME NEW n \in Nat PROVE f[n + 1] = R[f[n]]
  <2>1. n + 1 \in Nat /\ n <= n + 1 /\ n <= n /\ n \in 0..(n + 1) - 1
    OBVIOUS
  <2>2. FirstRounds(rounds(n), n, S, first, R) /\ FirstRounds(rounds(n + 1), n + 1, S, first, R)
    BY <1>4, <2>1
  <2>3. rounds(n)[n] = rounds(n + 1)[n]
    BY <2>1, <2>2, RoundsAgree
  <2>4. rounds(n + 1)[n + 1] = R[rounds(n + 1)[n]]
    BY <2>1, <2>2 DEF FirstRounds
  <2> QED BY <2>1, <2>3, <2>4
<1> QED BY <1>5, <1>6

\* A loop whose rounds stay in a set S is a function, as the definition of a loop says it.
LEMMA LoopExists ==
  ASSUME NEW S, NEW first \in S, NEW R \in [S -> S]
  PROVE  \E f \in [Nat -> S] : \A i \in Nat : f[i] = IF i = 0 THEN first ELSE R[f[i - 1]]
<1>1. PICK f \in [Nat -> S] : f[0] = first /\ \A n \in Nat : f[n + 1] = R[f[n]]
  BY RoundsExist
<1>2. ASSUME NEW i \in Nat PROVE f[i] = IF i = 0 THEN first ELSE R[f[i - 1]]
  <2>1. CASE i = 0
    BY <1>1, <2>1
  <2>2. CASE i # 0
    BY <1>1, <2>2
  <2> QED BY <2>1, <2>2
<1> QED BY <1>2

\* What holds at first, and is kept by each round, holds after any number of rounds.
LEMMA LoopStays ==
  ASSUME NEW S, NEW f, f[0] \in S, \A i \in Nat \ {0} : f[i - 1] \in S => f[i] \in S
  PROVE  \A i \in Nat : f[i] \in S
<1> DEFINE T == {i \in Nat : f[i] \in S}
<1>1. 0 \in T
  OBVIOUS
<1>2. ASSUME NEW i \in Nat, i \in T PROVE i + 1 \in T
  BY <1>2
<1> HIDE DEF T
<1>3. \A i \in Nat : i \in T
  BY <1>1, <1>2, CountingUp
<1> QED BY <1>3 DEF T

-----------------------------------------------------------------------------
(* The reader of a socket: where the chunks are, and what a job may not do *)

\* A chunk is added to the second of two queues.
LEMMA HeldBack ==
  ASSUME NEW u \in Seq(1..Sent), NEW v \in Seq(1..Sent), NEW c \in 1..Sent
  PROVE  u \o Append(v, c) = Append(u \o v, c)
<1> DEFINE S == 1..Sent
<1>0. u \in Seq(S) /\ v \in Seq(S) /\ c \in S
  OBVIOUS
<1>1. <<c>> \in Seq(S) /\ u \o v \in Seq(S)
  OBVIOUS
<1> HIDE DEF S
<1>2. Append(v, c) = v \o <<c>> /\ Append(u \o v, c) = (u \o v) \o <<c>>
  BY <1>0, <1>1, AppendIsConcat
<1> QED BY <1>0, <1>1, <1>2, ConcatAssociative

\* The head of the second queue goes to the first.
LEMMA HandedOut ==
  ASSUME NEW u \in Seq(1..Sent), NEW v \in Seq(1..Sent), v # <<>>
  PROVE  Append(u, Head(v)) \o Tail(v) = u \o v
<1>1. PICK S : S = 1..Sent
  OBVIOUS
<1>2. u \in Seq(S) /\ v \in Seq(S)
  BY <1>1
<1>3. Head(v) \in S /\ Tail(v) \in Seq(S) /\ <<Head(v)>> \in Seq(S)
  BY <1>2
<1>4. <<Head(v)>> \o Tail(v) = v
  <2> DEFINE w == <<Head(v)>> \o Tail(v)
  <2>1. w \in Seq(S) /\ Len(w) = Len(v)
    BY <1>2, <1>3
  <2>2. \A i \in 1..Len(v) : w[i] = v[i]
    BY <1>2, <1>3
  <2> HIDE DEF w
  <2>3. w = v
    BY <1>2, <2>1, <2>2, SeqEqual
  <2> QED BY <2>3 DEF w
<1>5. Append(u, Head(v)) = u \o <<Head(v)>>
  BY <1>2, <1>3, AppendIsConcat
<1> QED BY <1>2, <1>3, <1>4, <1>5, ConcatAssociative

ReadTicks == {"readable", "more", "resume", "end"}

\* The states of a socket, those in the middle of a job included
Socks ==
    [started : BOOLEAN, flowing : Flowing, reading : BOOLEAN, sync : BOOLEAN,
     ended : BOOLEAN, endEmitted : BOOLEAN, needReadable : BOOLEAN,
     emittedReadable : BOOLEAN, readingMore : BOOLEAN, resumeScheduled : BOOLEAN,
     buffer : Seq(1..Sent), data : Seq(1..Sent),
     netPaused : BOOLEAN, netReading : BOOLEAN, token : Nat, inFlight : BOOLEAN,
     pending : Seq(0..Sent), loops : Seq(Nat), todo : Seq(ReadTicks)]

\* The first n chunks that the peer sends
FirstOf(n) == [i \in 1..n |-> i]

LEMMA FirstAndNext == ASSUME NEW n \in Nat PROVE Append(FirstOf(n), n + 1) = FirstOf(n + 1)
<1>1. FirstOf(n) \in Seq(Nat) /\ FirstOf(n + 1) \in Seq(Nat) /\ Len(FirstOf(n)) = n /\ Len(FirstOf(n + 1)) = n + 1
  BY DEF FirstOf
<1> DEFINE u == Append(FirstOf(n), n + 1)
           v == FirstOf(n + 1)
<1>2. u \in Seq(Nat) /\ Len(u) = n + 1 /\ u[n + 1] = n + 1 /\ \A i \in 1..n : u[i] = FirstOf(n)[i]
  BY <1>1
<1>3. \A i \in 1..n + 1 : v[i] = i
  BY DEF FirstOf
<1>4. \A i \in 1..n : FirstOf(n)[i] = i
  BY DEF FirstOf
<1> HIDE DEF u, v
<1>5. \A i \in 1..n + 1 : i \in 1..n \/ i = n + 1
  OBVIOUS
<1>6. \A i \in 1..n + 1 : u[i] = v[i]
  BY <1>2, <1>3, <1>4, <1>5
<1>7. v \in Seq(Nat) /\ Len(v) = n + 1
  BY <1>1 DEF v
<1>8. u = v
  BY <1>2, <1>6, <1>7, SeqEqual
<1> QED BY <1>8 DEF u, v

\* The chunks 1 to n are, in order, those that the listener has had, those in the buffer and
\* the one put aside.
LineOK(s, n) ==
    \/ s.pending \in {<<>>, <<FIN>>} /\ s.data \o s.buffer = FirstOf(n)
    \/ \E c \in 1..Sent : s.pending = <<c>> /\ Append(s.data \o s.buffer, c) = FirstOf(n)

\* A loop waits for the native read that is in flight, and then nothing is put aside.
LoopOK(s) ==
    /\ s.inFlight => s.loops = <<s.token>> /\ s.pending = <<>>
    /\ ~s.inFlight => s.loops = <<>>

\* The FIN comes after everything, and a paused socket does not flow.
LastOK(s, over) ==
    /\ s.pending = <<FIN>> => over
    /\ s.ended => over /\ s.pending \in {<<>>, <<FIN>>}
    /\ s.netPaused => s.flowing = "no"

\* What holds between any two calls of a job, when native reads have returned the chunks 1
\* to n and, if over, the FIN
ReaderOK(s, n, over) == s \in Socks /\ LineOK(s, n) /\ LoopOK(s) /\ LastOK(s, over)

\* A paused socket stays paused and hands out nothing.
Silent(s, t) == s.netPaused => t.netPaused /\ t.data = s.data

\* No chunk, loop or FIN moves; flags and ticks of the Readable may.
Calm(s, t) ==
    /\ t \in Socks /\ t.data = s.data /\ t.buffer = s.buffer /\ t.pending = s.pending
    /\ t.loops = s.loops /\ t.token = s.token /\ (t.inFlight <=> s.inFlight)
    /\ (t.ended <=> s.ended) /\ (t.netPaused <=> s.netPaused) /\ t.flowing = s.flowing

-----------------------------------------------------------------------------
(* The calls of readable.js and net.js, one after the other *)

LEMMA CalmIsOK ==
  ASSUME NEW s, NEW t, NEW n, NEW over, ReaderOK(s, n, over), Calm(s, t)
  PROVE  ReaderOK(t, n, over) /\ Silent(s, t)
BY DEF ReaderOK, Calm, LineOK, LoopOK, LastOK, Silent

LEMMA CalmOn == ASSUME NEW s, NEW t, NEW u, Calm(s, t), Calm(t, u) PROVE Calm(s, u)
BY Zenon DEF Calm

LEMMA SilentOn == ASSUME NEW s, NEW t, NEW u, Silent(s, t), Silent(t, u) PROVE Silent(s, u)
BY Zenon DEF Silent

LEMMA CalmItself == ASSUME NEW s \in Socks PROVE Calm(s, s)
BY DEF Calm

LEMMA LaterIsCalm == ASSUME NEW s \in Socks, NEW t \in ReadTicks PROVE Calm(s, ReadTick(s, t))
<1>1. Append(s.todo, t) \in Seq(ReadTicks)
  BY DEF Socks
<1> QED BY <1>1 DEF ReadTick, Socks, Calm

LEMMA EmitReadableIsCalm == ASSUME NEW s \in Socks PROVE Calm(s, EmitReadable(s))
<1> DEFINE quiet == [s EXCEPT !.needReadable = FALSE]
           told == [quiet EXCEPT !.emittedReadable = TRUE]
<1>1. Calm(s, quiet) /\ quiet \in Socks
  BY DEF Calm, Socks
<1>2. Calm(s, told) /\ told \in Socks
  BY DEF Calm, Socks
<1>3. "readable" \in ReadTicks
  BY DEF ReadTicks
<1>4. EmitReadable(s) = quiet \/ EmitReadable(s) = ReadTick(told, "readable")
  BY DEF EmitReadable
<1> HIDE DEF quiet, told
<1> QED BY <1>1, <1>2, <1>3, <1>4, LaterIsCalm, CalmOn

LEMMA MaybeReadMoreIsCalm == ASSUME NEW s \in Socks PROVE Calm(s, MaybeReadMore(s))
<1> DEFINE told == [s EXCEPT !.readingMore = TRUE]
<1>1. Calm(s, told) /\ told \in Socks /\ Calm(s, s)
  BY DEF Calm, Socks
<1>2. "more" \in ReadTicks
  BY DEF ReadTicks
<1>3. MaybeReadMore(s) = s \/ MaybeReadMore(s) = ReadTick(told, "more")
  BY DEF MaybeReadMore
<1> HIDE DEF told
<1> QED BY <1>1, <1>2, <1>3, LaterIsCalm, CalmOn

LEMMA EndReadableIsCalm == ASSUME NEW s \in Socks, s.ended PROVE Calm(s, EndReadable(s))
<1> DEFINE told == [s EXCEPT !.ended = TRUE]
<1>1. Calm(s, told) /\ told \in Socks /\ Calm(s, s)
  BY DEF Calm, Socks
<1>2. "end" \in ReadTicks
  BY DEF ReadTicks
<1>3. EndReadable(s) = s \/ EndReadable(s) = ReadTick(told, "end")
  BY DEF EndReadable
<1> HIDE DEF told
<1> QED BY <1>1, <1>2, <1>3, LaterIsCalm, CalmOn

\* pause(), from a listener or from elsewhere
LEMMA PausedIsOK ==
  ASSUME NEW s, NEW n, NEW over, ReaderOK(s, n, over)
  PROVE  ReaderOK(PausedSocket(s), n, over) /\ Silent(s, PausedSocket(s))
<1> DEFINE t == PausedSocket(s)
<1>1. /\ t \in Socks /\ t.data = s.data /\ t.buffer = s.buffer /\ t.pending = s.pending
      /\ t.loops = s.loops /\ t.token = s.token /\ (t.inFlight <=> s.inFlight)
      /\ (t.ended <=> s.ended) /\ t.netPaused /\ t.flowing = "no"
  BY DEF ReaderOK, Socks, PausedSocket, Flowing
<1> HIDE DEF t
<1>2. LineOK(t, n) /\ LoopOK(t) /\ LastOK(t, over)
  BY <1>1 DEF ReaderOK, LineOK, LoopOK, LastOK
<1> QED BY <1>1, <1>2 DEF ReaderOK, Silent, t

\* A native read is started when nothing is put aside.
LEMMA StartPollLoopIsOK ==
  ASSUME NEW s, NEW n, NEW over, ReaderOK(s, n, over), s.pending = <<>>
  PROVE  ReaderOK(StartPollLoop(s), n, over) /\ Silent(s, StartPollLoop(s))
<1>1. CASE s.inFlight
  BY <1>1 DEF StartPollLoop, Silent
<1>2. CASE ~s.inFlight
  <2> DEFINE t == StartPollLoop(s)
  <2>1. s.loops = <<>> /\ s.token \in Nat /\ s \in Socks
    BY <1>2 DEF ReaderOK, LoopOK, Socks
  <2>2. Append(<<>>, s.token + 1) = <<s.token + 1>> /\ <<s.token + 1>> \in Seq(Nat) /\ s.token + 1 \in Nat
    BY <2>1
  <2>3. t = [s EXCEPT !.token = s.token + 1, !.inFlight = TRUE, !.loops = <<s.token + 1>>]
    BY <1>2, <2>1, <2>2 DEF StartPollLoop
  <2>4. /\ t \in Socks /\ t.data = s.data /\ t.buffer = s.buffer /\ t.pending = s.pending
        /\ t.loops = <<t.token>> /\ t.inFlight
        /\ (t.ended <=> s.ended) /\ (t.netPaused <=> s.netPaused) /\ t.flowing = s.flowing
    BY <2>1, <2>2, <2>3 DEF Socks
  <2> HIDE DEF t
  <2>5. LineOK(t, n) /\ LoopOK(t) /\ LastOK(t, over)
    BY <2>4 DEF ReaderOK, LineOK, LoopOK, LastOK
  <2> QED BY <2>4, <2>5 DEF ReaderOK, Silent, t
<1> QED BY <1>1, <1>2

\* A chunk c has left one queue and is in none.
InHand(s, c, n) ==
    /\ s \in Socks /\ c \in 1..Sent /\ s.pending = <<>> /\ Append(s.data \o s.buffer, c) = FirstOf(n)
    /\ ~s.inFlight /\ s.loops = <<>> /\ ~s.ended /\ (s.netPaused => s.flowing = "no")

\* No native read is in flight, and nothing put aside.
Idle(s) == s.pending = <<>> /\ ~s.inFlight

LEMMA CalmIsIdle == ASSUME NEW s, NEW t, Idle(s), Calm(s, t) PROVE Idle(t)
BY DEF Idle, Calm

\* A 'data' event: the listener may pause the socket.
LEMMA EmitIsOK ==
  ASSUME NEW s, NEW c, NEW n, NEW over, NEW seen,
         seen = [s EXCEPT !.data = Append(s.data, c)], ReaderOK(seen, n, over)
  PROVE  ReaderOK(Emit(s, c), n, over) /\ (Idle(seen) => Idle(Emit(s, c)))
BY PausedIsOK DEF Emit, Idle, PausedSocket, ReaderOK, Socks

\* A chunk goes to the listener or to the end of the buffer.
LEMMA AddChunkIsOK ==
  ASSUME NEW s, NEW c, NEW n, NEW over, InHand(s, c, n)
  PROVE  ReaderOK(AddChunk(s, c), n, over) /\ Silent(s, AddChunk(s, c)) /\ Idle(AddChunk(s, c))
<1>1. s \in Socks /\ c \in 1..Sent /\ s.data \in Seq(1..Sent) /\ s.buffer \in Seq(1..Sent)
  BY DEF InHand, Socks
<1>2. SUFFICES ASSUME NEW t, ReaderOK(t, n, over), Silent(s, t), Idle(t), AddChunk(s, c) = MaybeReadMore(t)
               PROVE  ReaderOK(AddChunk(s, c), n, over) /\ Silent(s, AddChunk(s, c)) /\ Idle(AddChunk(s, c))
  <2>1. CASE s.flowing = "yes" /\ s.buffer = <<>> /\ ~s.sync
    <3> DEFINE seen == [s EXCEPT !.data = Append(s.data, c)]
    <3>1. AddChunk(s, c) = MaybeReadMore(Emit(s, c))
      BY <2>1 DEF AddChunk
    <3>2. Append(s.data, c) \in Seq(1..Sent)
      BY <1>1
    <3>3. /\ seen \in Socks /\ seen.data = Append(s.data, c) /\ seen.buffer = <<>> /\ seen.pending = <<>>
          /\ ~seen.inFlight /\ seen.loops = <<>> /\ ~seen.ended /\ (seen.netPaused => seen.flowing = "no")
      BY <1>1, <2>1, <3>2 DEF InHand, Socks
    <3> HIDE DEF seen
    <3>4. Append(s.data, c) \o <<>> = Append(s.data, c) /\ s.data \o <<>> = s.data
      BY <1>1, <3>2, ConcatEmptySeq
    <3>5. seen.data \o seen.buffer = FirstOf(n)
      BY <2>1, <3>3, <3>4 DEF InHand
    <3>6. LineOK(seen, n) /\ LoopOK(seen) /\ LastOK(seen, over)
      BY <3>3, <3>5 DEF LineOK, LoopOK, LastOK, FIN
    <3>7. ReaderOK(seen, n, over)
      BY <3>3, <3>6 DEF ReaderOK
    <3>8. ReaderOK(Emit(s, c), n, over) /\ Idle(Emit(s, c))
      BY <3>3, <3>7, EmitIsOK DEF Idle, seen
    <3>9. Silent(s, Emit(s, c))
      BY <2>1 DEF InHand, Silent
    <3> QED BY <1>2, <3>1, <3>8, <3>9
  <2>2. CASE ~(s.flowing = "yes" /\ s.buffer = <<>> /\ ~s.sync)
    <3> DEFINE kept == [s EXCEPT !.buffer = Append(s.buffer, c)]
    <3>1. AddChunk(s, c) = MaybeReadMore(kept) \/ AddChunk(s, c) = MaybeReadMore(EmitReadable(kept))
      BY <2>2 DEF AddChunk
    <3>2. Append(s.buffer, c) \in Seq(1..Sent)
      BY <1>1
    <3>3. /\ kept \in Socks /\ kept.buffer = Append(s.buffer, c) /\ kept.data = s.data /\ kept.pending = <<>>
          /\ ~kept.inFlight /\ kept.loops = <<>> /\ ~kept.ended /\ (kept.netPaused => kept.flowing = "no")
          /\ (kept.netPaused <=> s.netPaused)
      BY <1>1, <3>2 DEF InHand, Socks
    <3> HIDE DEF kept
    <3>4. kept.data \o kept.buffer = FirstOf(n)
      BY <1>1, <3>3, HeldBack DEF InHand
    <3>5. LineOK(kept, n) /\ LoopOK(kept) /\ LastOK(kept, over)
      BY <3>3, <3>4 DEF LineOK, LoopOK, LastOK, FIN
    <3>6. ReaderOK(kept, n, over) /\ Silent(s, kept)
      BY <3>3, <3>5 DEF ReaderOK, Silent
    <3>7. Idle(kept)
      BY <3>3 DEF Idle
    <3>8. Calm(kept, EmitReadable(kept))
      BY <3>3, EmitReadableIsCalm
    <3>9. ReaderOK(EmitReadable(kept), n, over) /\ Silent(s, EmitReadable(kept)) /\ Idle(EmitReadable(kept))
      BY <3>6, <3>7, <3>8, CalmIsOK, CalmIsIdle, SilentOn
    <3> QED BY <1>2, <3>1, <3>6, <3>7, <3>9
  <2> QED BY <2>1, <2>2
<1>3. t \in Socks
  BY <1>2 DEF ReaderOK
<1>4. Calm(t, MaybeReadMore(t))
  BY <1>3, MaybeReadMoreIsCalm
<1> QED BY <1>2, <1>4, CalmIsOK, CalmIsIdle, SilentOn

LEMMA PushChunkIsOK ==
  ASSUME NEW s, NEW c, NEW n, NEW over, InHand(s, c, n)
  PROVE  ReaderOK(PushChunk(s, c), n, over) /\ Silent(s, PushChunk(s, c)) /\ Idle(PushChunk(s, c))
<1> DEFINE off == [s EXCEPT !.reading = FALSE]
<1>1. InHand(off, c, n) /\ Silent(s, off)
  BY DEF InHand, Socks, Silent
<1>2. PushChunk(s, c) = AddChunk(off, c)
  BY DEF PushChunk
<1> HIDE DEF off
<1> QED BY <1>1, <1>2, AddChunkIsOK, SilentOn

\* The FIN ends the Readable when nothing is put aside.
LEMMA EofInReadIsOK ==
  ASSUME NEW s, NEW n, NEW over, ReaderOK(s, n, over), over, s.pending = <<>>
  PROVE  ReaderOK(EofInRead(s), n, over) /\ Silent(s, EofInRead(s)) /\ EofInRead(s).pending = <<>>
<1> DEFINE off == [s EXCEPT !.reading = FALSE]
           last == [off EXCEPT !.ended = TRUE]
<1>1. Calm(s, off) /\ s \in Socks
  BY DEF ReaderOK, Calm, Socks
<1>2. /\ last \in Socks /\ last.data = s.data /\ last.buffer = s.buffer /\ last.pending = s.pending
      /\ last.loops = s.loops /\ last.token = s.token /\ (last.inFlight <=> s.inFlight)
      /\ (last.netPaused <=> s.netPaused) /\ last.flowing = s.flowing /\ last.ended
  BY <1>1 DEF Socks
<1>3. EofInRead(s) = off \/ EofInRead(s) = EmitReadable(last)
  BY DEF EofInRead
<1> HIDE DEF off, last
<1>4. LineOK(last, n) /\ LoopOK(last) /\ LastOK(last, over) /\ Silent(s, last)
  BY <1>2 DEF ReaderOK, LineOK, LoopOK, LastOK, Silent
<1>5. ReaderOK(last, n, over)
  BY <1>2, <1>4 DEF ReaderOK
<1>6. Calm(last, EmitReadable(last))
  BY <1>2, EmitReadableIsCalm
<1>7. EmitReadable(last).pending = <<>> /\ off.pending = <<>>
  BY <1>1, <1>2, <1>6 DEF Calm
<1> QED BY <1>1, <1>3, <1>4, <1>5, <1>6, <1>7, CalmIsOK, SilentOn

\* The rounds of a drain that began in s
Drains(s, n, over) ==
    {d \in [state : Socks, fin : BOOLEAN, on : BOOLEAN] :
        /\ ReaderOK(d.state, n, over) /\ Silent(s, d.state)
        /\ d.fin => over /\ d.state.pending = <<>>
        /\ s.pending = <<>> => d.state.pending = <<>>}

\* A chunk that was put aside is taken to be pushed.
LEMMA ChunkInHand ==
  ASSUME NEW s, NEW c \in 0..Sent, NEW n, NEW over, ReaderOK(s, n, over), s.pending = <<c>>, c # FIN
  PROVE  InHand([s EXCEPT !.pending = <<>>], c, n)
<1> DEFINE rest == [s EXCEPT !.pending = <<>>]
<1>1. s \in Socks /\ LineOK(s, n)
  BY DEF ReaderOK
<1>2. s.pending[1] = c /\ (\A k : <<k>>[1] = k) /\ <<>> \in Seq(0..Sent)
  OBVIOUS
<1>3. rest \in Socks
  BY <1>1, <1>2 DEF Socks
<1>4. /\ rest.data = s.data /\ rest.buffer = s.buffer /\ rest.pending = <<>>
      /\ rest.loops = s.loops /\ (rest.inFlight <=> s.inFlight)
      /\ (rest.ended <=> s.ended) /\ (rest.netPaused <=> s.netPaused) /\ rest.flowing = s.flowing
  BY <1>1, <1>3 DEF Socks
<1> HIDE DEF rest
<1>5. c \in 1..Sent
  BY ReadAssumption DEF FIN
<1>6. Append(s.data \o s.buffer, c) = FirstOf(n)
  <2>1. s.pending # <<>> /\ s.pending # <<FIN>>
    BY <1>2
  <2>2. PICK k \in 1..Sent : s.pending = <<k>> /\ Append(s.data \o s.buffer, k) = FirstOf(n)
    BY <1>1, <2>1 DEF LineOK
  <2>3. k = c
    BY <1>2, <2>2
  <2> QED BY <2>2, <2>3
<1>7. ~s.inFlight /\ s.loops = <<>> /\ ~s.ended
  BY <1>2 DEF ReaderOK, LoopOK, LastOK
<1>8. rest.netPaused => rest.flowing = "no"
  BY <1>4 DEF ReaderOK, LastOK
<1>9. InHand(rest, c, n)
  BY <1>3, <1>4, <1>5, <1>6, <1>7, <1>8 DEF InHand
<1> QED BY <1>9 DEF rest

\* One chunk put aside is pushed, or the FIN found.
LEMMA DrainOneIsOK ==
  ASSUME NEW s, NEW n, NEW over, ReaderOK(s, n, over), s.pending # <<>>, ~s.netPaused
  PROVE  DrainOne(s) \in Drains(s, n, over)
<1>1. s \in Socks /\ LineOK(s, n)
  BY DEF ReaderOK
<1>2. PICK c \in 0..Sent : s.pending = <<c>>
  <2>1. s.pending \in {<<>>, <<FIN>>} \/ \E c \in 1..Sent : s.pending = <<c>>
    BY <1>1 DEF LineOK
  <2>2. FIN \in 0..Sent /\ 1..Sent \subseteq 0..Sent
    BY ReadAssumption DEF FIN
  <2> QED BY <2>1, <2>2
<1>3. Head(s.pending) = c /\ Tail(s.pending) = <<>> /\ <<>> \in Seq(0..Sent)
  BY <1>2
<1>7. s.pending[1] = c /\ \A k : <<k>>[1] = k
  BY <1>2
<1> DEFINE rest == [s EXCEPT !.pending = <<>>]
<1>4. /\ rest \in Socks /\ rest.data = s.data /\ rest.buffer = s.buffer /\ rest.pending = <<>>
      /\ rest.loops = s.loops /\ rest.token = s.token /\ (rest.inFlight <=> s.inFlight)
      /\ (rest.ended <=> s.ended) /\ (rest.netPaused <=> s.netPaused) /\ rest.flowing = s.flowing
  BY <1>1, <1>3 DEF Socks
<1>5. CASE c = FIN
  <2>1. DrainOne(s) = [state |-> rest, fin |-> TRUE, on |-> FALSE]
    BY <1>3, <1>5 DEF DrainOne
  <2> HIDE DEF rest
  <2>2. s.data \o s.buffer = FirstOf(n)
    <3>1. ~\E k \in 1..Sent : s.pending = <<k>>
      BY <1>2, <1>5, <1>7, ReadAssumption DEF FIN
    <3> QED BY <1>1, <3>1 DEF LineOK
  <2>3. over
    BY <1>2, <1>5 DEF ReaderOK, LastOK
  <2>4. LineOK(rest, n) /\ LoopOK(rest) /\ LastOK(rest, over) /\ Silent(s, rest)
    BY <1>4, <2>2, <2>3 DEF ReaderOK, LineOK, LoopOK, LastOK, Silent
  <2>5. ReaderOK(rest, n, over)
    BY <1>4, <2>4 DEF ReaderOK
  <2> QED
    <3>1. PICK d : d = rest
      OBVIOUS
    <3>2. d \in Socks /\ ReaderOK(d, n, over) /\ Silent(s, d) /\ d.pending = <<>>
      BY <1>4, <2>4, <2>5, <3>1
    <3>3. DrainOne(s) = [state |-> d, fin |-> TRUE, on |-> FALSE]
      BY <2>1, <3>1
    <3>4. DrainOne(s) \in [state : Socks, fin : BOOLEAN, on : BOOLEAN] /\ DrainOne(s).state = d
      BY <3>2, <3>3
    <3> QED BY <2>3, <3>2, <3>4 DEF Drains
<1>6. CASE c # FIN
  <2> DEFINE t == PushChunk(rest, c)
             slow == [t EXCEPT !.netReading = FALSE]
  <2>1. DrainOne(s) = [state |-> IF KeepGoing(t) THEN t ELSE slow, fin |-> FALSE, on |-> KeepGoing(t)]
    BY <1>3, <1>6 DEF DrainOne
  <2>2. KeepGoing(t) \in BOOLEAN
    BY DEF KeepGoing
  <2>6. InHand(rest, c, n)
    BY <1>2, <1>6, ChunkInHand
  <2> HIDE DEF rest
  <2>7. ReaderOK(t, n, over)
    BY <2>6, PushChunkIsOK
  <2> HIDE DEF t
  <2>8. Calm(t, slow)
    BY <2>7 DEF ReaderOK, Calm, Socks
  <2>9. ReaderOK(slow, n, over)
    BY <2>7, <2>8, CalmIsOK
  <2> HIDE DEF slow
  <2> QED
    <3>1. PICK d : d = IF KeepGoing(t) THEN t ELSE slow
      OBVIOUS
    <3>2. ReaderOK(d, n, over) /\ d \in Socks /\ Silent(s, d)
      BY <3>1, <2>7, <2>9 DEF ReaderOK, Silent
    <3>3. DrainOne(s) = [state |-> d, fin |-> FALSE, on |-> KeepGoing(t)]
      BY <2>1, <3>1
    <3> QED BY <2>2, <3>2, <3>3 DEF Drains
<1> QED BY <1>5, <1>6

LEMMA DrainRoundIsOK ==
  ASSUME NEW s, NEW n, NEW over, NEW d \in Drains(s, n, over)
  PROVE  DrainRound(d) \in Drains(s, n, over)
<1>1. CASE d.on /\ ~d.state.netPaused /\ d.state.pending # <<>>
  <2> DEFINE r == DrainOne(d.state)
  <2>1. DrainRound(d) = r
    BY <1>1 DEF DrainRound
  <2>2. ReaderOK(d.state, n, over) /\ Silent(s, d.state) /\ s.pending # <<>>
    BY <1>1 DEF Drains
  <2>3. r \in Drains(d.state, n, over)
    BY <1>1, <2>2, DrainOneIsOK
  <2> HIDE DEF r
  <2>4. Silent(d.state, r.state)
    BY <2>3 DEF Drains
  <2>5. Silent(s, r.state)
    BY <2>2, <2>4, SilentOn
  <2> QED BY <2>1, <2>2, <2>3, <2>5 DEF Drains
<1>2. CASE ~(d.on /\ ~d.state.netPaused /\ d.state.pending # <<>>)
  BY <1>2 DEF DrainRound
<1> QED BY <1>1, <1>2

\* The rounds of _drainPendingReadChunks
LEMMA DrainLoop ==
  ASSUME NEW s, NEW n, NEW over, ReaderOK(s, n, over)
  PROVE  \E f : /\ f[0] = [state |-> s, fin |-> FALSE, on |-> TRUE]
                /\ \A i \in Nat \ {0} : f[i] = DrainRound(f[i - 1])
                /\ \A i \in Nat : f[i] \in Drains(s, n, over)
                /\ Drained(s) = f[Len(s.pending)]
<1> DEFINE S == Drains(s, n, over)
           first == [state |-> s, fin |-> FALSE, on |-> TRUE]
           R == [d \in S |-> DrainRound(d)]
           Rounds(f) == [i \in Nat |-> IF i = 0 THEN first ELSE DrainRound(f[i - 1])]
           round == CHOOSE f : f = Rounds(f)
<1>1. Drained(s) = round[Len(s.pending)] /\ Len(s.pending) \in Nat
  BY DEF Drained, ReaderOK, Socks
<1>2. first \in S
  BY DEF Drains, ReaderOK, Silent
<1>3. \A d \in S : DrainRound(d) \in S
  BY DrainRoundIsOK
<1> HIDE DEF S, first
<1>4. R \in [S -> S] /\ \A d \in S : R[d] = DrainRound(d)
  BY <1>3
<1> HIDE DEF R, Rounds, round
<1>5. PICK g \in [Nat -> S] : \A i \in Nat : g[i] = IF i = 0 THEN first ELSE R[g[i - 1]]
  BY ONLY <1>2, <1>4, LoopExists
<1>6. \A i \in Nat \ {0} : i - 1 \in Nat /\ g[i - 1] \in S
  BY <1>5
<1>7. g = Rounds(g)
  BY <1>4, <1>5, <1>6 DEF Rounds
<1>8. round = Rounds(round)
  BY <1>7 DEF round
<1>9. round[0] = first /\ \A i \in Nat \ {0} : round[i] = DrainRound(round[i - 1])
  BY <1>8 DEF Rounds
<1>10. \A i \in Nat : round[i] \in S
  BY <1>2, <1>3, <1>9, LoopStays
<1> QED BY <1>1, <1>9, <1>10 DEF S, first

\* _drainPendingReadChunks, however many rounds it has
LEMMA DrainedIsOK ==
  ASSUME NEW s, NEW n, NEW over, ReaderOK(s, n, over)
  PROVE  Drained(s) \in Drains(s, n, over)
<1>1. Len(s.pending) \in Nat
  BY DEF ReaderOK, Socks
<1> QED BY <1>1, DrainLoop

\* The loop of a read starts only when the chunks that were put aside are gone.
LEMMA NetReadIsOK ==
  ASSUME NEW s, NEW n, NEW over, ReaderOK(s, n, over)
  PROVE  ReaderOK(NetRead(s), n, over) /\ Silent(s, NetRead(s))
<1> DEFINE d == Drained(s)
           after == IF d.fin THEN EofInRead(d.state) ELSE d.state
           asks == [after EXCEPT !.netReading = TRUE]
<1>1. d \in Drains(s, n, over)
  BY DrainedIsOK
<1>2. NetRead(s) = IF s.pending # <<>> /\ (after.netPaused \/ after.pending # <<>>) THEN after ELSE StartPollLoop(asks)
  BY DEF NetRead
<1> HIDE DEF d
<1>3. /\ ReaderOK(d.state, n, over) /\ Silent(s, d.state) /\ (d.fin => over /\ d.state.pending = <<>>)
      /\ (s.pending = <<>> => d.state.pending = <<>>)
  BY <1>1 DEF Drains
<1>4. ReaderOK(after, n, over) /\ Silent(s, after)
  BY <1>3, EofInReadIsOK, SilentOn
<1>5. s.pending = <<>> => after.pending = <<>>
  BY <1>3, EofInReadIsOK
<1> HIDE DEF after
<1>6. Calm(after, asks)
  BY <1>4 DEF ReaderOK, Calm, Socks
<1>7. ReaderOK(asks, n, over) /\ Silent(s, asks)
  BY <1>4, <1>6, CalmIsOK, SilentOn
<1>8. CASE s.pending # <<>> /\ (after.netPaused \/ after.pending # <<>>)
  BY <1>2, <1>4, <1>8
<1>9. CASE ~(s.pending # <<>> /\ (after.netPaused \/ after.pending # <<>>))
  <2>1. asks.pending = <<>>
    BY <1>5, <1>6, <1>9 DEF Calm
  <2> HIDE DEF asks
  <2>2. ReaderOK(StartPollLoop(asks), n, over) /\ Silent(asks, StartPollLoop(asks))
    BY <1>7, <2>1, StartPollLoopIsOK
  <2> QED BY <1>2, <1>7, <1>9, <2>2, SilentOn
<1> QED BY <1>8, <1>9

\* What read() asks of _read
LEMMA PulledIsOK ==
  ASSUME NEW s, NEW k, NEW n, NEW over, ReaderOK(s, n, over)
  PROVE  ReaderOK(Pulled(s, k), n, over) /\ Silent(s, Pulled(s, k))
<1> DEFINE asks == [s EXCEPT !.reading = TRUE, !.sync = TRUE, !.needReadable = s.needReadable \/ s.buffer = <<>>]
           r == NetRead(asks)
           t == [r EXCEPT !.sync = FALSE]
<1>1. Pulled(s, k) = s \/ Pulled(s, k) = t
  BY DEF Pulled
<1>2. s.needReadable \in BOOLEAN
  BY DEF ReaderOK, Socks
<1>3. Calm(s, asks)
  BY <1>2 DEF ReaderOK, Calm, Socks
<1> HIDE DEF asks
<1>4. ReaderOK(asks, n, over) /\ Silent(s, asks)
  BY <1>3, CalmIsOK
<1>5. ReaderOK(r, n, over) /\ Silent(s, r)
  BY <1>4, NetReadIsOK, SilentOn
<1> HIDE DEF r
<1>6. Calm(r, t)
  BY <1>5 DEF ReaderOK, Calm, Socks
<1> HIDE DEF t
<1>7. ReaderOK(t, n, over) /\ Silent(s, t)
  BY <1>5, <1>6, CalmIsOK, SilentOn
<1>8. Silent(s, s)
  BY DEF Silent
<1> QED BY <1>1, <1>7, <1>8

LEMMA ReadZeroIsOK ==
  ASSUME NEW s, NEW n, NEW over, ReaderOK(s, n, over)
  PROVE  ReaderOK(ReadZero(s), n, over) /\ Silent(s, ReadZero(s))
<1> DEFINE p == Pulled(s, 0)
           room == Len(p.buffer) <= HighWaterMark
           t == [p EXCEPT !.needReadable = room]
<1>1. \/ ReadZero(s) = s \/ ReadZero(s) = EmitReadable(s) \/ ReadZero(s) = t
      \/ s.ended /\ ReadZero(s) = EndReadable(s)
  BY DEF ReadZero
<1>2. ReaderOK(p, n, over) /\ Silent(s, p) /\ s \in Socks
  BY PulledIsOK DEF ReaderOK
<1>7. room \in BOOLEAN
  OBVIOUS
<1> HIDE DEF p, room
<1>3. Calm(p, t)
  BY <1>2, <1>7 DEF ReaderOK, Calm, Socks
<1> HIDE DEF t
<1>4. ReaderOK(t, n, over) /\ Silent(s, t) /\ Silent(s, s)
  BY <1>2, <1>3, CalmIsOK, SilentOn DEF Silent
<1>5. ReaderOK(EmitReadable(s), n, over) /\ Silent(s, EmitReadable(s))
  BY <1>2, EmitReadableIsCalm, CalmIsOK
<1>6. s.ended => ReaderOK(EndReadable(s), n, over) /\ Silent(s, EndReadable(s))
  BY <1>2, EndReadableIsCalm, CalmIsOK
<1> QED BY <1>1, <1>4, <1>5, <1>6

\* The listener of a flowing stream takes the first chunk of the buffer.
LEMMA TakenIsInLine ==
  ASSUME NEW s, NEW n, NEW over, ReaderOK(s, n, over), s.buffer # <<>>, NEW t, NEW u,
         t = [s EXCEPT !.buffer = Tail(s.buffer)], Calm(t, u)
  PROVE  ReaderOK(Emit(u, Head(s.buffer)), n, over)
<1> DEFINE c == Head(s.buffer)
           seen == [u EXCEPT !.data = Append(u.data, c)]
<1>1. /\ s \in Socks /\ s.buffer \in Seq(1..Sent) /\ s.data \in Seq(1..Sent)
      /\ c \in 1..Sent /\ Tail(s.buffer) \in Seq(1..Sent)
  BY HeadTailProperties DEF ReaderOK, Socks
<1>2. Append(s.data, c) \in Seq(1..Sent)
  BY <1>1
<1>3. Append(s.data, c) \o Tail(s.buffer) = s.data \o s.buffer
  BY <1>1, HandedOut
<1> HIDE DEF c
<1>4. /\ t.buffer = Tail(s.buffer) /\ t.data = s.data /\ t.pending = s.pending /\ t.loops = s.loops
      /\ t.token = s.token /\ (t.inFlight <=> s.inFlight) /\ (t.ended <=> s.ended)
      /\ (t.netPaused <=> s.netPaused) /\ t.flowing = s.flowing
  BY <1>1 DEF Socks
<1>5. /\ u \in Socks /\ u.buffer = Tail(s.buffer) /\ u.data = s.data /\ u.pending = s.pending /\ u.loops = s.loops
      /\ u.token = s.token /\ (u.inFlight <=> s.inFlight) /\ (u.ended <=> s.ended)
      /\ (u.netPaused <=> s.netPaused) /\ u.flowing = s.flowing
  BY <1>4 DEF Calm
<1>6. /\ seen \in Socks /\ seen.buffer = Tail(s.buffer) /\ seen.data = Append(s.data, c) /\ seen.pending = s.pending
      /\ seen.loops = s.loops /\ seen.token = s.token /\ (seen.inFlight <=> s.inFlight) /\ (seen.ended <=> s.ended)
      /\ (seen.netPaused <=> s.netPaused) /\ seen.flowing = s.flowing
  BY <1>2, <1>5 DEF Socks
<1> HIDE DEF seen
<1>7. LineOK(seen, n) /\ LoopOK(seen) /\ LastOK(seen, over)
  BY <1>3, <1>6 DEF ReaderOK, LineOK, LoopOK, LastOK
<1>8. ReaderOK(seen, n, over)
  BY <1>6, <1>7 DEF ReaderOK
<1>9. ReaderOK(Emit(u, c), n, over)
  BY <1>8, EmitIsOK DEF seen
<1> QED BY <1>9 DEF c

\* read() of a stream that flows
LEMMA TookIsOK ==
  ASSUME NEW s, NEW n, NEW over, ReaderOK(s, n, over)
  PROVE  ReaderOK(Took(s).state, n, over) /\ Took(s).chunk \in BOOLEAN
<1> DEFINE quiet == [s EXCEPT !.emittedReadable = FALSE]
           k == IF s.buffer = <<>> THEN 0 ELSE 1
           p == Pulled(quiet, k)
           dry == [p EXCEPT !.needReadable = TRUE]
           over1 == EndReadable(dry)
           left == [p EXCEPT !.buffer = Tail(p.buffer)]
           thirsty == [left EXCEPT !.needReadable = TRUE]
           c == Head(p.buffer)
<1>1. \/ s.buffer = <<>> /\ s.ended /\ Took(s) = [state |-> EndReadable(quiet), chunk |-> FALSE]
      \/ p.ended /\ Took(s) = [state |-> EndReadable(dry), chunk |-> FALSE]
      \/ Took(s) = [state |-> dry, chunk |-> FALSE]
      \/ p.buffer # <<>> /\ Took(s) = [state |-> Emit(left, c), chunk |-> TRUE]
      \/ p.buffer # <<>> /\ left.ended /\ Took(s) = [state |-> Emit(EndReadable(left), c), chunk |-> TRUE]
      \/ p.buffer # <<>> /\ Took(s) = [state |-> Emit(thirsty, c), chunk |-> TRUE]
  BY DEF Took
<1>2. Calm(s, quiet)
  BY DEF ReaderOK, Calm, Socks
<1>3. ReaderOK(quiet, n, over) /\ quiet \in Socks /\ (s.ended => quiet.ended)
  BY <1>2, CalmIsOK DEF Calm
<1>4. s.ended => ReaderOK(EndReadable(quiet), n, over)
  BY <1>3, EndReadableIsCalm, CalmIsOK
<1> HIDE DEF quiet, k
<1>5. ReaderOK(p, n, over) /\ p \in Socks
  BY <1>3, PulledIsOK DEF ReaderOK
<1> HIDE DEF p
<1>6. Calm(p, dry)
  BY <1>5 DEF Calm, Socks
<1>7. ReaderOK(dry, n, over) /\ dry \in Socks /\ (p.ended => dry.ended)
  BY <1>5, <1>6, CalmIsOK DEF Calm
<1> HIDE DEF dry
<1>8. p.ended => ReaderOK(EndReadable(dry), n, over)
  BY <1>7, EndReadableIsCalm, CalmIsOK
<1>9. ASSUME p.buffer # <<>>
      PROVE  /\ ReaderOK(Emit(left, c), n, over) /\ ReaderOK(Emit(thirsty, c), n, over)
             /\ left.ended => ReaderOK(Emit(EndReadable(left), c), n, over)
  <2>1. p.buffer \in Seq(1..Sent)
    BY <1>5 DEF Socks
  <2>2. Tail(p.buffer) \in Seq(1..Sent)
    BY <1>9, <2>1, HeadTailProperties
  <2>3. left \in Socks
    BY <1>5, <2>2 DEF Socks
  <2>4. ASSUME NEW u, Calm(left, u) PROVE ReaderOK(Emit(u, c), n, over)
    BY <1>5, <1>9, <2>4, TakenIsInLine
  <2> HIDE DEF left, c
  <2>5. Calm(left, thirsty) /\ Calm(left, left)
    BY <2>3 DEF Calm, Socks
  <2>6. left.ended => Calm(left, EndReadable(left))
    BY <2>3, EndReadableIsCalm
  <2> HIDE DEF thirsty
  <2> QED BY <2>4, <2>5, <2>6
<1> HIDE DEF left, c, thirsty
<1>10. ASSUME NEW t, ReaderOK(t, n, over), \E chunk \in BOOLEAN : Took(s) = [state |-> t, chunk |-> chunk]
       PROVE  ReaderOK(Took(s).state, n, over) /\ Took(s).chunk \in BOOLEAN
  BY <1>10
<1>11. \E t : ReaderOK(t, n, over) /\ \E chunk \in BOOLEAN : Took(s) = [state |-> t, chunk |-> chunk]
  <2>1. CASE p.buffer = <<>>
    BY <1>1, <1>4, <1>7, <1>8, <2>1, Zenon
  <2>2. CASE p.buffer # <<>>
    BY <1>1, <1>4, <1>7, <1>8, <1>9, <2>2, Zenon
  <2> QED BY <2>1, <2>2
<1> QED BY <1>10, <1>11

\* The rounds of a flow that began in s
Flows(s, n, over) ==
    {took \in [state : Socks, chunk : BOOLEAN] : ReaderOK(took.state, n, over) /\ Silent(s, took.state)}

LEMMA FlowRoundIsOK ==
  ASSUME NEW s, NEW n, NEW over, NEW took \in Flows(s, n, over)
  PROVE  FlowRound(took) \in Flows(s, n, over)
<1>1. took.state \in Socks /\ ReaderOK(took.state, n, over) /\ Silent(s, took.state)
  BY DEF Flows
<1>2. CASE took.chunk /\ took.state.flowing = "yes"
  <2> DEFINE t == Took(took.state)
  <2>1. FlowRound(took) = t
    BY <1>2 DEF FlowRound
  <2>2. ReaderOK(t.state, n, over) /\ t.chunk \in BOOLEAN
    BY <1>1, TookIsOK
  <2>3. t \in [state : Socks, chunk : BOOLEAN]
    <3>1. t = [state |-> t.state, chunk |-> t.chunk]
      BY DEF Took
    <3> HIDE DEF t
    <3>2. t.state \in Socks
      BY <2>2 DEF ReaderOK
    <3> QED BY <2>2, <3>1, <3>2
  <2>4. ~s.netPaused
    BY <1>1, <1>2 DEF ReaderOK, LastOK, Silent
  <2> HIDE DEF t
  <2> QED BY <2>1, <2>2, <2>3, <2>4 DEF Flows, Silent
<1>3. CASE ~(took.chunk /\ took.state.flowing = "yes")
  BY <1>3 DEF FlowRound
<1> QED BY <1>2, <1>3

\* The rounds of flow()
LEMMA FlowLoop ==
  ASSUME NEW s, NEW n, NEW over, ReaderOK(s, n, over)
  PROVE  \E f : /\ f[0] = [state |-> s, chunk |-> TRUE]
                /\ \A i \in Nat \ {0} : f[i] = FlowRound(f[i - 1])
                /\ \A i \in Nat : f[i] \in Flows(s, n, over)
                /\ Flow(s) = f[Len(s.buffer) + Len(s.pending) + 1].state
<1> DEFINE S == Flows(s, n, over)
           first == [state |-> s, chunk |-> TRUE]
           R == [took \in S |-> FlowRound(took)]
           Rounds(f) == [i \in Nat |-> IF i = 0 THEN first ELSE FlowRound(f[i - 1])]
           round == CHOOSE f : f = Rounds(f)
           most == Len(s.buffer) + Len(s.pending) + 1
<1>1. Flow(s) = round[most].state
  BY DEF Flow
<1>3. first \in S
  BY DEF Flows, ReaderOK, Silent
<1>4. \A took \in S : FlowRound(took) \in S
  BY FlowRoundIsOK
<1> HIDE DEF S, first, most
<1>5. R \in [S -> S] /\ \A took \in S : R[took] = FlowRound(took)
  BY <1>4
<1> HIDE DEF R, Rounds, round
<1>6. PICK g \in [Nat -> S] : \A i \in Nat : g[i] = IF i = 0 THEN first ELSE R[g[i - 1]]
  BY ONLY <1>3, <1>5, LoopExists
<1>7. \A i \in Nat \ {0} : i - 1 \in Nat /\ g[i - 1] \in S
  BY <1>6
<1>8. g = Rounds(g)
  BY <1>5, <1>6, <1>7 DEF Rounds
<1>9. round = Rounds(round)
  BY <1>8 DEF round
<1>10. round[0] = first /\ \A i \in Nat \ {0} : round[i] = FlowRound(round[i - 1])
  BY <1>9 DEF Rounds
<1>11. \A i \in Nat : round[i] \in S
  BY <1>3, <1>4, <1>10, LoopStays
<1> QED BY <1>1, <1>10, <1>11 DEF S, first, most

\* flow(), however many chunks it takes
LEMMA FlowIsOK ==
  ASSUME NEW s, NEW n, NEW over, ReaderOK(s, n, over)
  PROVE  ReaderOK(Flow(s), n, over) /\ Silent(s, Flow(s))
<1>1. Len(s.buffer) + Len(s.pending) + 1 \in Nat
  BY DEF ReaderOK, Socks
<1>2. \E took \in Flows(s, n, over) : Flow(s) = took.state
  BY <1>1, FlowLoop
<1> QED BY <1>2 DEF Flows

\* emitReadable_, which flows
LEMMA EmitReadableNowIsOK ==
  ASSUME NEW s, NEW n, NEW over, ReaderOK(s, n, over)
  PROVE  ReaderOK(EmitReadableNow(s), n, over) /\ Silent(s, EmitReadableNow(s))
<1> DEFINE told == IF s.buffer # <<>> \/ s.ended THEN [s EXCEPT !.emittedReadable = FALSE] ELSE s
           need == told.flowing # "yes" /\ ~told.ended /\ Len(told.buffer) <= HighWaterMark
           t == [told EXCEPT !.needReadable = need]
<1>1. EmitReadableNow(s) = Flow(t)
  BY DEF EmitReadableNow
<1>2. Calm(s, [s EXCEPT !.emittedReadable = FALSE]) /\ Calm(s, s)
  BY DEF ReaderOK, Calm, Socks
<1>3. Calm(s, told) /\ need \in BOOLEAN
  BY <1>2
<1> HIDE DEF told, need
<1>4. Calm(told, t)
  BY <1>3 DEF Calm, Socks
<1> HIDE DEF t
<1>5. ReaderOK(t, n, over) /\ Silent(s, t)
  BY <1>3, <1>4, CalmOn, CalmIsOK
<1> QED BY <1>1, <1>5, FlowIsOK, SilentOn

\* push(null)
LEMMA PushEofIsOK ==
  ASSUME NEW s, NEW n, NEW over, ReaderOK(s, n, over), over, s.pending = <<>>
  PROVE  ReaderOK(PushEof(s), n, over) /\ Silent(s, PushEof(s))
<1> DEFINE last == [s EXCEPT !.reading = FALSE, !.ended = TRUE, !.needReadable = FALSE, !.emittedReadable = TRUE]
<1>1. PushEof(s) = EofInRead(s) \/ PushEof(s) = EmitReadableNow(last)
  BY DEF PushEof
<1>2. /\ last \in Socks /\ last.data = s.data /\ last.buffer = s.buffer /\ last.pending = s.pending
      /\ last.loops = s.loops /\ last.token = s.token /\ (last.inFlight <=> s.inFlight)
      /\ (last.netPaused <=> s.netPaused) /\ last.flowing = s.flowing /\ last.ended
  BY DEF ReaderOK, Socks
<1> HIDE DEF last
<1>3. LineOK(last, n) /\ LoopOK(last) /\ LastOK(last, over) /\ Silent(s, last)
  BY <1>2 DEF ReaderOK, LineOK, LoopOK, LastOK, Silent
<1>4. ReaderOK(last, n, over)
  BY <1>2, <1>3 DEF ReaderOK
<1>5. ReaderOK(EmitReadableNow(last), n, over) /\ Silent(s, EmitReadableNow(last))
  BY <1>3, <1>4, EmitReadableNowIsOK, SilentOn
<1> QED BY <1>1, <1>5, EofInReadIsOK

\* The rounds of a maybeReadMore_ that began in s
Mores(s, n, over) ==
    {m \in [state : Socks, on : BOOLEAN] : ReaderOK(m.state, n, over) /\ Silent(s, m.state)}

LEMMA MoreRoundIsOK ==
  ASSUME NEW s, NEW n, NEW over, NEW m \in Mores(s, n, over)
  PROVE  MoreRound(m) \in Mores(s, n, over)
<1>1. m.state \in Socks /\ ReaderOK(m.state, n, over) /\ Silent(s, m.state)
  BY DEF Mores
<1> DEFINE t == ReadZero(m.state)
           on == Len(t.buffer) # Len(m.state.buffer)
<1>2. MoreRound(m) = m \/ MoreRound(m) = [state |-> t, on |-> on]
  BY DEF MoreRound
<1>3. ReaderOK(t, n, over) /\ Silent(s, t) /\ t \in Socks
  BY <1>1, ReadZeroIsOK, SilentOn DEF ReaderOK
<1>4. on \in BOOLEAN
  OBVIOUS
<1> HIDE DEF t, on
<1>5. [state |-> t, on |-> on] \in Mores(s, n, over)
  BY <1>3, <1>4 DEF Mores
<1> QED BY <1>2, <1>5

\* The rounds of maybeReadMore_
LEMMA MoreLoop ==
  ASSUME NEW s, NEW n, NEW over, ReaderOK(s, n, over)
  PROVE  \E f : /\ f[0] = [state |-> s, on |-> TRUE]
                /\ \A i \in Nat \ {0} : f[i] = MoreRound(f[i - 1])
                /\ \A i \in Nat : f[i] \in Mores(s, n, over)
                /\ ReadMore(s) = f[Len(s.pending) + 1].state
<1> DEFINE S == Mores(s, n, over)
           first == [state |-> s, on |-> TRUE]
           R == [m \in S |-> MoreRound(m)]
           Rounds(f) == [i \in Nat |-> IF i = 0 THEN first ELSE MoreRound(f[i - 1])]
           round == CHOOSE f : f = Rounds(f)
           most == Len(s.pending) + 1
<1>1. ReadMore(s) = round[most].state
  BY DEF ReadMore
<1>3. first \in S
  BY DEF Mores, ReaderOK, Silent
<1>4. \A m \in S : MoreRound(m) \in S
  BY MoreRoundIsOK
<1> HIDE DEF S, first, most
<1>5. R \in [S -> S] /\ \A m \in S : R[m] = MoreRound(m)
  BY <1>4
<1> HIDE DEF R, Rounds, round
<1>6. PICK g \in [Nat -> S] : \A i \in Nat : g[i] = IF i = 0 THEN first ELSE R[g[i - 1]]
  BY ONLY <1>3, <1>5, LoopExists
<1>7. \A i \in Nat \ {0} : i - 1 \in Nat /\ g[i - 1] \in S
  BY <1>6
<1>8. g = Rounds(g)
  BY <1>5, <1>6, <1>7 DEF Rounds
<1>9. round = Rounds(round)
  BY <1>8 DEF round
<1>10. round[0] = first /\ \A i \in Nat \ {0} : round[i] = MoreRound(round[i - 1])
  BY <1>9 DEF Rounds
<1>11. \A i \in Nat : round[i] \in S
  BY <1>3, <1>4, <1>10, LoopStays
<1> QED BY <1>1, <1>10, <1>11 DEF S, first, most

\* maybeReadMore_, however often it reads
LEMMA ReadMoreIsOK ==
  ASSUME NEW s, NEW n, NEW over, ReaderOK(s, n, over)
  PROVE  ReaderOK(ReadMore(s), n, over) /\ Silent(s, ReadMore(s))
<1>1. Len(s.pending) + 1 \in Nat
  BY DEF ReaderOK, Socks
<1>2. \E m \in Mores(s, n, over) : ReadMore(s) = m.state
  BY <1>1, MoreLoop
<1> QED BY <1>2 DEF Mores

\* resume_, at the tick that resume() asked for
LEMMA ResumeNowIsOK ==
  ASSUME NEW s, NEW n, NEW over, ReaderOK(s, n, over)
  PROVE  ReaderOK(ResumeNow(s), n, over) /\ Silent(s, ResumeNow(s))
<1> DEFINE asked == IF s.reading THEN s ELSE ReadZero(s)
           t == [asked EXCEPT !.resumeScheduled = FALSE]
           flowed == Flow(t)
<1>1. ResumeNow(s) = flowed \/ ResumeNow(s) = ReadZero(flowed)
  BY DEF ResumeNow
<1>2. ReaderOK(asked, n, over) /\ Silent(s, asked)
  BY ReadZeroIsOK DEF Silent
<1> HIDE DEF asked
<1>3. Calm(asked, t)
  BY <1>2 DEF ReaderOK, Calm, Socks
<1> HIDE DEF t
<1>4. ReaderOK(t, n, over) /\ Silent(s, t)
  BY <1>2, <1>3, CalmIsOK, SilentOn
<1>5. ReaderOK(flowed, n, over) /\ Silent(s, flowed)
  BY <1>4, FlowIsOK, SilentOn
<1> HIDE DEF flowed
<1> QED BY <1>1, <1>5, ReadZeroIsOK, SilentOn

\* Readable.resume, of a socket that is not paused any more
LEMMA ResumedIsOK ==
  ASSUME NEW s, NEW n, NEW over, ReaderOK(s, n, over), ~s.netPaused
  PROVE  ReaderOK(Resumed(s), n, over)
<1> DEFINE on == [s EXCEPT !.flowing = "yes"]
           told == [on EXCEPT !.resumeScheduled = TRUE]
<1>1. Resumed(s) = s \/ Resumed(s) = on \/ Resumed(s) = ReadTick(told, "resume")
  BY DEF Resumed
<1>2. /\ on \in Socks /\ on.data = s.data /\ on.buffer = s.buffer /\ on.pending = s.pending
      /\ on.loops = s.loops /\ on.token = s.token /\ (on.inFlight <=> s.inFlight)
      /\ (on.ended <=> s.ended) /\ ~on.netPaused
  BY DEF ReaderOK, Socks, Flowing
<1> HIDE DEF on
<1>3. LineOK(on, n) /\ LoopOK(on) /\ LastOK(on, over)
  BY <1>2 DEF ReaderOK, LineOK, LoopOK, LastOK
<1>4. ReaderOK(on, n, over)
  BY <1>2, <1>3 DEF ReaderOK
<1>5. Calm(on, told) /\ told \in Socks
  BY <1>2 DEF Calm, Socks
<1> HIDE DEF told
<1>6. Calm(told, ReadTick(told, "resume"))
  BY <1>5, LaterIsCalm DEF ReadTicks
<1>7. ReaderOK(ReadTick(told, "resume"), n, over)
  BY <1>4, <1>5, <1>6, CalmOn, CalmIsOK
<1> QED BY <1>1, <1>4, <1>7

\* What Socket.resume does after it
LEMMA AfterResumeIsOK ==
  ASSUME NEW s, NEW n, NEW over, ReaderOK(s, n, over)
  PROVE  ReaderOK(AfterResume(s), n, over)
<1> DEFINE d == Drained(s)
           after == IF d.fin THEN PushEof(d.state) ELSE d.state
<1>1. AfterResume(s) = after \/ AfterResume(s) = ReadZero(after)
  BY DEF AfterResume
<1>2. d \in Drains(s, n, over)
  BY DrainedIsOK
<1> HIDE DEF d
<1>3. ReaderOK(d.state, n, over) /\ (d.fin => over /\ d.state.pending = <<>>)
  BY <1>2 DEF Drains
<1>4. ReaderOK(after, n, over)
  BY <1>3, PushEofIsOK
<1> HIDE DEF after
<1> QED BY <1>1, <1>4, ReadZeroIsOK

\* What a paused loop read is put aside.
LEMMA PutAsideIsOK ==
  ASSUME NEW s, NEW c, NEW n, NEW over, s \in Socks, s.pending = <<>>, ~s.inFlight, s.loops = <<>>,
         c \in 0..Sent, s.netPaused => s.flowing = "no",
         c = FIN => over /\ s.data \o s.buffer = FirstOf(n),
         c # FIN => ~s.ended /\ Append(s.data \o s.buffer, c) = FirstOf(n), s.ended => over
  PROVE  ReaderOK(PutAside(s, c), n, over) /\ Silent(s, PutAside(s, c))
<1> DEFINE reads == IF c = FIN THEN s.netReading ELSE FALSE
           t == PutAside(s, c)
<1>1. Append(<<>>, c) = <<c>> /\ <<c>> \in Seq(0..Sent)
  OBVIOUS
<1>2. reads \in BOOLEAN
  BY DEF Socks
<1>3. t = [s EXCEPT !.pending = <<c>>, !.netReading = reads]
  BY <1>1 DEF PutAside
<1> HIDE DEF t, reads
<1>4. /\ t \in Socks /\ t.data = s.data /\ t.buffer = s.buffer /\ t.pending = <<c>>
      /\ t.loops = <<>> /\ ~t.inFlight /\ (t.ended <=> s.ended) /\ (t.netPaused <=> s.netPaused)
      /\ t.flowing = s.flowing
  BY <1>1, <1>2, <1>3 DEF Socks
<1>5. LineOK(t, n)
  <2>1. CASE c = FIN
    BY <1>4, <2>1 DEF LineOK
  <2>2. CASE c # FIN
    <3>1. c \in 1..Sent
      BY <2>2 DEF FIN
    <3> QED BY <1>4, <2>2, <3>1 DEF LineOK
  <2> QED BY <2>1, <2>2
<1>6. LoopOK(t)
  BY <1>4 DEF LoopOK
<1>7. LastOK(t, over)
  <2>1. t.pending = <<FIN>> => c = FIN
    BY <1>4
  <2> QED BY <1>4, <2>1 DEF LastOK
<1> QED BY <1>4, <1>5, <1>6, <1>7 DEF ReaderOK, Silent, t

\* The poll loop reads again, or stops.
LEMMA GoesOnIsOK ==
  ASSUME NEW s, NEW token, NEW n, NEW over, ReaderOK(s, n, over), s.pending = <<>>, ~s.inFlight
  PROVE  ReaderOK(GoesOn(s, token), n, over) /\ Silent(s, GoesOn(s, token))
<1> DEFINE slow == [s EXCEPT !.netReading = FALSE]
           next == [s EXCEPT !.inFlight = TRUE, !.loops = <<s.token>>]
<1>1. s \in Socks /\ s.loops = <<>> /\ s.token \in Nat
  BY DEF ReaderOK, LoopOK, Socks
<1>2. Append(<<>>, s.token) = <<s.token>> /\ <<s.token>> \in Seq(Nat)
  BY <1>1
<1>3. GoesOn(s, token) = s \/ GoesOn(s, token) = slow \/ GoesOn(s, token) = next
  BY <1>1, <1>2 DEF GoesOn
<1>4. Calm(s, slow)
  BY <1>1 DEF Calm, Socks
<1>5. ReaderOK(slow, n, over) /\ Silent(s, slow) /\ Silent(s, s)
  BY <1>4, CalmIsOK DEF Silent
<1>6. /\ next \in Socks /\ next.data = s.data /\ next.buffer = s.buffer /\ next.pending = s.pending
      /\ next.loops = <<next.token>> /\ next.inFlight /\ (next.ended <=> s.ended)
      /\ (next.netPaused <=> s.netPaused) /\ next.flowing = s.flowing
  BY <1>1, <1>2 DEF Socks
<1> HIDE DEF slow, next
<1>7. LineOK(next, n) /\ LoopOK(next) /\ LastOK(next, over) /\ Silent(s, next)
  BY <1>6 DEF ReaderOK, LineOK, LoopOK, LastOK, Silent
<1>8. ReaderOK(next, n, over)
  BY <1>6, <1>7 DEF ReaderOK
<1> QED BY <1>3, <1>5, <1>7, <1>8

-----------------------------------------------------------------------------
(* The jobs of a socket, and the inductive invariant *)

\* How many chunks native reads have returned
Returned == IF taken > Sent THEN Sent ELSE taken

\* Between two jobs no tick is on its way to the queue.
ReadIInv ==
    /\ ticks \in Seq(ReadTicks) /\ taken \in 0..Sent + 1 /\ pauseAt \subseteq 1..Sent
    /\ pauses \in 0..MaxPauses /\ sock.todo = <<>>
    /\ ReaderOK(sock, Returned, taken > Sent)

\* A job ends well.
LEMMA EndsWell ==
  ASSUME NEW s, NEW n, NEW over, ReaderOK(s, n, over), NEW queue \in Seq(ReadTicks), Ends(s, queue)
  PROVE  ReaderOK(sock', n, over) /\ sock'.todo = <<>> /\ ticks' \in Seq(ReadTicks) /\ sock'.data = s.data
<1> DEFINE t == [s EXCEPT !.todo = <<>>]
<1>1. s \in Socks /\ s.todo \in Seq(ReadTicks)
  BY DEF ReaderOK, Socks
<1>2. sock' = t /\ ticks' = queue \o s.todo
  BY DEF Ends
<1>3. <<>> \in Seq(ReadTicks)
  OBVIOUS
<1>4. Calm(s, t) /\ t.todo = <<>>
  BY <1>1, <1>3 DEF Calm, Socks
<1> HIDE DEF t
<1>5. ReaderOK(t, n, over) /\ t.data = s.data
  BY <1>4, CalmIsOK DEF Calm
<1>6. queue \o s.todo \in Seq(ReadTicks)
  BY <1>1
<1> QED BY <1>2, <1>4, <1>5, <1>6

\* A step in which the native reads return nothing
LEMMA JobIsOK ==
  ASSUME ReadIInv, NEW s, ReaderOK(s, Returned, taken > Sent), NEW queue \in Seq(ReadTicks), Ends(s, queue),
         taken' = taken, pauseAt' = pauseAt, pauses' \in 0..MaxPauses
  PROVE  ReadIInv' /\ sock'.data = s.data
BY EndsWell DEF Returned, ReadIInv

\* The step of SilentWhilePaused
SilentStep == sock.netPaused => sock'.data = sock.data

LEMMA StartStep == ASSUME ReadIInv, Start PROVE ReadIInv' /\ SilentStep
<1> DEFINE on == [sock EXCEPT !.started = TRUE]
           s == ReadZero(on)
<1>1. ReaderOK(sock, Returned, taken > Sent)
  BY DEF ReadIInv
<1>2. Calm(sock, on)
  BY <1>1 DEF ReaderOK, Calm, Socks
<1>3. Ends(s, ticks) /\ ticks \in Seq(ReadTicks) /\ pauses' \in 0..MaxPauses /\ taken' = taken /\ pauseAt' = pauseAt
  BY DEF Start, ReadIInv
<1> HIDE DEF on
<1>4. ReaderOK(s, Returned, taken > Sent) /\ Silent(sock, s)
  BY <1>1, <1>2, CalmIsOK, ReadZeroIsOK, SilentOn
<1> HIDE DEF s
<1> QED BY <1>3, <1>4, JobIsOK DEF Silent, SilentStep

LEMMA AddListenerStep == ASSUME ReadIInv, AddListener PROVE ReadIInv' /\ SilentStep
<1> DEFINE s == AfterResume(Resumed(sock))
<1>1. ReaderOK(sock, Returned, taken > Sent) /\ ~sock.netPaused
  BY DEF ReadIInv, AddListener, ReaderOK, LastOK
<1>2. ReaderOK(s, Returned, taken > Sent)
  BY <1>1, ResumedIsOK, AfterResumeIsOK
<1>3. Ends(s, ticks) /\ ticks \in Seq(ReadTicks) /\ pauses' \in 0..MaxPauses /\ taken' = taken /\ pauseAt' = pauseAt
  BY DEF AddListener, ReadIInv
<1> HIDE DEF s
<1> QED BY <1>1, <1>2, <1>3, JobIsOK DEF SilentStep

LEMMA PauseStep == ASSUME ReadIInv, Pause PROVE ReadIInv' /\ SilentStep
<1> DEFINE s == PausedSocket(sock)
<1>1. ReaderOK(sock, Returned, taken > Sent)
  BY DEF ReadIInv
<1>2. ReaderOK(s, Returned, taken > Sent)
  BY <1>1, PausedIsOK
<1>3. Ends(s, ticks) /\ ticks \in Seq(ReadTicks) /\ taken' = taken /\ pauseAt' = pauseAt /\ ~sock.netPaused
  BY DEF Pause, ReadIInv
<1>4. pauses' \in 0..MaxPauses
  BY ReadAssumption DEF Pause, ReadIInv
<1> HIDE DEF s
<1> QED BY <1>2, <1>3, <1>4, JobIsOK DEF SilentStep

LEMMA ResumeStep == ASSUME ReadIInv, Resume PROVE ReadIInv'
<1> DEFINE on == [sock EXCEPT !.netPaused = FALSE]
           s == AfterResume(Resumed(on))
<1>1. ReaderOK(sock, Returned, taken > Sent)
  BY DEF ReadIInv
<1>2. /\ on \in Socks /\ on.data = sock.data /\ on.buffer = sock.buffer /\ on.pending = sock.pending
      /\ on.loops = sock.loops /\ on.token = sock.token /\ (on.inFlight <=> sock.inFlight)
      /\ (on.ended <=> sock.ended) /\ ~on.netPaused
  BY <1>1 DEF ReaderOK, Socks
<1>3. Ends(s, ticks) /\ ticks \in Seq(ReadTicks) /\ pauses' \in 0..MaxPauses /\ taken' = taken /\ pauseAt' = pauseAt
  BY DEF Resume, ReadIInv
<1> HIDE DEF on
<1>4. LineOK(on, Returned) /\ LoopOK(on) /\ LastOK(on, taken > Sent)
  BY <1>1, <1>2 DEF ReaderOK, LineOK, LoopOK, LastOK
<1>5. ReaderOK(on, Returned, taken > Sent)
  BY <1>2, <1>4 DEF ReaderOK
<1>6. ReaderOK(s, Returned, taken > Sent)
  BY <1>2, <1>5, ResumedIsOK, AfterResumeIsOK
<1> HIDE DEF s
<1> QED BY <1>3, <1>6, JobIsOK

LEMMA RunTickStep == ASSUME ReadIInv, RunTick PROVE ReadIInv' /\ SilentStep
<1>1. ReaderOK(sock, Returned, taken > Sent) /\ sock \in Socks
  BY DEF ReadIInv, ReaderOK
<1> DEFINE more == ReadMore(sock)
           pulled == [more EXCEPT !.readingMore = FALSE]
           over == [sock EXCEPT !.endEmitted = sock.endEmitted \/ sock.buffer = <<>>]
<1>2. /\ Tail(ticks) \in Seq(ReadTicks) /\ pauses' \in 0..MaxPauses /\ taken' = taken /\ pauseAt' = pauseAt
  BY DEF RunTick, ReadIInv
<1>3. \/ Ends(EmitReadableNow(sock), Tail(ticks)) \/ Ends(pulled, Tail(ticks))
      \/ Ends(ResumeNow(sock), Tail(ticks)) \/ Ends(over, Tail(ticks))
  BY DEF RunTick
<1>4. ReaderOK(EmitReadableNow(sock), Returned, taken > Sent) /\ Silent(sock, EmitReadableNow(sock))
  BY <1>1, EmitReadableNowIsOK
<1>5. ReaderOK(ResumeNow(sock), Returned, taken > Sent) /\ Silent(sock, ResumeNow(sock))
  BY <1>1, ResumeNowIsOK
<1>6. Calm(sock, over)
  BY <1>1 DEF Calm, Socks
<1> HIDE DEF over
<1>7. ReaderOK(over, Returned, taken > Sent) /\ Silent(sock, over)
  BY <1>1, <1>6, CalmIsOK
<1>8. ReaderOK(more, Returned, taken > Sent) /\ Silent(sock, more)
  BY <1>1, ReadMoreIsOK
<1> HIDE DEF more
<1>9. Calm(more, pulled)
  BY <1>8 DEF ReaderOK, Calm, Socks
<1> HIDE DEF pulled
<1>10. ReaderOK(pulled, Returned, taken > Sent) /\ Silent(sock, pulled)
  BY <1>8, <1>9, CalmIsOK, SilentOn
<1>11. PICK s : Ends(s, Tail(ticks)) /\ ReaderOK(s, Returned, taken > Sent) /\ Silent(sock, s)
  BY <1>3, <1>4, <1>5, <1>7, <1>10
<1> QED BY <1>2, <1>11, JobIsOK DEF Silent, SilentStep

\* The socket, when the native read of its loop has answered
Answered(s) ==
    /\ sock.inFlight /\ s \in Socks /\ s.data = sock.data /\ s.buffer = sock.buffer /\ s.pending = <<>>
    /\ s.loops = <<>> /\ ~s.inFlight /\ s.flowing = sock.flowing /\ s.todo = sock.todo
    /\ (s.ended <=> sock.ended) /\ (s.endEmitted <=> sock.endEmitted) /\ (s.netPaused <=> sock.netPaused)
    /\ (s.emittedReadable <=> sock.emittedReadable) /\ (s.readingMore <=> sock.readingMore)
    /\ (s.resumeScheduled <=> sock.resumeScheduled) /\ (s.started <=> sock.started)
    /\ (s.sync <=> sock.sync)

\* The native read answers the one loop there is: its chunk goes to the end of the line, and
\* the FIN comes after all of it.
LEMMA ReadAnswersIsOK ==
  ASSUME ReadIInv, NEW i, ReadAnswers(i)
  PROVE  /\ taken' \in 0..Sent + 1 /\ pauseAt' = pauseAt /\ pauses' = pauses
         /\ \E s, t : \E c \in 0..Sent :
               /\ Answered(s) /\ Ends(t, ticks) /\ ReaderOK(t, Returned', taken' > Sent) /\ Silent(s, t)
               /\ \/ s.netPaused /\ t = PutAside(s, c)
                  \/ /\ ReaderOK(s, Returned', taken' > Sent) /\ taken' > Sent
                     /\ t = ReadZero(PushEof(s))
                  \/ InHand(s, c, Returned') /\ t = GoesOn(PushChunk(s, c), sock.token)
<1>1. ReaderOK(sock, Returned, taken > Sent) /\ sock \in Socks /\ taken \in 0..Sent + 1 /\ Sent \in Nat
  BY ReadAssumption DEF ReadIInv, ReaderOK
<1>2. sock.inFlight /\ sock.loops = <<sock.token>> /\ sock.pending = <<>> /\ i = 1 /\ sock.loops[i] = sock.token
  BY <1>1 DEF ReadAnswers, ReaderOK, LoopOK
<1> DEFINE c == IF taken >= Sent THEN FIN ELSE taken + 1
           s == [sock EXCEPT !.inFlight = FALSE, !.loops = <<>>]
           now == IF taken > Sent THEN taken ELSE taken + 1
<1>3. /\ taken' = now /\ pauseAt' = pauseAt /\ pauses' = pauses
      /\ \/ s.netPaused /\ Ends(PutAside(s, c), ticks)
         \/ ~s.netPaused /\ c = FIN /\ Ends(ReadZero(PushEof(s)), ticks)
         \/ ~s.netPaused /\ c # FIN /\ Ends(GoesOn(PushChunk(s, c), sock.token), ticks)
  <2>1. RemoveAt(sock.loops, i) = <<>>
    BY <1>2 DEF RemoveAt
  <2>2. s = [sock EXCEPT !.inFlight = FALSE, !.loops = RemoveAt(sock.loops, i)]
    BY <2>1
  <2>3. s.token = sock.token /\ (i > 1) = FALSE
    BY <1>1, <1>2 DEF Socks
  <2> HIDE DEF s
  <2> QED BY <1>2, <2>2, <2>3 DEF ReadAnswers
<1>4. Answered(s)
  <2>1. <<>> \in Seq(Nat)
    OBVIOUS
  <2>2. s \in Socks
    BY <1>1, <2>1 DEF Socks
  <2> QED BY <1>1, <1>2, <2>2 DEF Socks, Answered
<1> HIDE DEF s
<1>4a. /\ s \in Socks /\ s.data = sock.data /\ s.buffer = sock.buffer /\ s.pending = <<>> /\ s.loops = <<>>
       /\ ~s.inFlight /\ (s.ended <=> sock.ended) /\ (s.netPaused <=> sock.netPaused) /\ s.flowing = sock.flowing
  BY <1>4 DEF Answered
<1>5. s.netPaused => s.flowing = "no"
  BY <1>1, <1>4a DEF ReaderOK, LastOK
<1>6. s.data \o s.buffer = FirstOf(Returned)
  <2>1. \A k : <<>> # <<k>>
    OBVIOUS
  <2>2. sock.data \o sock.buffer = FirstOf(Returned)
    BY <1>1, <1>2, <2>1 DEF ReaderOK, LineOK
  <2> QED BY <1>4a, <2>2
<1>7. s.ended => taken > Sent
  BY <1>1, <1>4a DEF ReaderOK, LastOK
<1> DEFINE n == IF now > Sent THEN Sent ELSE now
<1>8. Returned' = n /\ taken' = now /\ now \in 0..Sent + 1 /\ c \in 0..Sent
  BY <1>1, <1>3 DEF Returned, FIN
<1>9. c = FIN => now > Sent /\ s.data \o s.buffer = FirstOf(n)
  BY <1>1, <1>6 DEF FIN, Returned
<1>10. c # FIN => ~s.ended /\ c \in 1..Sent /\ Append(s.data \o s.buffer, c) = FirstOf(n)
  <2>1. SUFFICES ASSUME c # FIN PROVE ~s.ended /\ c \in 1..Sent /\ Append(s.data \o s.buffer, c) = FirstOf(n)
    OBVIOUS
  <2>2. taken < Sent /\ c = taken + 1 /\ n = taken + 1 /\ Returned = taken /\ taken \in Nat
    BY <1>1, <2>1 DEF Returned
  <2>3. Append(FirstOf(taken), taken + 1) = FirstOf(taken + 1)
    BY <2>2, FirstAndNext
  <2>4. ~s.ended /\ c \in 1..Sent
    BY <1>1, <1>7, <2>2
  <2>5. Append(s.data \o s.buffer, c) = FirstOf(n)
    BY <1>6, <2>2, <2>3
  <2> QED BY <2>4, <2>5
<1>11. s.ended => now > Sent
  BY <1>1, <1>7
<1> DEFINE over == now > Sent
<1> HIDE DEF c, n, now, over
<1>12. \E t : /\ Ends(t, ticks) /\ ReaderOK(t, n, over) /\ Silent(s, t)
             /\ \/ s.netPaused /\ t = PutAside(s, c)
                \/ ReaderOK(s, n, over) /\ over /\ t = ReadZero(PushEof(s))
                \/ InHand(s, c, n) /\ t = GoesOn(PushChunk(s, c), sock.token)
  <2>1. CASE s.netPaused
    BY <1>3, <1>4a, <1>5, <1>8, <1>9, <1>10, <1>11, <2>1, PutAsideIsOK DEF over
  <2>2. CASE ~s.netPaused /\ c = FIN
    BY <1>3, <1>4a, <1>5, <1>9, <1>11, <2>2, PushEofIsOK, ReadZeroIsOK, SilentOn DEF LineOK, LoopOK,
       LastOK, over, ReaderOK
  <2>3. CASE ~s.netPaused /\ c # FIN
    <3> DEFINE p == PushChunk(s, c)
    <3>1. InHand(s, c, n)
      BY <1>4a, <1>5, <1>10, <2>3 DEF InHand
    <3>2. ReaderOK(p, n, over) /\ Silent(s, p) /\ Idle(p)
      BY <3>1, PushChunkIsOK
    <3> HIDE DEF p
    <3>3. p.pending = <<>> /\ ~p.inFlight
      BY <3>2 DEF Idle
    <3>4. ReaderOK(GoesOn(p, sock.token), n, over) /\ Silent(s, GoesOn(p, sock.token))
      BY <3>2, <3>3, GoesOnIsOK, SilentOn
    <3> QED BY <1>3, <2>3, <3>1, <3>4 DEF p
  <2> QED BY <2>1, <2>2, <2>3
<1>13. Returned' = n /\ (taken' > Sent) = over /\ c \in 0..Sent /\ taken' \in 0..Sent + 1
  BY <1>8 DEF over
<1> QED BY <1>3, <1>4, <1>12, <1>13

LEMMA ReadAnswersStep == ASSUME ReadIInv, NEW i, ReadAnswers(i) PROVE ReadIInv' /\ SilentStep
<1>1. PICK s, t : /\ Answered(s) /\ Ends(t, ticks) /\ ReaderOK(t, Returned', taken' > Sent) /\ Silent(s, t)
                  /\ taken' \in 0..Sent + 1 /\ pauseAt' = pauseAt /\ pauses' = pauses
  BY ReadAnswersIsOK
<1>2. ticks \in Seq(ReadTicks)
  BY DEF ReadIInv
<1>3. ReaderOK(sock', Returned', taken' > Sent) /\ sock'.todo = <<>> /\ ticks' \in Seq(ReadTicks) /\ sock'.data = t.data
  BY <1>1, <1>2, EndsWell
<1>4. ReadIInv'
  BY <1>1, <1>3 DEF ReadIInv
<1> QED BY <1>1, <1>3, <1>4 DEF Answered, Silent, SilentStep

LEMMA ReaderStarts == ASSUME ReadInit PROVE ReadIInv
BY ReadAssumption DEF ReadInit, Socks, Flowing, FirstOf, Returned, LineOK, LoopOK, LastOK, ReadIInv,
   ReaderOK

LEMMA ReaderStep == ASSUME ReadIInv, [ReadNext]_ReadVars PROVE ReadIInv' /\ (~Resume => SilentStep)
<1>1. CASE UNCHANGED ReadVars
  BY <1>1 DEF ReadVars, ReadIInv, ReaderOK, Returned, SilentStep
<1>2. CASE ReadNext
  <2>1. CASE Start
    BY <2>1, StartStep
  <2>2. CASE AddListener
    BY <2>2, AddListenerStep
  <2>3. CASE Pause
    BY <2>3, PauseStep
  <2>4. CASE Resume
    BY <2>4, ResumeStep
  <2>5. CASE RunTick
    BY <2>5, RunTickStep
  <2>6. CASE \E i \in 1..2 : ReadAnswers(i)
    BY <2>6, ReadAnswersStep
  <2> QED BY <1>2, <2>1, <2>2, <2>3, <2>4, <2>5, <2>6 DEF ReadNext
<1> QED BY <1>1, <1>2

-----------------------------------------------------------------------------
(* A reader that flows is never stranded: what every call does for it *)

\* A tick of kind x is in the queue, whose kinds are k, or on its way to it.
Comes(s, k, x) == x \in k \/ \E i \in 1..Len(s.todo) : s.todo[i] = x

\* 'readable' was asked for, and comes when there is something to read; what is put aside waits
\* for resume().
Ready(s, k) ==
    /\ s.emittedReadable => Comes(s, k, "readable") /\ (s.buffer # <<>> \/ s.ended)
    /\ s.pending # <<>> => s.netPaused

\* read() that asked for more will be answered.
Awake(s, k) == Ready(s, k) /\ (s.reading => s.inFlight \/ s.pending # <<>>)

\* What is in the buffer of a flowing socket will be taken, and then 'end' comes.
Fed(s, k) ==
    s.flowing = "yes" =>
        \/ Comes(s, k, "readable") \/ Comes(s, k, "resume")
        \/ s.buffer = <<>> /\ (s.ended => s.endEmitted \/ Comes(s, k, "end"))

\* And until the end more is read.
Stirred(s, k) ==
    /\ Fed(s, k)
    /\ s.flowing = "yes" /\ s.buffer = <<>> /\ ~s.ended =>
          s.inFlight \/ Comes(s, k, "readable") \/ Comes(s, k, "resume") \/ Comes(s, k, "more")

\* A call of a job takes back no tick, and sets no flag without one.
Onward(s, t) ==
    /\ \A k, x : Comes(s, k, x) => Comes(t, k, x)
    /\ t.resumeScheduled => s.resumeScheduled
    /\ t.readingMore => s.readingMore \/ \A k : Comes(t, k, "more")
    /\ t.sync => s.sync
    /\ (t.started <=> s.started)

LEMMA OnwardOn == ASSUME NEW s, NEW t, NEW u, Onward(s, t), Onward(t, u) PROVE Onward(s, u)
BY DEF Onward

LEMMA OnwardItself == ASSUME NEW s PROVE Onward(s, s)
BY DEF Onward

\* The flags of a read may change, and nothing else but what the listener has had.
Alike(s, t) ==
    /\ t \in Socks /\ t.buffer = s.buffer /\ t.pending = s.pending /\ t.flowing = s.flowing
    /\ (t.ended <=> s.ended) /\ (t.endEmitted <=> s.endEmitted) /\ (t.netPaused <=> s.netPaused)
    /\ (t.emittedReadable <=> s.emittedReadable) /\ (t.readingMore <=> s.readingMore)
    /\ (t.resumeScheduled <=> s.resumeScheduled) /\ (t.started <=> s.started) /\ t.todo = s.todo

LEMMA AlikeOn == ASSUME NEW s, NEW t, NEW u, Alike(s, t), Alike(t, u) PROVE Alike(s, u)
BY Zenon DEF Alike

LEMMA AlikeKeeps ==
  ASSUME NEW s, NEW t, NEW k, Alike(s, t)
  PROVE  /\ Ready(s, k) => Ready(t, k)
         /\ Fed(s, k) => Fed(t, k)
         /\ (t.sync => s.sync) => Onward(s, t)
<1>1. \A kk, x : Comes(t, kk, x) <=> Comes(s, kk, x)
  BY DEF Alike, Comes
<1>2. Ready(s, k) => Ready(t, k)
  BY <1>1, Zenon DEF Alike, Ready
<1>3. Fed(s, k) => Fed(t, k)
  BY <1>1, Zenon DEF Alike, Fed
<1>4. (t.sync => s.sync) => Onward(s, t)
  BY <1>1, Zenon DEF Alike, Onward
<1> QED BY <1>2, <1>3, <1>4

\* A tick is asked for, and nothing else changes.
Asks(s, t, x) ==
    /\ t \in Socks /\ t.buffer = s.buffer /\ t.pending = s.pending /\ t.flowing = s.flowing
    /\ (t.ended <=> s.ended) /\ (t.endEmitted <=> s.endEmitted) /\ (t.netPaused <=> s.netPaused)
    /\ (t.emittedReadable <=> s.emittedReadable) /\ (t.readingMore <=> s.readingMore)
    /\ (t.resumeScheduled <=> s.resumeScheduled) /\ (t.started <=> s.started)
    /\ (t.reading <=> s.reading) /\ (t.sync <=> s.sync) /\ (t.inFlight <=> s.inFlight)
    /\ t.todo = Append(s.todo, x)

LEMMA ReadTickAsks ==
  ASSUME NEW s \in Socks, NEW x \in ReadTicks
  PROVE  /\ Asks(s, ReadTick(s, x), x) /\ Onward(s, ReadTick(s, x))
         /\ \A k : Comes(ReadTick(s, x), k, x)
<1> DEFINE t == ReadTick(s, x)
<1>1. s.todo \in Seq(ReadTicks) /\ Append(s.todo, x) \in Seq(ReadTicks)
  BY DEF Socks
<1>2. Asks(s, t, x)
  <2>1. t = [s EXCEPT !.todo = Append(s.todo, x)]
    BY DEF ReadTick
  <2> HIDE DEF t
  <2>2. t \in Socks
    BY <1>1, <2>1 DEF Socks
  <2> QED BY <2>1, <2>2 DEF Socks, Asks
<1> HIDE DEF t
<1>3. /\ Len(t.todo) = Len(s.todo) + 1 /\ t.todo[Len(s.todo) + 1] = x /\ Len(s.todo) \in Nat
      /\ \A i \in 1..Len(s.todo) : t.todo[i] = s.todo[i]
  BY <1>1, <1>2 DEF Asks
<1>4. \A k, y : Comes(s, k, y) => Comes(t, k, y)
  <2> SUFFICES ASSUME NEW y, NEW i \in 1..Len(s.todo), s.todo[i] = y PROVE \E j \in 1..Len(t.todo) : t.todo[j] = y
    BY DEF Comes
  <2>1. i \in 1..Len(t.todo)
    BY <1>3
  <2> QED BY <1>3, <2>1
<1>5. \A k : Comes(t, k, x)
  BY <1>3 DEF Comes
<1>6. Onward(s, t)
  BY <1>2, <1>4, Zenon DEF Asks, Onward
<1> QED BY <1>2, <1>5, <1>6 DEF t

\* emitReadable() has been called: its tick comes.
LEMMA EmitReadableStirs ==
  ASSUME NEW s \in Socks, NEW k, Ready(s, k), s.buffer # <<>> \/ s.ended
  PROVE  LET t == EmitReadable(s)
         IN  /\ Ready(t, k) /\ Onward(s, t) /\ Comes(t, k, "readable") /\ t \in Socks
             /\ t.buffer = s.buffer /\ t.pending = s.pending /\ t.flowing = s.flowing
             /\ (t.ended <=> s.ended) /\ (t.netPaused <=> s.netPaused)
             /\ (t.reading <=> s.reading) /\ (t.inFlight <=> s.inFlight)
<1> DEFINE quiet == [s EXCEPT !.needReadable = FALSE]
           told == [quiet EXCEPT !.emittedReadable = TRUE]
           u == ReadTick(told, "readable")
<1>0. quiet \in Socks /\ told \in Socks
  BY DEF Socks
<1>1. Alike(s, quiet) /\ (quiet.sync <=> s.sync) /\ (quiet.reading <=> s.reading) /\ (quiet.inFlight <=> s.inFlight)
  BY <1>0 DEF Alike, Socks
<1>2. /\ told \in Socks /\ told.buffer = s.buffer /\ told.pending = s.pending /\ told.flowing = s.flowing
      /\ (told.ended <=> s.ended) /\ (told.endEmitted <=> s.endEmitted) /\ (told.netPaused <=> s.netPaused)
      /\ (told.readingMore <=> s.readingMore) /\ (told.resumeScheduled <=> s.resumeScheduled)
      /\ (told.started <=> s.started) /\ told.todo = s.todo /\ (told.reading <=> s.reading)
      /\ (told.sync <=> s.sync) /\ (told.inFlight <=> s.inFlight)
  BY <1>0 DEF Socks
<1>3. EmitReadable(s) = IF s.emittedReadable THEN quiet ELSE u
  BY DEF EmitReadable
<1> HIDE DEF quiet, told
<1>4. Asks(told, u, "readable") /\ Onward(told, u) /\ Comes(u, k, "readable")
  BY <1>2, ReadTickAsks DEF ReadTicks
<1> HIDE DEF u
<1>5. CASE s.emittedReadable
  BY <1>1, <1>3, <1>5, AlikeKeeps DEF Ready, Onward, Alike
<1>6. CASE ~s.emittedReadable
  <2>1. EmitReadable(s) = u
    BY <1>3, <1>6
  <2>2. Onward(s, told)
    BY <1>2 DEF Onward, Comes
  <2>3. Onward(s, u)
    BY <1>4, <2>2, OnwardOn
  <2>4. Ready(u, k)
    BY <1>2, <1>4, Zenon DEF Asks, Ready
  <2> QED BY <1>2, <1>4, <2>1, <2>3, <2>4 DEF Asks
<1> QED BY <1>5, <1>6

\* endReadable() has been called: 'end' comes, or has come.
LEMMA EndReadableStirs ==
  ASSUME NEW s \in Socks, NEW k, Ready(s, k), s.ended
  PROVE  LET t == EndReadable(s)
         IN  /\ Ready(t, k) /\ Onward(s, t) /\ (t.endEmitted \/ Comes(t, k, "end")) /\ t \in Socks
             /\ t.buffer = s.buffer /\ t.pending = s.pending /\ t.flowing = s.flowing
             /\ t.ended /\ (t.netPaused <=> s.netPaused)
             /\ (t.reading <=> s.reading) /\ (t.inFlight <=> s.inFlight)
             /\ (t.emittedReadable <=> s.emittedReadable)
<1> DEFINE told == [s EXCEPT !.ended = TRUE]
           u == ReadTick(told, "end")
<1>0. told \in Socks
  BY DEF Socks
<1>1. Alike(s, told) /\ (told.sync <=> s.sync) /\ (told.reading <=> s.reading) /\ (told.inFlight <=> s.inFlight)
  BY <1>0 DEF Alike, Socks
<1>2. EndReadable(s) = IF s.endEmitted THEN s ELSE u
  BY DEF EndReadable
<1> HIDE DEF told
<1>3. told \in Socks /\ Ready(told, k) /\ Onward(s, told)
  BY <1>1, AlikeKeeps DEF Alike
<1>4. Asks(told, u, "end") /\ Onward(told, u) /\ Comes(u, k, "end")
  BY <1>3, ReadTickAsks DEF ReadTicks
<1> HIDE DEF u
<1>5. CASE s.endEmitted
  BY <1>2, <1>5, OnwardItself
<1>6. CASE ~s.endEmitted
  <2>1. EndReadable(s) = u
    BY <1>2, <1>6
  <2>2. Onward(s, u)
    BY <1>3, <1>4, OnwardOn
  <2>3. Ready(u, k)
    BY <1>3, <1>4, Zenon DEF Asks, Ready, Onward
  <2> QED BY <1>1, <1>4, <2>1, <2>2, <2>3 DEF Asks, Alike
<1> QED BY <1>5, <1>6

\* What is put aside is not drained while the socket is paused.
LEMMA NothingDrained ==
  ASSUME NEW s, NEW n, NEW over, ReaderOK(s, n, over), s.pending # <<>> => s.netPaused
  PROVE  Drained(s) = [state |-> s, fin |-> FALSE, on |-> TRUE]
<1> DEFINE first == [state |-> s, fin |-> FALSE, on |-> TRUE]
<1>1. PICK f : /\ f[0] = first /\ \A i \in Nat \ {0} : f[i] = DrainRound(f[i - 1])
               /\ Drained(s) = f[Len(s.pending)]
  BY DrainLoop
<1>2. DrainRound(first) = first
  BY DEF DrainRound
<1> HIDE DEF first
<1>3. PICK S : S = {first}
  OBVIOUS
<1>4. f[0] \in S /\ \A i \in Nat \ {0} : f[i - 1] \in S => f[i] \in S
  BY <1>1, <1>2, <1>3
<1>5. \A i \in Nat : f[i] \in S
  BY ONLY <1>4, LoopStays
<1>6. Len(s.pending) \in Nat
  BY DEF ReaderOK, Socks
<1> QED BY <1>1, <1>3, <1>5, <1>6 DEF first

\* Then _read starts a native read, or leaves the one that is in flight.
LEMMA NetReadPolls ==
  ASSUME NEW s, NEW n, NEW over, ReaderOK(s, n, over), s.pending # <<>> => s.netPaused
  PROVE  LET t == NetRead(s)
         IN  /\ Alike(s, t) /\ (t.reading <=> s.reading) /\ (t.sync <=> s.sync)
             /\ s.pending = <<>> => t.inFlight
<1> DEFINE asks == [s EXCEPT !.netReading = TRUE]
           t == StartPollLoop(asks)
<1>1. s \in Socks
  BY DEF ReaderOK
<1>2. NetRead(s) = IF s.pending # <<>> THEN s ELSE t
  <2>1. Drained(s) = [state |-> s, fin |-> FALSE, on |-> TRUE]
    BY NothingDrained
  <2> QED BY <2>1 DEF NetRead
<1>3. asks \in Socks
  BY <1>1 DEF Socks
<1>4. Alike(s, asks) /\ (asks.reading <=> s.reading) /\ (asks.sync <=> s.sync)
  BY <1>1, <1>3 DEF Alike, Socks
<1> HIDE DEF asks
<1>5. CASE asks.inFlight
  BY <1>1, <1>2, <1>4, <1>5 DEF StartPollLoop, Alike
<1>6. CASE ~asks.inFlight
  <2>1. t = [asks EXCEPT !.token = asks.token + 1, !.inFlight = TRUE, !.loops = Append(asks.loops, asks.token + 1)]
    BY <1>6 DEF StartPollLoop
  <2>2. Append(asks.loops, asks.token + 1) \in Seq(Nat) /\ asks.token + 1 \in Nat
    BY <1>3 DEF Socks
  <2> HIDE DEF t
  <2>3. t \in Socks
    BY <1>3, <2>1, <2>2 DEF Socks
  <2>4. Alike(asks, t) /\ (t.reading <=> asks.reading) /\ (t.sync <=> asks.sync) /\ t.inFlight
    BY <1>3, <2>1, <2>2, <2>3 DEF Alike, Socks
  <2>5. Alike(s, t) /\ Alike(s, s)
    BY <1>1, <1>4, <2>4, AlikeOn DEF Alike
  <2> QED BY <1>2, <1>4, <2>4, <2>5
<1> QED BY <1>5, <1>6

\* read() takes nothing yet, and what it asks for will be answered.
LEMMA PulledPolls ==
  ASSUME NEW s, NEW m, NEW n, NEW over, NEW k, ReaderOK(s, n, over), Awake(s, k)
  PROVE  LET t == Pulled(s, m)
         IN  /\ Alike(s, t) /\ Awake(t, k) /\ Onward(s, t)
             /\ s.buffer = <<>> /\ ~s.ended /\ s.pending = <<>> => t.inFlight
             /\ s.buffer = <<>> /\ ~s.ended /\ ~s.reading => ~t.sync
<1> DEFINE asks == [s EXCEPT !.reading = TRUE, !.sync = TRUE, !.needReadable = s.needReadable \/ s.buffer = <<>>]
           r == NetRead(asks)
           t == [r EXCEPT !.sync = FALSE]
           want == s.needReadable \/ s.buffer = <<>> \/ Len(s.buffer) - m < HighWaterMark
<1>1. Pulled(s, m) = IF want /\ ~s.ended /\ ~s.reading THEN t ELSE s
  BY DEF Pulled
<1>2. s \in Socks /\ s.needReadable \in BOOLEAN /\ (s.pending # <<>> => s.netPaused) /\ Ready(s, k)
  BY DEF ReaderOK, Awake, Ready, Socks
<1>3. asks \in Socks
  BY <1>2 DEF Socks
<1>4. Calm(s, asks) /\ Alike(s, asks) /\ asks.reading /\ asks.pending = s.pending /\ (asks.netPaused <=> s.netPaused)
  BY <1>2, <1>3 DEF Calm, Alike, Socks
<1> HIDE DEF asks
<1>5. ReaderOK(asks, n, over)
  BY <1>4, CalmIsOK
<1>6. Alike(asks, r) /\ r.reading /\ (asks.pending = <<>> => r.inFlight)
  BY <1>2, <1>4, <1>5, NetReadPolls
<1> HIDE DEF r
<1>7. r \in Socks
  BY <1>6 DEF Alike
<1>8. t \in Socks
  BY <1>7 DEF Socks
<1>9. Alike(r, t) /\ t.reading /\ (t.inFlight <=> r.inFlight) /\ ~t.sync
  BY <1>6, <1>7, <1>8 DEF Alike, Socks
<1> HIDE DEF t
<1>10. Alike(s, t)
  BY <1>4, <1>6, <1>9, AlikeOn
<1>11. Ready(t, k) /\ Onward(s, t) /\ t.pending = s.pending
  BY <1>2, <1>9, <1>10, AlikeKeeps DEF Alike
<1>12. Awake(t, k)
  BY <1>4, <1>6, <1>9, <1>11 DEF Awake
<1>13. Alike(s, s) /\ Onward(s, s)
  BY <1>2, OnwardItself DEF Alike
<1>14. CASE want /\ ~s.ended /\ ~s.reading
  BY <1>1, <1>4, <1>6, <1>9, <1>10, <1>11, <1>12, <1>14
<1>15. CASE ~(want /\ ~s.ended /\ ~s.reading)
  <2>1. s.buffer = <<>> => want
    OBVIOUS
  <2> HIDE DEF want
  <2> QED BY <1>1, <1>13, <1>15, <2>1 DEF Awake
<1> QED BY <1>14, <1>15

\* read(0) leaves a flowing socket that is fed with a native read or a tick.
LEMMA ReadZeroStirs ==
  ASSUME NEW s, NEW n, NEW over, NEW k, ReaderOK(s, n, over), Awake(s, k)
  PROVE  LET t == ReadZero(s)
         IN  /\ Awake(t, k) /\ Onward(s, t) /\ t.flowing = s.flowing
             /\ Fed(s, k) => Stirred(t, k)
             /\ s.buffer = <<>> /\ ~s.ended /\ ~s.reading /\ ~s.needReadable => ~t.sync
<1> DEFINE p == Pulled(s, 0)
           room == Len(p.buffer) <= HighWaterMark
           t == [p EXCEPT !.needReadable = room]
<1>1. /\ s \in Socks /\ Ready(s, k) /\ (s.netPaused => s.flowing = "no") /\ s.buffer \in Seq(1..Sent)
      /\ HighWaterMark \in Nat \ {0}
  BY ReadAssumption DEF ReaderOK, LastOK, Awake, Socks
<1>2. Alike(s, p) /\ Awake(p, k) /\ Onward(s, p)
      /\ (s.buffer = <<>> /\ ~s.ended /\ s.pending = <<>> => p.inFlight)
      /\ (s.buffer = <<>> /\ ~s.ended /\ ~s.reading => ~p.sync)
  BY PulledPolls
<1>3. p \in Socks /\ room \in BOOLEAN
  BY <1>2 DEF Alike
<1>4. \/ s.buffer = <<>> /\ s.ended /\ ReadZero(s) = EndReadable(s)
      \/ s.buffer # <<>> /\ s.needReadable /\ ReadZero(s) = EmitReadable(s)
      \/ s.buffer # <<>> /\ ReadZero(s) = s
      \/ ~s.ended /\ ReadZero(s) = t
  <2>1. s.buffer = <<>> => ~(Len(s.buffer) >= HighWaterMark)
    BY <1>1
  <2> HIDE DEF t
  <2> QED BY <2>1 DEF ReadZero, t
<1> HIDE DEF p, room
<1>5. t \in Socks
  BY <1>3 DEF Socks
<1>6. Alike(p, t) /\ (t.reading <=> p.reading) /\ (t.inFlight <=> p.inFlight) /\ (t.sync <=> p.sync)
  BY <1>3, <1>5 DEF Alike, Socks
<1> HIDE DEF t
<1>7. CASE s.buffer = <<>> /\ s.ended /\ ReadZero(s) = EndReadable(s)
  <2> DEFINE u == EndReadable(s)
  <2>1. /\ Ready(u, k) /\ Onward(s, u) /\ (u.endEmitted \/ Comes(u, k, "end"))
        /\ u.buffer = s.buffer /\ u.pending = s.pending /\ u.flowing = s.flowing /\ u.ended
        /\ (u.reading <=> s.reading) /\ (u.inFlight <=> s.inFlight)
    BY <1>1, <1>7, EndReadableStirs
  <2> HIDE DEF u
  <2>2. Awake(u, k) /\ Stirred(u, k)
    BY <1>7, <2>1 DEF Awake, Stirred, Fed
  <2> QED BY <1>7, <2>1, <2>2 DEF u
<1>8. CASE s.buffer # <<>> /\ s.needReadable /\ ReadZero(s) = EmitReadable(s)
  <2> DEFINE u == EmitReadable(s)
  <2>1. /\ Ready(u, k) /\ Onward(s, u) /\ Comes(u, k, "readable") /\ u.pending = s.pending
        /\ u.flowing = s.flowing /\ (u.reading <=> s.reading) /\ (u.inFlight <=> s.inFlight)
    BY <1>1, <1>8, EmitReadableStirs
  <2> HIDE DEF u
  <2>2. Awake(u, k) /\ Stirred(u, k)
    BY <2>1 DEF Awake, Stirred, Fed
  <2> QED BY <1>8, <2>1, <2>2 DEF u
<1>9. CASE s.buffer # <<>> /\ ReadZero(s) = s
  BY <1>9, OnwardItself DEF Stirred
<1>10. CASE ~s.ended /\ ReadZero(s) = t
  <2>1. Alike(s, t)
    BY <1>2, <1>6, AlikeOn
  <2>2. Awake(t, k)
    BY <1>2, <1>6, AlikeKeeps DEF Awake, Alike
  <2>3. Onward(s, t)
    BY <1>2, <1>6, AlikeKeeps, OnwardOn
  <2>4. ASSUME Fed(s, k) PROVE Stirred(t, k)
    BY <1>1, <1>2, <1>6, <1>10, <2>1, <2>4, AlikeKeeps DEF Ready, Stirred, Alike
  <2> QED BY <1>2, <1>6, <1>10, <2>1, <2>2, <2>3, <2>4 DEF Alike
<1> QED BY <1>4, <1>7, <1>8, <1>9, <1>10

LEMMA PausedStirs ==
  ASSUME NEW s \in Socks, NEW k, Awake(s, k)
  PROVE  LET t == PausedSocket(s)
         IN  /\ t \in Socks /\ Awake(t, k) /\ Onward(s, t) /\ Stirred(t, k) /\ t.flowing = "no"
             /\ t.buffer = s.buffer /\ (t.ended <=> s.ended) /\ t.pending = s.pending /\ (t.sync <=> s.sync)
<1> DEFINE t == PausedSocket(s)
<1>1. t = [s EXCEPT !.netPaused = TRUE, !.netReading = FALSE, !.flowing = "no"]
  BY DEF PausedSocket
<1> HIDE DEF t
<1>2. t \in Socks
  BY <1>1 DEF Socks, Flowing
<1>3. /\ t.flowing = "no" /\ t.netPaused /\ t.buffer = s.buffer /\ (t.ended <=> s.ended) /\ t.pending = s.pending
      /\ (t.emittedReadable <=> s.emittedReadable) /\ (t.readingMore <=> s.readingMore)
      /\ (t.resumeScheduled <=> s.resumeScheduled) /\ (t.started <=> s.started) /\ t.todo = s.todo
      /\ (t.reading <=> s.reading) /\ (t.inFlight <=> s.inFlight) /\ (t.sync <=> s.sync)
  BY <1>1, <1>2 DEF Socks
<1>4. \A kk, x : Comes(t, kk, x) <=> Comes(s, kk, x)
  BY <1>3 DEF Comes
<1>5. Awake(t, k)
  BY <1>3, <1>4, Zenon DEF Awake, Ready
<1>6. Onward(s, t)
  BY <1>3, <1>4, Zenon DEF Onward
<1>7. Stirred(t, k)
  BY <1>3 DEF Stirred, Fed
<1> QED BY <1>2, <1>3, <1>5, <1>6, <1>7 DEF t

LEMMA EmitStirs ==
  ASSUME NEW s \in Socks, NEW k, Awake(s, k), NEW c \in 1..Sent
  PROVE  LET t == Emit(s, c)
         IN  /\ t \in Socks /\ Awake(t, k) /\ Onward(s, t)
             /\ t.buffer = s.buffer /\ (t.ended <=> s.ended) /\ t.pending = s.pending
             /\ t.flowing \in {s.flowing, "no"}
<1> DEFINE seen == [s EXCEPT !.data = Append(s.data, c)]
<1>1. Append(s.data, c) \in Seq(1..Sent)
  BY DEF Socks
<1>2. seen \in Socks
  BY <1>1 DEF Socks
<1>3. Alike(s, seen) /\ (seen.sync <=> s.sync) /\ (seen.reading <=> s.reading) /\ (seen.inFlight <=> s.inFlight)
  BY <1>1, <1>2 DEF Alike, Socks
<1>4. Emit(s, c) = seen \/ Emit(s, c) = PausedSocket(seen)
  BY DEF Emit
<1> HIDE DEF seen
<1>5. Awake(seen, k) /\ Onward(s, seen)
  BY <1>3, AlikeKeeps DEF Awake, Alike
<1> DEFINE u == PausedSocket(seen)
<1>6. /\ u \in Socks /\ Awake(u, k) /\ Onward(seen, u) /\ u.flowing = "no"
      /\ u.buffer = seen.buffer /\ (u.ended <=> seen.ended) /\ u.pending = seen.pending
  BY <1>2, <1>5, PausedStirs
<1> HIDE DEF u
<1>7. Onward(s, u)
  BY <1>5, <1>6, OnwardOn
<1> QED BY <1>2, <1>3, <1>4, <1>5, <1>6, <1>7 DEF Alike, u

\* read() of a flowing socket takes a chunk of the buffer, or leaves it stirred.
LEMMA TookStirs ==
  ASSUME NEW s, NEW n, NEW over, NEW k, ReaderOK(s, n, over), Awake(s, k), s.flowing = "yes"
  PROVE  LET t == Took(s).state
         IN  /\ Awake(t, k) /\ Onward(s, t) /\ (~Took(s).chunk => Stirred(t, k))
             /\ Took(s).chunk => Len(t.buffer) < Len(s.buffer)
<1> DEFINE quiet == [s EXCEPT !.emittedReadable = FALSE]
           m == IF s.buffer = <<>> THEN 0 ELSE 1
           p == Pulled(quiet, m)
           dry == [p EXCEPT !.needReadable = TRUE]
           left == [p EXCEPT !.buffer = Tail(p.buffer)]
           thirsty == [left EXCEPT !.needReadable = TRUE]
           c == Head(p.buffer)
<1>1. \/ s.buffer = <<>> /\ s.ended /\ Took(s) = [state |-> EndReadable(quiet), chunk |-> FALSE]
      \/ p.buffer = <<>> /\ p.ended /\ Took(s) = [state |-> EndReadable(dry), chunk |-> FALSE]
      \/ p.buffer = <<>> /\ ~p.ended /\ Took(s) = [state |-> dry, chunk |-> FALSE]
      \/ p.buffer # <<>> /\ Took(s) = [state |-> Emit(left, c), chunk |-> TRUE]
      \/ p.buffer # <<>> /\ left.ended /\ Took(s) = [state |-> Emit(EndReadable(left), c), chunk |-> TRUE]
      \/ p.buffer # <<>> /\ Took(s) = [state |-> Emit(thirsty, c), chunk |-> TRUE]
  BY DEF Took
<1>2. s \in Socks /\ ~s.netPaused /\ s.pending = <<>>
  BY DEF ReaderOK, LastOK, Awake, Ready
<1>3. quiet \in Socks
  BY <1>2 DEF Socks
<1>4. /\ Calm(s, quiet) /\ quiet.flowing = "yes" /\ quiet.pending = <<>> /\ quiet.buffer = s.buffer
      /\ (quiet.ended <=> s.ended) /\ ~quiet.emittedReadable /\ quiet.todo = s.todo
      /\ (quiet.readingMore <=> s.readingMore) /\ (quiet.resumeScheduled <=> s.resumeScheduled)
      /\ (quiet.started <=> s.started) /\ (quiet.sync <=> s.sync) /\ (quiet.reading <=> s.reading)
      /\ (quiet.inFlight <=> s.inFlight)
  BY <1>2, <1>3 DEF Calm, Socks
<1> HIDE DEF quiet, m
<1>5. ReaderOK(quiet, n, over) /\ Awake(quiet, k) /\ Onward(s, quiet)
  <2>1. \A kk, x : Comes(quiet, kk, x) <=> Comes(s, kk, x)
    BY <1>4 DEF Comes
  <2>2. Onward(s, quiet)
    BY <1>4, <2>1, Zenon DEF Onward
  <2>3. ReaderOK(quiet, n, over)
    BY <1>4, CalmIsOK
  <2>4. s.reading => s.inFlight
    BY <1>2 DEF Awake
  <2>5. Awake(quiet, k)
    BY <1>4, <2>4 DEF Awake, Ready
  <2> QED BY <2>2, <2>3, <2>5
<1>6. Alike(quiet, p) /\ Awake(p, k) /\ Onward(quiet, p)
      /\ (quiet.buffer = <<>> /\ ~quiet.ended /\ quiet.pending = <<>> => p.inFlight)
  BY <1>5, PulledPolls
<1> HIDE DEF p
<1>7. /\ p \in Socks /\ p.buffer = s.buffer /\ (p.ended <=> s.ended) /\ p.pending = <<>> /\ ~p.emittedReadable
      /\ Onward(s, p) /\ p.buffer \in Seq(1..Sent)
  BY <1>4, <1>5, <1>6, OnwardOn DEF Alike, Socks
<1>8. dry \in Socks
  BY <1>7 DEF Socks
<1>9. Alike(p, dry) /\ (dry.sync <=> p.sync) /\ (dry.reading <=> p.reading) /\ (dry.inFlight <=> p.inFlight)
  BY <1>7, <1>8 DEF Alike, Socks
<1> HIDE DEF dry
<1>10. Awake(dry, k) /\ Onward(s, dry) /\ (dry.ended <=> p.ended) /\ dry.buffer = p.buffer
  BY <1>6, <1>7, <1>9, AlikeKeeps, OnwardOn DEF Awake, Alike
<1>11. ASSUME NEW w \in Socks, Awake(w, k), Onward(s, w), w.buffer = <<>>, w.ended
       PROVE  Awake(EndReadable(w), k) /\ Onward(s, EndReadable(w)) /\ Stirred(EndReadable(w), k)
  <2> DEFINE u == EndReadable(w)
  <2>1. /\ Ready(u, k) /\ Onward(w, u) /\ (u.endEmitted \/ Comes(u, k, "end"))
        /\ u.buffer = w.buffer /\ u.pending = w.pending /\ u.ended
        /\ (u.reading <=> w.reading) /\ (u.inFlight <=> w.inFlight)
    BY <1>11, EndReadableStirs DEF Awake
  <2> HIDE DEF u
  <2>2. Onward(s, u)
    BY <1>11, <2>1, OnwardOn
  <2>3. Awake(u, k) /\ Stirred(u, k)
    BY <1>11, <2>1 DEF Awake, Stirred, Fed
  <2> QED BY <2>2, <2>3 DEF u
<1>12. CASE s.buffer = <<>> /\ s.ended /\ Took(s) = [state |-> EndReadable(quiet), chunk |-> FALSE]
  BY <1>3, <1>4, <1>5, <1>11, <1>12
<1>13. CASE p.buffer = <<>> /\ p.ended /\ Took(s) = [state |-> EndReadable(dry), chunk |-> FALSE]
  BY <1>8, <1>10, <1>11, <1>13
<1>14. CASE p.buffer = <<>> /\ ~p.ended /\ Took(s) = [state |-> dry, chunk |-> FALSE]
  BY <1>4, <1>6, <1>7, <1>9, <1>10, <1>14 DEF Stirred, Fed
<1>15. ASSUME p.buffer # <<>>
       PROVE  /\ left \in Socks /\ Len(left.buffer) < Len(s.buffer) /\ c \in 1..Sent
              /\ left.pending = <<>> /\ ~left.emittedReadable /\ left.todo = p.todo
              /\ (left.readingMore <=> p.readingMore) /\ (left.resumeScheduled <=> p.resumeScheduled)
              /\ (left.started <=> p.started) /\ (left.sync <=> p.sync) /\ (left.reading <=> p.reading)
              /\ (left.inFlight <=> p.inFlight)
  <2>1. Tail(p.buffer) \in Seq(1..Sent) /\ c \in 1..Sent /\ Len(Tail(p.buffer)) = Len(p.buffer) - 1
        /\ Len(p.buffer) \in Nat
    <3>1. PICK S : S = 1..Sent
      OBVIOUS
    <3>2. p.buffer \in Seq(S) /\ p.buffer # <<>>
      BY <1>7, <1>15, <3>1
    <3>3. Head(p.buffer) \in S /\ Tail(p.buffer) \in Seq(S) /\ Len(Tail(p.buffer)) = Len(p.buffer) - 1
      BY ONLY <3>2, HeadTailProperties
    <3> QED BY <3>1, <3>2, <3>3
  <2> DEFINE rest == Tail(p.buffer)
  <2>2. left = [p EXCEPT !.buffer = rest]
    OBVIOUS
  <2> HIDE DEF left, rest, c
  <2>3. left \in Socks
    BY <1>7, <2>1, <2>2 DEF Socks, rest
  <2>4. left.buffer = rest
    BY <1>7, <2>2, <2>3 DEF Socks
  <2> QED BY <1>7, <2>1, <2>2, <2>3, <2>4 DEF Socks, rest
<1>16. ASSUME p.buffer # <<>>
       PROVE  Awake(left, k) /\ Onward(s, left)
  <2> HIDE DEF left
  <2>1. \A kk, x : Comes(left, kk, x) <=> Comes(p, kk, x)
    BY <1>15, <1>16 DEF Comes
  <2>2. Onward(p, left)
    BY <1>15, <1>16, <2>1, Zenon DEF Onward
  <2>3. Onward(s, left)
    BY <1>7, <2>2, OnwardOn
  <2>4. left.reading => left.inFlight
    BY <1>6, <1>7, <1>15, <1>16 DEF Awake
  <2> QED BY <1>15, <1>16, <2>3, <2>4 DEF Awake, Ready
<1>17. ASSUME p.buffer # <<>>
       PROVE  thirsty \in Socks /\ Awake(thirsty, k) /\ Onward(s, thirsty) /\ thirsty.buffer = left.buffer
  <2> HIDE DEF left
  <2>1. left \in Socks
    BY <1>15, <1>17
  <2>2. thirsty \in Socks
    BY <2>1 DEF Socks
  <2>3. Alike(left, thirsty) /\ (thirsty.sync <=> left.sync) /\ (thirsty.reading <=> left.reading)
        /\ (thirsty.inFlight <=> left.inFlight)
    BY <2>1, <2>2 DEF Alike, Socks
  <2> HIDE DEF thirsty
  <2>4. Ready(thirsty, k) /\ Onward(left, thirsty)
    BY <1>16, <1>17, <2>3, AlikeKeeps DEF Awake
  <2> QED BY <1>16, <1>17, <2>2, <2>3, <2>4, OnwardOn DEF Awake, Alike
<1> HIDE DEF left, thirsty, c
<1>18. ASSUME p.buffer # <<>>, left.ended
       PROVE  /\ EndReadable(left) \in Socks /\ Awake(EndReadable(left), k) /\ Onward(s, EndReadable(left))
              /\ EndReadable(left).buffer = left.buffer
  <2> DEFINE u == EndReadable(left)
  <2>1. /\ Ready(u, k) /\ Onward(left, u) /\ u \in Socks
        /\ u.buffer = left.buffer /\ u.pending = left.pending
        /\ (u.reading <=> left.reading) /\ (u.inFlight <=> left.inFlight)
    BY <1>15, <1>16, <1>18, EndReadableStirs DEF Awake
  <2> HIDE DEF u
  <2> QED BY <1>16, <1>18, <2>1, OnwardOn DEF Awake, u
<1>19. ASSUME p.buffer # <<>>, NEW w \in Socks, Awake(w, k), Onward(s, w), w.buffer = left.buffer,
              Took(s) = [state |-> Emit(w, c), chunk |-> TRUE]
       PROVE  Awake(Took(s).state, k) /\ Onward(s, Took(s).state) /\ Took(s).chunk
              /\ Len(Took(s).state.buffer) < Len(s.buffer)
  <2> DEFINE u == Emit(w, c)
  <2>1. Awake(u, k) /\ Onward(w, u) /\ u.buffer = w.buffer
    BY <1>15, <1>19, EmitStirs
  <2> HIDE DEF u
  <2>2. Onward(s, u) /\ Len(u.buffer) < Len(s.buffer)
    BY <1>15, <1>19, <2>1, OnwardOn
  <2>3. Took(s) = [state |-> u, chunk |-> TRUE]
    BY <1>19 DEF u
  <2> QED BY <2>1, <2>2, <2>3
<1>20. CASE p.buffer # <<>> /\ Took(s) = [state |-> Emit(left, c), chunk |-> TRUE]
  BY <1>15, <1>16, <1>19, <1>20
<1>21. CASE p.buffer # <<>> /\ left.ended /\ Took(s) = [state |-> Emit(EndReadable(left), c), chunk |-> TRUE]
  BY <1>18, <1>19, <1>21
<1>22. CASE p.buffer # <<>> /\ Took(s) = [state |-> Emit(thirsty, c), chunk |-> TRUE]
  BY <1>17, <1>19, <1>22
<1> QED BY <1>1, <1>12, <1>13, <1>14, <1>20, <1>21, <1>22

\* flow() takes chunks until there is none, or a listener has paused the socket.
LEMMA FlowStirs ==
  ASSUME NEW s, NEW n, NEW over, NEW k, ReaderOK(s, n, over), Awake(s, k)
  PROVE  Awake(Flow(s), k) /\ Onward(s, Flow(s)) /\ Stirred(Flow(s), k)
<1> DEFINE most == Len(s.buffer) + Len(s.pending) + 1
           G == {took \in Flows(s, n, over) :
                    Awake(took.state, k) /\ Onward(s, took.state) /\ (took.chunk \/ Stirred(took.state, k))}
           first == [state |-> s, chunk |-> TRUE]
<1>1. PICK f : /\ f[0] = first
               /\ \A i \in Nat \ {0} : f[i] = FlowRound(f[i - 1])
               /\ \A i \in Nat : f[i] \in Flows(s, n, over)
               /\ Flow(s) = f[most].state
  BY FlowLoop
<1>2. Len(s.buffer) \in Nat /\ Len(s.pending) \in Nat /\ most \in Nat /\ most > Len(s.buffer)
  BY DEF ReaderOK, Socks
<1>3. ASSUME NEW took \in G, took.chunk, took.state.flowing = "yes"
      PROVE  LET t == Took(took.state)
             IN  /\ Awake(t.state, k) /\ Onward(s, t.state) /\ (t.chunk \/ Stirred(t.state, k))
                 /\ t.chunk => Len(t.state.buffer) < Len(took.state.buffer)
  <2>1. ReaderOK(took.state, n, over) /\ Awake(took.state, k) /\ Onward(s, took.state)
    BY <1>3 DEF Flows
  <2> DEFINE t == Took(took.state)
  <2>2. /\ Awake(t.state, k) /\ Onward(took.state, t.state) /\ (~t.chunk => Stirred(t.state, k))
        /\ t.chunk => Len(t.state.buffer) < Len(took.state.buffer)
    BY <1>3, <2>1, TookStirs
  <2> HIDE DEF t
  <2>3. Onward(s, t.state)
    BY <2>1, <2>2, OnwardOn
  <2> QED BY <2>2, <2>3 DEF t
<1>4. ASSUME NEW i \in Nat \ {0}, f[i - 1] \in G PROVE f[i] \in G
  <2>1. f[i] = FlowRound(f[i - 1]) /\ f[i] \in Flows(s, n, over)
    BY <1>1
  <2>2. CASE f[i - 1].chunk /\ f[i - 1].state.flowing = "yes"
    BY <1>3, <1>4, <2>1, <2>2 DEF FlowRound
  <2>3. CASE ~(f[i - 1].chunk /\ f[i - 1].state.flowing = "yes")
    BY <1>4, <2>1, <2>3 DEF FlowRound
  <2> QED BY <2>2, <2>3
<1>5. f[0] \in G
  <2>1. first.state = s /\ first.chunk
    OBVIOUS
  <2>2. f[0] \in Flows(s, n, over)
    BY <1>1
  <2> HIDE DEF first
  <2> QED BY <1>1, <2>1, <2>2, OnwardItself
<1> HIDE DEF first, G, most
<1>6. \A i \in Nat : f[i] \in G
  BY ONLY <1>4, <1>5, LoopStays
<1> DEFINE Over(i) == ~f[i].chunk \/ f[i].state.flowing # "yes"
           T == {i \in Nat : Over(i) \/ Len(f[i].state.buffer) + i <= Len(s.buffer)}
<1>7. 0 \in T
  BY <1>1, <1>2 DEF first
<1>8. ASSUME NEW i \in Nat, i \in T PROVE i + 1 \in T
  <2>1. i + 1 \in Nat \ {0} /\ (i + 1) - 1 = i
    OBVIOUS
  <2>2. f[i + 1] = FlowRound(f[i]) /\ f[i] \in G /\ f[i + 1] \in Flows(s, n, over) /\ f[i] \in Flows(s, n, over)
    BY <1>1, <1>6, <2>1
  <2>3. CASE Over(i)
    BY <2>2, <2>3 DEF FlowRound
  <2>4. CASE ~Over(i)
    <3>1. f[i + 1] = Took(f[i].state)
      BY <2>2, <2>4 DEF FlowRound
    <3>2. f[i + 1].chunk => Len(f[i + 1].state.buffer) < Len(f[i].state.buffer)
      BY <1>3, <2>2, <2>4, <3>1
    <3>3. Len(f[i + 1].state.buffer) \in Nat /\ Len(f[i].state.buffer) \in Nat
      BY <2>2 DEF Flows, Socks
    <3>4. Len(f[i].state.buffer) + i <= Len(s.buffer)
      BY <1>8, <2>4
    <3>5. f[i + 1].chunk => Len(f[i + 1].state.buffer) + (i + 1) <= Len(s.buffer)
      <4>1. PICK a \in Nat, b \in Nat, c \in Nat : a = Len(f[i + 1].state.buffer) /\ b = Len(f[i].state.buffer) /\ c = Len(s.buffer)
        BY <1>2, <3>3
      <4>2. b + i <= c /\ (f[i + 1].chunk => a < b)
        BY <3>2, <3>4, <4>1
      <4>3. a < b => a + (i + 1) <= c
        BY <4>2
      <4> QED BY <4>1, <4>2, <4>3
    <3>6. i + 1 \in Nat
      OBVIOUS
    <3> QED BY <3>5, <3>6, Zenon
  <2> QED BY <2>3, <2>4
<1> HIDE DEF T
<1>9. \A i \in Nat : i \in T
  BY <1>7, <1>8, CountingUp
<1>10. Over(most)
  BY <1>1, <1>2, <1>9 DEF Flows, Socks, T
<1>11. f[most] \in G
  BY <1>2, <1>6
<1>12. f[most].state.flowing # "yes" => Stirred(f[most].state, k)
  BY DEF Stirred, Fed
<1> QED BY <1>1, <1>10, <1>11, <1>12 DEF G

\* emitReadable_ at its tick: it flows, and what is in the buffer goes.
LEMMA EmitReadableNowStirs ==
  ASSUME NEW s, NEW n, NEW over, NEW k, ReaderOK(s, n, over),
         s.emittedReadable => s.buffer # <<>> \/ s.ended, s.pending # <<>> => s.netPaused,
         s.reading => s.inFlight \/ s.pending # <<>>
  PROVE  LET t == EmitReadableNow(s) IN Awake(t, k) /\ Onward(s, t) /\ Stirred(t, k)
<1> DEFINE quiet == [s EXCEPT !.emittedReadable = FALSE]
           told == IF s.buffer # <<>> \/ s.ended THEN quiet ELSE s
           need == told.flowing # "yes" /\ ~told.ended /\ Len(told.buffer) <= HighWaterMark
           t == [told EXCEPT !.needReadable = need]
<1>1. EmitReadableNow(s) = Flow(t)
  BY DEF EmitReadableNow
<1>2. s \in Socks /\ need \in BOOLEAN
  BY DEF ReaderOK
<1> HIDE DEF need
<1>3. quiet \in Socks
  BY <1>2 DEF Socks
<1>4. /\ Calm(s, quiet) /\ ~quiet.emittedReadable /\ quiet.todo = s.todo
      /\ (quiet.readingMore <=> s.readingMore) /\ (quiet.resumeScheduled <=> s.resumeScheduled)
      /\ (quiet.started <=> s.started) /\ (quiet.sync <=> s.sync) /\ (quiet.reading <=> s.reading)
  BY <1>2, <1>3 DEF Calm, Socks
<1>5. /\ Calm(s, told) /\ ~told.emittedReadable /\ told.todo = s.todo
      /\ (told.readingMore <=> s.readingMore) /\ (told.resumeScheduled <=> s.resumeScheduled)
      /\ (told.started <=> s.started) /\ (told.sync <=> s.sync) /\ (told.reading <=> s.reading)
  BY <1>2, <1>4, CalmItself
<1> HIDE DEF told
<1>6. told \in Socks
  BY <1>5 DEF Calm
<1>7. t \in Socks
  BY <1>2, <1>6 DEF Socks
<1>8. /\ Calm(told, t) /\ ~t.emittedReadable /\ t.todo = told.todo
      /\ (t.readingMore <=> told.readingMore) /\ (t.resumeScheduled <=> told.resumeScheduled)
      /\ (t.started <=> told.started) /\ (t.sync <=> told.sync) /\ (t.reading <=> told.reading)
  BY <1>5, <1>6, <1>7 DEF Calm, Socks
<1> HIDE DEF t
<1>9. ReaderOK(t, n, over) /\ Calm(s, t)
  BY <1>5, <1>8, CalmOn, CalmIsOK
<1>10. \A kk, x : Comes(t, kk, x) <=> Comes(s, kk, x)
  BY <1>5, <1>8 DEF Comes
<1>11. Onward(s, t)
  BY <1>5, <1>8, <1>10, Zenon DEF Onward
<1>12. Awake(t, k)
  BY <1>5, <1>8, <1>9 DEF Calm, Awake, Ready
<1>13. Awake(Flow(t), k) /\ Onward(t, Flow(t)) /\ Stirred(Flow(t), k)
  BY <1>9, <1>12, FlowStirs
<1> QED BY <1>1, <1>11, <1>13, OnwardOn

\* push(null) of a socket that nothing is put aside of: what is left is handed out, then 'end'.
LEMMA PushEofStirs ==
  ASSUME NEW s, NEW n, NEW over, NEW k, ReaderOK(s, n, over), over, s.pending = <<>>, Ready(s, k), ~s.sync,
         s.ended => Fed(s, k)
  PROVE  LET t == PushEof(s) IN Awake(t, k) /\ Onward(s, t) /\ Stirred(t, k)
<1>1. s \in Socks
  BY DEF ReaderOK
<1>2. CASE s.ended
  <2> DEFINE off == [s EXCEPT !.reading = FALSE]
  <2>1. PushEof(s) = off
    BY <1>2 DEF PushEof, EofInRead
  <2>2. off \in Socks
    BY <1>1 DEF Socks
  <2>3. Alike(s, off) /\ ~off.reading /\ (off.sync <=> s.sync) /\ off.ended
    BY <1>1, <1>2, <2>2 DEF Alike, Socks
  <2> HIDE DEF off
  <2>4. Ready(off, k) /\ Fed(off, k) /\ Onward(s, off)
    BY <1>2, <2>3, AlikeKeeps
  <2> QED BY <2>1, <2>3, <2>4 DEF Awake, Stirred
<1>3. CASE ~s.ended
  <2> DEFINE last == [s EXCEPT !.reading = FALSE, !.ended = TRUE, !.needReadable = FALSE, !.emittedReadable = TRUE]
  <2>1. PushEof(s) = EmitReadableNow(last)
    BY <1>3 DEF PushEof
  <2>2. last \in Socks
    BY <1>1 DEF Socks
  <2>3. /\ last.data = s.data /\ last.buffer = s.buffer /\ last.pending = s.pending
        /\ last.loops = s.loops /\ last.token = s.token /\ (last.inFlight <=> s.inFlight)
        /\ (last.netPaused <=> s.netPaused) /\ last.flowing = s.flowing /\ last.ended
        /\ (last.readingMore <=> s.readingMore) /\ (last.resumeScheduled <=> s.resumeScheduled)
        /\ (last.started <=> s.started) /\ (last.sync <=> s.sync) /\ ~last.reading /\ last.todo = s.todo
    BY <1>1, <2>2 DEF Socks
  <2> HIDE DEF last
  <2>4. LineOK(last, n) /\ LoopOK(last) /\ LastOK(last, over)
    BY <2>3 DEF ReaderOK, LineOK, LoopOK, LastOK
  <2>5. ReaderOK(last, n, over)
    BY <2>2, <2>4 DEF ReaderOK
  <2>6. \A kk, x : Comes(last, kk, x) <=> Comes(s, kk, x)
    BY <2>3 DEF Comes
  <2>7. Onward(s, last)
    BY <2>3, <2>6, Zenon DEF Onward
  <2> DEFINE t == EmitReadableNow(last)
  <2>8. Awake(t, k) /\ Onward(last, t) /\ Stirred(t, k)
    BY <2>3, <2>5, EmitReadableNowStirs
  <2> QED BY <2>1, <2>7, <2>8, OnwardOn
<1> QED BY <1>2, <1>3

\* A round of maybeReadMore_ reads, unless a native read is in flight or there is enough.
LEMMA MoreRoundStirs ==
  ASSUME NEW s, NEW n, NEW over, NEW m \in Mores(s, n, over), NEW k,
         Awake(m.state, k), Fed(m.state, k), m.on \/ Stirred(m.state, k)
  PROVE  LET t == MoreRound(m).state IN Awake(t, k) /\ Onward(m.state, t) /\ Stirred(t, k)
<1> DEFINE u == m.state
           z == ReadZero(u)
<1>1. ReaderOK(u, n, over)
  BY DEF Mores
<1>2. CASE m.on /\ Wants(u)
  <2>1. MoreRound(m) = [state |-> z, on |-> Len(z.buffer) # Len(u.buffer)]
    BY <1>2 DEF MoreRound
  <2>2. Awake(z, k) /\ Onward(u, z) /\ Stirred(z, k)
    BY <1>1, ReadZeroStirs
  <2> HIDE DEF z
  <2> QED BY <2>1, <2>2
<1>3. CASE ~(m.on /\ Wants(u))
  <2>1. MoreRound(m) = m
    BY <1>3 DEF MoreRound
  <2>2. CASE m.on
    BY <1>1, <1>3, <2>1, <2>2, OnwardItself DEF Wants, ReaderOK, LastOK, Awake, Ready, Stirred
  <2>3. CASE ~m.on
    BY <2>1, <2>3, OnwardItself
  <2> QED BY <2>2, <2>3
<1> QED BY <1>2, <1>3

LEMMA ReadMoreStirs ==
  ASSUME NEW s, NEW n, NEW over, NEW k, ReaderOK(s, n, over), Awake(s, k), Fed(s, k)
  PROVE  LET t == ReadMore(s) IN Awake(t, k) /\ Onward(s, t) /\ Stirred(t, k)
<1> DEFINE G == {m \in Mores(s, n, over) :
                    /\ Awake(m.state, k) /\ Fed(m.state, k) /\ Onward(s, m.state)
                    /\ m.on \/ Stirred(m.state, k)}
           first == [state |-> s, on |-> TRUE]
           most == Len(s.pending) + 1
<1>1. PICK f : /\ f[0] = first
               /\ \A i \in Nat \ {0} : f[i] = MoreRound(f[i - 1])
               /\ \A i \in Nat : f[i] \in Mores(s, n, over)
               /\ ReadMore(s) = f[most].state
  BY MoreLoop
<1>2. most \in Nat \ {0} /\ most - 1 \in Nat
  BY DEF ReaderOK, Socks
<1>3. ASSUME NEW i \in Nat \ {0}, f[i - 1] \in G PROVE f[i] \in G /\ Stirred(f[i].state, k)
  <2> DEFINE m == f[i - 1]
  <2>1. f[i] = MoreRound(m) /\ f[i] \in Mores(s, n, over)
    BY <1>1
  <2>2. /\ m \in Mores(s, n, over) /\ Awake(m.state, k) /\ Fed(m.state, k) /\ Onward(s, m.state)
        /\ m.on \/ Stirred(m.state, k)
    BY <1>3
  <2> HIDE DEF m
  <2>3. Awake(f[i].state, k) /\ Onward(m.state, f[i].state) /\ Stirred(f[i].state, k)
    BY <2>1, <2>2, MoreRoundStirs
  <2>4. Fed(f[i].state, k) /\ Onward(s, f[i].state)
    BY <2>2, <2>3, OnwardOn DEF Stirred
  <2> QED BY <2>1, <2>3, <2>4
<1>4. f[0] \in G
  <2>1. first.state = s /\ first.on
    OBVIOUS
  <2>2. f[0] \in Mores(s, n, over)
    BY <1>1
  <2> HIDE DEF first
  <2> QED BY <1>1, <2>1, <2>2, OnwardItself
<1>5. \A i \in Nat \ {0} : f[i - 1] \in G => f[i] \in G
  BY <1>3
<1> HIDE DEF G, first, most
<1>6. \A i \in Nat : f[i] \in G
  BY ONLY <1>4, <1>5, LoopStays
<1>7. f[most] \in G /\ Stirred(f[most].state, k)
  BY <1>2, <1>3, <1>6
<1> QED BY <1>1, <1>7 DEF G

\* resume_ at its tick: it reads and flows.
LEMMA ResumeNowStirs ==
  ASSUME NEW s, NEW n, NEW over, NEW k, ReaderOK(s, n, over), Awake(s, k)
  PROVE  LET t == ResumeNow(s) IN Awake(t, k) /\ Onward(s, t) /\ Stirred(t, k) /\ ~t.resumeScheduled
<1> DEFINE asked == IF s.reading THEN s ELSE ReadZero(s)
           t == [asked EXCEPT !.resumeScheduled = FALSE]
           flowed == Flow(t)
<1>1. \/ ResumeNow(s) = flowed
      \/ ResumeNow(s) = ReadZero(flowed)
  BY DEF ResumeNow
<1>2. ReaderOK(asked, n, over) /\ Awake(asked, k) /\ Onward(s, asked)
  BY ReadZeroIsOK, ReadZeroStirs, OnwardItself
<1> HIDE DEF asked
<1>3. asked \in Socks
  BY <1>2 DEF ReaderOK
<1>4. t \in Socks
  BY <1>3 DEF Socks
<1>5. /\ Calm(asked, t) /\ (t.emittedReadable <=> asked.emittedReadable) /\ t.todo = asked.todo
      /\ (t.readingMore <=> asked.readingMore) /\ ~t.resumeScheduled
      /\ (t.started <=> asked.started) /\ (t.sync <=> asked.sync) /\ (t.reading <=> asked.reading)
  BY <1>3, <1>4 DEF Calm, Socks
<1> HIDE DEF t
<1>6. \A kk, x : Comes(t, kk, x) <=> Comes(asked, kk, x)
  BY <1>5 DEF Comes
<1>7. Onward(asked, t)
  BY <1>5, <1>6, Zenon DEF Onward
<1>8. Awake(t, k)
  <2>1. t.buffer = asked.buffer /\ t.pending = asked.pending /\ (t.ended <=> asked.ended)
        /\ (t.netPaused <=> asked.netPaused) /\ (t.inFlight <=> asked.inFlight)
    BY <1>5 DEF Calm
  <2> QED BY <1>2, <1>5, <1>6, <2>1, Zenon DEF Awake, Ready
<1>9. ReaderOK(t, n, over)
  BY <1>2, <1>5, CalmIsOK
<1>10. ReaderOK(flowed, n, over) /\ Awake(flowed, k) /\ Onward(t, flowed) /\ Stirred(flowed, k)
  BY <1>8, <1>9, FlowIsOK, FlowStirs
<1> HIDE DEF flowed
<1>11. Awake(ReadZero(flowed), k) /\ Onward(flowed, ReadZero(flowed)) /\ Stirred(ReadZero(flowed), k)
  BY <1>10, ReadZeroStirs DEF Stirred
<1> DEFINE u == ResumeNow(s)
<1>12. Awake(u, k) /\ Onward(t, u) /\ Stirred(u, k)
  BY <1>1, <1>10, <1>11, OnwardOn
<1> HIDE DEF u
<1>13. Onward(s, u)
  BY <1>2, <1>7, <1>12, OnwardOn
<1>14. ~u.resumeScheduled
  BY <1>5, <1>12 DEF Onward
<1> QED BY <1>12, <1>13, <1>14 DEF u

\* maybeReadMore() has been called: its tick comes.
LEMMA MaybeReadMoreStirs ==
  ASSUME NEW s \in Socks, NEW k, Awake(s, k), Fed(s, k), s.readingMore => Comes(s, k, "more")
  PROVE  LET t == MaybeReadMore(s) IN Awake(t, k) /\ Onward(s, t) /\ Stirred(t, k)
<1> DEFINE told == [s EXCEPT !.readingMore = TRUE]
           u == ReadTick(told, "more")
<1>1. MaybeReadMore(s) = IF s.readingMore THEN s ELSE u
  BY DEF MaybeReadMore
<1>2. told \in Socks
  BY DEF Socks
<1>3. /\ told.buffer = s.buffer /\ told.pending = s.pending /\ told.flowing = s.flowing
      /\ (told.ended <=> s.ended) /\ (told.endEmitted <=> s.endEmitted) /\ (told.netPaused <=> s.netPaused)
      /\ (told.emittedReadable <=> s.emittedReadable) /\ (told.resumeScheduled <=> s.resumeScheduled)
      /\ (told.started <=> s.started) /\ told.todo = s.todo /\ (told.reading <=> s.reading)
      /\ (told.sync <=> s.sync) /\ (told.inFlight <=> s.inFlight)
  BY <1>2 DEF Socks
<1> HIDE DEF told
<1>4. Asks(told, u, "more") /\ Onward(told, u) /\ \A kk : Comes(u, kk, "more")
  BY <1>2, ReadTickAsks DEF ReadTicks
<1> HIDE DEF u
<1>5. CASE s.readingMore
  BY <1>1, <1>5, OnwardItself DEF Stirred
<1>6. CASE ~s.readingMore
  <2>1. MaybeReadMore(s) = u
    BY <1>1, <1>6
  <2>2. \A kk, x : Comes(s, kk, x) => Comes(u, kk, x)
    BY <1>3, <1>4 DEF Comes, Onward
  <2>3. Onward(s, u)
    BY <1>3, <1>4, <2>2, Zenon DEF Onward, Asks
  <2>4. Awake(u, k)
    BY <1>3, <1>4, <2>2, Zenon DEF Awake, Ready, Asks
  <2>5. Fed(u, k)
    BY <1>3, <1>4, <2>2, Zenon DEF Fed, Asks
  <2> QED BY <1>4, <2>1, <2>3, <2>4, <2>5 DEF Stirred
<1> QED BY <1>5, <1>6

\* A chunk that is pushed reaches the listener at once, or a tick takes it.
LEMMA PushChunkStirs ==
  ASSUME NEW s, NEW c, NEW n, NEW k, InHand(s, c, n), Ready(s, k), ~s.sync,
         s.flowing = "yes" /\ s.buffer # <<>> => Comes(s, k, "readable") \/ Comes(s, k, "resume"),
         s.readingMore => Comes(s, k, "more")
  PROVE  LET t == PushChunk(s, c) IN Awake(t, k) /\ Onward(s, t) /\ Stirred(t, k)
<1> DEFINE off == [s EXCEPT !.reading = FALSE]
           kept == [off EXCEPT !.buffer = Append(off.buffer, c)]
<1>1. s \in Socks /\ c \in 1..Sent /\ ~s.ended
  BY DEF InHand
<1>2. off \in Socks
  BY <1>1 DEF Socks
<1>3. Alike(s, off) /\ ~off.reading /\ (off.sync <=> s.sync)
  BY <1>1, <1>2 DEF Alike, Socks
<1>4. PushChunk(s, c) = AddChunk(off, c)
  BY DEF PushChunk
<1> HIDE DEF off
<1>5. Ready(off, k) /\ Onward(s, off) /\ Awake(off, k)
  BY <1>3, AlikeKeeps DEF Awake
<1>6. /\ off.flowing = s.flowing /\ off.buffer = s.buffer /\ ~off.sync /\ ~off.ended
      /\ (off.readingMore <=> s.readingMore)
  BY <1>1, <1>3 DEF Alike
<1>7. SUFFICES ASSUME NEW u \in Socks, Awake(u, k), Fed(u, k), Onward(s, u), AddChunk(off, c) = MaybeReadMore(u)
               PROVE  LET t == AddChunk(off, c) IN Awake(t, k) /\ Onward(s, t) /\ Stirred(t, k)
  <2>1. CASE off.flowing = "yes" /\ off.buffer = <<>> /\ ~off.sync
    <3> DEFINE u == Emit(off, c)
    <3>1. AddChunk(off, c) = MaybeReadMore(u)
      BY <2>1 DEF AddChunk
    <3>2. u \in Socks /\ Awake(u, k) /\ Onward(off, u) /\ u.buffer = off.buffer /\ (u.ended <=> off.ended)
      BY <1>1, <1>2, <1>5, EmitStirs
    <3> HIDE DEF u
    <3>3. Fed(u, k)
      BY <1>6, <2>1, <3>2 DEF Fed
    <3>4. Onward(s, u)
      BY <1>5, <3>2, OnwardOn
    <3> QED BY <1>4, <1>7, <3>1, <3>2, <3>3, <3>4
  <2>2. CASE ~(off.flowing = "yes" /\ off.buffer = <<>> /\ ~off.sync)
    <3>1. AddChunk(off, c) = MaybeReadMore(kept) \/ AddChunk(off, c) = MaybeReadMore(EmitReadable(kept))
      BY <2>2 DEF AddChunk
    <3>2. Append(off.buffer, c) \in Seq(1..Sent) /\ Append(off.buffer, c) # <<>>
      <4>1. off.buffer \in Seq(1..Sent)
        BY <1>2 DEF Socks
      <4>2. Len(Append(off.buffer, c)) = Len(off.buffer) + 1 /\ Len(off.buffer) \in Nat
        BY <4>1
      <4>3. Append(off.buffer, c) # <<>>
        BY <4>2
      <4> QED BY <1>1, <4>1, <4>3
    <3>3. kept \in Socks
      BY <1>2, <3>2 DEF Socks
    <3>4. /\ kept.buffer # <<>> /\ kept.pending = off.pending /\ kept.flowing = off.flowing
          /\ (kept.netPaused <=> off.netPaused)
          /\ (kept.emittedReadable <=> off.emittedReadable) /\ (kept.readingMore <=> off.readingMore)
          /\ (kept.resumeScheduled <=> off.resumeScheduled) /\ (kept.started <=> off.started) /\ kept.todo = off.todo
          /\ (kept.sync <=> off.sync) /\ ~kept.reading
      BY <1>2, <1>3, <3>2, <3>3 DEF Socks
    <3> HIDE DEF kept
    <3>5. \A kk, x : Comes(kept, kk, x) <=> Comes(off, kk, x)
      BY <3>4 DEF Comes
    <3>6. Ready(kept, k) /\ Awake(kept, k) /\ Onward(off, kept)
      <4>1. Ready(kept, k)
        BY <1>5, <3>4, <3>5, Zenon DEF Ready
      <4>2. Onward(off, kept)
        BY <3>4, <3>5, Zenon DEF Onward
      <4> QED BY <3>4, <4>1, <4>2 DEF Awake
    <3>7. Onward(s, kept)
      BY <1>5, <3>6, OnwardOn
    <3>8. Fed(kept, k)
      BY <1>6, <2>2, <3>4, <3>7 DEF Fed, Onward
    <3> DEFINE u == EmitReadable(kept)
    <3>9. Ready(u, k) /\ Onward(kept, u) /\ Comes(u, k, "readable") /\ u \in Socks /\ (u.reading <=> kept.reading)
      BY <3>3, <3>4, <3>6, EmitReadableStirs
    <3>10. Awake(u, k) /\ Fed(u, k) /\ Onward(s, u)
      <4> HIDE DEF u
      <4> QED BY <3>4, <3>7, <3>9, OnwardOn DEF Awake, Fed
    <3> QED BY <1>4, <1>7, <3>1, <3>3, <3>6, <3>7, <3>8, <3>9, <3>10
  <2> QED BY <2>1, <2>2
<1>8. u.readingMore => Comes(u, k, "more")
  BY <1>7 DEF Onward
<1> DEFINE t == MaybeReadMore(u)
<1>9. Awake(t, k) /\ Onward(u, t) /\ Stirred(t, k)
  BY <1>7, <1>8, MaybeReadMoreStirs
<1> QED BY <1>7, <1>9, OnwardOn

\* Readable.resume: its tick comes if one was asked for.
LEMMA ResumedStirs ==
  ASSUME NEW s \in Socks, NEW k, s.resumeScheduled => Comes(s, k, "resume"), s.flowing # "yes"
  PROVE  LET t == Resumed(s)
         IN  /\ Comes(t, k, "resume") /\ t \in Socks /\ \A x : Comes(s, k, x) => Comes(t, k, x)
             /\ t.buffer = s.buffer /\ t.pending = s.pending
             /\ (t.ended <=> s.ended) /\ (t.emittedReadable <=> s.emittedReadable)
             /\ (t.readingMore <=> s.readingMore) /\ (t.started <=> s.started) /\ (t.reading <=> s.reading)
             /\ (t.sync <=> s.sync) /\ (t.inFlight <=> s.inFlight) /\ (t.netPaused <=> s.netPaused)
<1> DEFINE on == [s EXCEPT !.flowing = "yes"]
           told == [on EXCEPT !.resumeScheduled = TRUE]
           u == ReadTick(told, "resume")
<1>1. on \in Socks
  BY DEF Socks, Flowing
<1>2. /\ on.buffer = s.buffer /\ on.pending = s.pending /\ on.todo = s.todo
      /\ (on.ended <=> s.ended) /\ (on.emittedReadable <=> s.emittedReadable)
      /\ (on.readingMore <=> s.readingMore) /\ (on.started <=> s.started) /\ (on.reading <=> s.reading)
      /\ (on.sync <=> s.sync) /\ (on.inFlight <=> s.inFlight) /\ (on.netPaused <=> s.netPaused)
  BY <1>1 DEF Socks
<1>3. Resumed(s) = IF s.resumeScheduled THEN on ELSE u
  BY DEF Resumed
<1> HIDE DEF on
<1>4. told \in Socks
  BY <1>1 DEF Socks
<1>5. /\ told.buffer = on.buffer /\ told.pending = on.pending /\ told.todo = on.todo
      /\ (told.ended <=> on.ended) /\ (told.emittedReadable <=> on.emittedReadable)
      /\ (told.readingMore <=> on.readingMore) /\ (told.started <=> on.started) /\ (told.reading <=> on.reading)
      /\ (told.sync <=> on.sync) /\ (told.inFlight <=> on.inFlight) /\ (told.netPaused <=> on.netPaused)
  BY <1>1, <1>4 DEF Socks
<1> HIDE DEF told
<1>6. Asks(told, u, "resume") /\ Onward(told, u) /\ Comes(u, k, "resume")
  BY <1>4, ReadTickAsks DEF ReadTicks
<1> HIDE DEF u
<1>7. \A x : (Comes(on, k, x) <=> Comes(s, k, x)) /\ (Comes(told, k, x) <=> Comes(s, k, x))
  BY <1>2, <1>5 DEF Comes
<1>8. CASE s.resumeScheduled
  BY <1>1, <1>2, <1>3, <1>7, <1>8
<1>9. CASE ~s.resumeScheduled
  BY <1>2, <1>3, <1>5, <1>6, <1>7, <1>9 DEF Onward, Asks
<1> QED BY <1>8, <1>9

\* One chunk was put aside, or the FIN: a socket that is not paused any more drains it in one
\* round.
LEMMA DrainedInOne ==
  ASSUME NEW s, NEW n, NEW over, ReaderOK(s, n, over), NEW c, s.pending = <<c>>, ~s.netPaused
  PROVE  Drained(s) = DrainOne(s)
<1>1. PICK f : /\ f[0] = [state |-> s, fin |-> FALSE, on |-> TRUE]
               /\ \A i \in Nat \ {0} : f[i] = DrainRound(f[i - 1])
               /\ Drained(s) = f[Len(s.pending)]
  BY DrainLoop
<1>2. Len(s.pending) = 1 /\ s.pending # <<>>
  OBVIOUS
<1>3. f[1] = DrainRound(f[0])
  BY <1>1
<1> QED BY <1>1, <1>2, <1>3 DEF DrainRound

\* What Socket.resume does after it leaves nothing aside and the socket awake.
LEMMA AfterResumeStirs ==
  ASSUME NEW s, NEW n, NEW over, NEW k, ReaderOK(s, n, over), ~s.netPaused, ~s.sync,
         s.emittedReadable => Comes(s, k, "readable") /\ (s.buffer # <<>> \/ s.ended),
         s.reading => s.inFlight \/ s.pending # <<>>, Comes(s, k, "resume"),
         s.readingMore => Comes(s, k, "more")
  PROVE  LET t == AfterResume(s) IN Awake(t, k) /\ Onward(s, t) /\ Stirred(t, k)
<1>1. s \in Socks
  BY DEF ReaderOK
<1> DEFINE d == Drained(s)
           after == IF d.fin THEN PushEof(d.state) ELSE d.state
<1>2. AfterResume(s) = after \/ AfterResume(s) = ReadZero(after)
  BY DEF AfterResume
<1>3. SUFFICES ASSUME NEW u, ReaderOK(u, n, over), Awake(u, k), Onward(s, u), Stirred(u, k), after = u
               PROVE  LET t == AfterResume(s) IN Awake(t, k) /\ Onward(s, t) /\ Stirred(t, k)
  <2>0. ReaderOK(after, n, over)
    <3>1. d \in Drains(s, n, over)
      BY DrainedIsOK
    <3> HIDE DEF d
    <3>2. ReaderOK(d.state, n, over) /\ (d.fin => over /\ d.state.pending = <<>>)
      BY <3>1 DEF Drains
    <3> QED BY <3>2, PushEofIsOK
  <2>1. CASE s.pending = <<>>
    BY <1>3, <2>1, NothingDrained, OnwardItself DEF Awake, Ready, Stirred, Fed
  <2>2. ASSUME NEW c \in 0..Sent, s.pending = <<c>>
        PROVE  Awake(after, k) /\ Onward(s, after) /\ Stirred(after, k)
    <3> DEFINE rest == [s EXCEPT !.pending = <<>>]
    <3>1. d = DrainOne(s) /\ Head(s.pending) = c /\ Tail(s.pending) = <<>>
      BY <2>2, DrainedInOne
    <3>2. rest \in Socks
      <4>1. <<>> \in Seq(0..Sent)
        OBVIOUS
      <4> QED BY <1>1, <4>1 DEF Socks
    <3>3. /\ rest.data = s.data /\ rest.buffer = s.buffer /\ rest.pending = <<>>
          /\ rest.loops = s.loops /\ rest.token = s.token /\ (rest.inFlight <=> s.inFlight)
          /\ (rest.ended <=> s.ended) /\ (rest.netPaused <=> s.netPaused) /\ rest.flowing = s.flowing
          /\ (rest.readingMore <=> s.readingMore) /\ (rest.resumeScheduled <=> s.resumeScheduled)
          /\ (rest.started <=> s.started) /\ (rest.sync <=> s.sync)
          /\ (rest.emittedReadable <=> s.emittedReadable) /\ rest.todo = s.todo
      BY <1>1, <3>2 DEF Socks
    <3>4. c # FIN => InHand(rest, c, n)
      BY <2>2, ChunkInHand
    <3>5. CASE c = FIN
      <4>1. d = [state |-> rest, fin |-> TRUE, on |-> FALSE]
        BY <3>1, <3>5 DEF DrainOne
      <4> HIDE DEF d
      <4>2. after = PushEof(rest)
        BY <4>1
      <4>3. d \in Drains(s, n, over)
        BY DrainedIsOK DEF d
      <4> HIDE DEF rest, after
      <4>4. ReaderOK(rest, n, over) /\ over
        BY <4>1, <4>3 DEF Drains
      <4>5. \A kk, x : Comes(rest, kk, x) <=> Comes(s, kk, x)
        BY <3>3 DEF Comes
      <4>6. Onward(s, rest)
        BY <3>3, <4>5, Zenon DEF Onward
      <4>7. Ready(rest, k) /\ Fed(rest, k)
        BY <3>3, <4>5 DEF Ready, Fed
      <4> DEFINE u == PushEof(rest)
      <4>8. Awake(u, k) /\ Onward(rest, u) /\ Stirred(u, k)
        BY <3>3, <4>4, <4>7, PushEofStirs
      <4> QED BY <4>2, <4>6, <4>8, OnwardOn
    <3>6. CASE c # FIN
      <4> DEFINE p == PushChunk(rest, c)
                 slow == [p EXCEPT !.netReading = FALSE]
      <4>1. d = [state |-> IF KeepGoing(p) THEN p ELSE slow, fin |-> FALSE, on |-> KeepGoing(p)]
        BY <3>1, <3>6 DEF DrainOne
      <4> HIDE DEF d
      <4>2. after = p \/ after = slow
        BY <4>1
      <4> HIDE DEF rest, after
      <4>3. \A kk, x : Comes(rest, kk, x) <=> Comes(s, kk, x)
        BY <3>3 DEF Comes
      <4>4. Onward(s, rest)
        BY <3>3, <4>3, Zenon DEF Onward
      <4>5. Ready(rest, k)
        BY <3>3, <4>3 DEF Ready
      <4>6. Awake(p, k) /\ Onward(rest, p) /\ Stirred(p, k) /\ ReaderOK(p, n, over)
        BY <3>3, <3>4, <3>6, <4>3, <4>5, PushChunkStirs, PushChunkIsOK
      <4> HIDE DEF p
      <4>7. p \in Socks
        BY <4>6 DEF ReaderOK
      <4>8. slow \in Socks
        BY <4>7 DEF Socks
      <4>9. Alike(p, slow) /\ (slow.sync <=> p.sync) /\ (slow.reading <=> p.reading) /\ (slow.inFlight <=> p.inFlight)
        BY <4>7, <4>8 DEF Alike, Socks
      <4> HIDE DEF slow
      <4>10. Ready(slow, k) /\ Fed(slow, k) /\ Onward(p, slow)
        BY <4>6, <4>9, AlikeKeeps DEF Awake, Stirred
      <4>11. Awake(slow, k)
        BY <4>6, <4>9, <4>10 DEF Awake, Alike
      <4>12. Stirred(slow, k)
        BY <4>6, <4>9, <4>10 DEF Onward, Stirred, Alike
      <4>13. Onward(s, p) /\ Onward(s, slow)
        BY <4>4, <4>6, <4>10, OnwardOn
      <4> QED BY <4>2, <4>6, <4>11, <4>12, <4>13
    <3> QED BY <3>5, <3>6
  <2>3. s.pending = <<>> \/ \E c \in 0..Sent : s.pending = <<c>>
    <3>1. s.pending \in {<<>>, <<FIN>>} \/ \E c \in 1..Sent : s.pending = <<c>>
      BY DEF ReaderOK, LineOK
    <3>2. FIN \in 0..Sent /\ 1..Sent \subseteq 0..Sent
      BY ReadAssumption DEF FIN
    <3> QED BY <3>1, <3>2
  <2> HIDE DEF after
  <2>4. ASSUME Awake(after, k), Onward(s, after), Stirred(after, k)
        PROVE  LET t == AfterResume(s) IN Awake(t, k) /\ Onward(s, t) /\ Stirred(t, k)
    BY <1>3, <2>0, <2>4
  <2> QED BY <2>1, <2>2, <2>3, <2>4
<1> HIDE DEF after
<1> DEFINE z == ReadZero(u)
<1>4. Awake(z, k) /\ Onward(u, z) /\ Stirred(z, k)
  BY <1>3, ReadZeroStirs DEF Stirred
<1> HIDE DEF z
<1>5. Onward(s, z)
  BY <1>3, <1>4, OnwardOn
<1>6. AfterResume(s) = u \/ AfterResume(s) = z
  BY <1>2, <1>3 DEF z
<1> QED BY <1>3, <1>4, <1>5, <1>6

\* What a paused loop read waits for resume().
LEMMA PutAsideStirs ==
  ASSUME NEW s \in Socks, NEW k, NEW c \in 0..Sent, s.pending = <<>>, Ready(s, k), s.netPaused, s.flowing = "no"
  PROVE  LET t == PutAside(s, c) IN Awake(t, k) /\ Onward(s, t) /\ Stirred(t, k)
<1> DEFINE reads == IF c = FIN THEN s.netReading ELSE FALSE
           t == PutAside(s, c)
<1>1. Append(<<>>, c) = <<c>> /\ <<c>> \in Seq(0..Sent) /\ <<c>> # <<>>
  OBVIOUS
<1>2. reads \in BOOLEAN
  BY DEF Socks
<1>3. t = [s EXCEPT !.pending = <<c>>, !.netReading = reads]
  BY <1>1 DEF PutAside
<1> HIDE DEF t, reads
<1>4. t \in Socks
  BY <1>1, <1>2, <1>3 DEF Socks
<1>5. /\ t.buffer = s.buffer /\ t.pending # <<>> /\ t.flowing = "no"
      /\ (t.ended <=> s.ended) /\ t.netPaused
      /\ (t.emittedReadable <=> s.emittedReadable) /\ (t.readingMore <=> s.readingMore)
      /\ (t.resumeScheduled <=> s.resumeScheduled) /\ (t.started <=> s.started) /\ t.todo = s.todo
      /\ (t.sync <=> s.sync)
  BY <1>1, <1>3, <1>4 DEF Socks
<1>6. \A kk, x : Comes(t, kk, x) <=> Comes(s, kk, x)
  BY <1>5 DEF Comes
<1>7. Onward(s, t)
  BY <1>5, <1>6, Zenon DEF Onward
<1>8. Awake(t, k)
  BY <1>5, <1>6 DEF Awake, Ready
<1>9. Stirred(t, k)
  BY <1>5 DEF Stirred, Fed
<1> QED BY <1>7, <1>8, <1>9 DEF t

LEMMA GoesOnStirs ==
  ASSUME NEW s, NEW token, NEW n, NEW over, NEW k, ReaderOK(s, n, over), Idle(s), Awake(s, k), Stirred(s, k)
  PROVE  LET t == GoesOn(s, token) IN Awake(t, k) /\ Onward(s, t) /\ Stirred(t, k)
<1> DEFINE slow == [s EXCEPT !.netReading = FALSE]
           next == [s EXCEPT !.inFlight = TRUE, !.loops = Append(s.loops, token)]
<1>1. s \in Socks /\ s.loops \in Seq(Nat) /\ s.token \in Nat /\ ~s.reading
  BY DEF ReaderOK, Socks, Idle, Awake
<1>2. \/ GoesOn(s, token) = s \/ GoesOn(s, token) = slow
      \/ token = s.token /\ GoesOn(s, token) = next
  BY DEF GoesOn
<1>3. slow \in Socks
  BY <1>1 DEF Socks
<1>4. Alike(s, slow) /\ (slow.sync <=> s.sync) /\ ~slow.reading
  BY <1>1, <1>3 DEF Alike, Socks
<1>5. ASSUME token = s.token PROVE Alike(s, next) /\ (next.sync <=> s.sync) /\ ~next.reading
  <2>1. Append(s.loops, token) \in Seq(Nat)
    BY <1>1, <1>5
  <2>2. next \in Socks
    BY <1>1, <2>1 DEF Socks
  <2> QED BY <1>1, <2>2 DEF Alike, Socks
<1> HIDE DEF slow
<1>6. ASSUME NEW t, Alike(s, t), t.sync <=> s.sync, ~t.reading
      PROVE  Awake(t, k) /\ Onward(s, t) /\ Fed(t, k)
  BY <1>6, AlikeKeeps DEF Awake, Stirred
<1>7. Stirred(slow, k)
  BY <1>1, <1>4, <1>6 DEF Idle, Socks, Stirred, Alike, Onward
<1>8. token = s.token => Stirred(next, k)
  <2>1. SUFFICES ASSUME token = s.token PROVE Stirred(next, k)
    OBVIOUS
  <2>2. next.inFlight
    BY <1>1 DEF Socks
  <2> HIDE DEF next
  <2> QED BY <1>5, <1>6, <2>1, <2>2 DEF Stirred
<1> HIDE DEF next
<1> QED BY <1>2, <1>4, <1>5, <1>6, <1>7, <1>8, OnwardItself

\* The ticks that a job asked for are in the queue when it has ended.
LEMMA EndsAlike ==
  ASSUME NEW s \in Socks, NEW queue \in Seq(ReadTicks), Ends(s, queue)
  PROVE  /\ \A x : Comes(sock', ToSet(ticks'), x) <=> Comes(s, ToSet(queue), x)
         /\ sock'.buffer = s.buffer /\ sock'.pending = s.pending /\ sock'.flowing = s.flowing
         /\ (sock'.ended <=> s.ended) /\ (sock'.endEmitted <=> s.endEmitted) /\ (sock'.netPaused <=> s.netPaused)
         /\ (sock'.emittedReadable <=> s.emittedReadable) /\ (sock'.readingMore <=> s.readingMore)
         /\ (sock'.resumeScheduled <=> s.resumeScheduled) /\ (sock'.started <=> s.started)
         /\ (sock'.reading <=> s.reading) /\ (sock'.sync <=> s.sync) /\ (sock'.inFlight <=> s.inFlight)
<1> DEFINE t == [s EXCEPT !.todo = <<>>]
<1>1. sock' = t /\ ticks' = queue \o s.todo /\ s.todo \in Seq(ReadTicks)
  BY DEF Ends, Socks
<1>2. t \in Socks
  <2>1. <<>> \in Seq(ReadTicks)
    OBVIOUS
  <2> QED BY <2>1 DEF Socks
<1>3. /\ t.buffer = s.buffer /\ t.pending = s.pending /\ t.flowing = s.flowing
      /\ (t.ended <=> s.ended) /\ (t.endEmitted <=> s.endEmitted) /\ (t.netPaused <=> s.netPaused)
      /\ (t.emittedReadable <=> s.emittedReadable) /\ (t.readingMore <=> s.readingMore)
      /\ (t.resumeScheduled <=> s.resumeScheduled) /\ (t.started <=> s.started)
      /\ (t.reading <=> s.reading) /\ (t.sync <=> s.sync) /\ (t.inFlight <=> s.inFlight) /\ t.todo = <<>>
  BY <1>2 DEF Socks
<1> HIDE DEF t
<1>4. ASSUME NEW x PROVE Comes(t, ToSet(queue \o s.todo), x) <=> Comes(s, ToSet(queue), x)
  <2> DEFINE q == queue \o s.todo
  <2>1. /\ Len(q) = Len(queue) + Len(s.todo) /\ Len(queue) \in Nat /\ Len(s.todo) \in Nat
        /\ \A i \in 1..Len(q) : q[i] = IF i <= Len(queue) THEN queue[i] ELSE s.todo[i - Len(queue)]
        /\ DOMAIN q = 1..Len(q) /\ DOMAIN queue = 1..Len(queue)
    BY <1>1
  <2> HIDE DEF q
  <2>2. ASSUME x \in ToSet(q) PROVE Comes(s, ToSet(queue), x)
    <3>1. PICK i \in 1..Len(q) : q[i] = x
      BY <2>1, <2>2 DEF ToSet
    <3>2. CASE i <= Len(queue)
      BY <2>1, <3>1, <3>2 DEF ToSet, Comes
    <3>3. CASE i > Len(queue)
      BY <2>1, <3>1, <3>3 DEF Comes
    <3> QED BY <2>1, <3>2, <3>3
  <2>3. ASSUME x \in ToSet(queue) PROVE x \in ToSet(q)
    <3>1. PICK i \in 1..Len(queue) : queue[i] = x
      BY <2>1, <2>3 DEF ToSet
    <3>2. i \in DOMAIN q /\ q[i] = x
      BY <2>1, <3>1
    <3> QED BY <3>2 DEF ToSet
  <2>4. ASSUME NEW j \in 1..Len(s.todo), s.todo[j] = x PROVE x \in ToSet(q)
    <3>1. Len(queue) + j \in 1..Len(q) /\ ~(Len(queue) + j <= Len(queue)) /\ (Len(queue) + j) - Len(queue) = j
      BY <2>1
    <3>2. Len(queue) + j \in DOMAIN q /\ q[Len(queue) + j] = x
      BY <2>1, <2>4, <3>1
    <3> QED BY <3>2 DEF ToSet
  <2>5. Comes(t, ToSet(q), x) <=> x \in ToSet(q)
    BY <1>3 DEF Comes
  <2> QED BY <2>2, <2>3, <2>4, <2>5 DEF Comes, q
<1> QED BY <1>1, <1>3, <1>4

\* A tick is taken from the head of the queue: the others still come.
LEMMA OthersCome ==
  ASSUME NEW s, NEW queue \in Seq(ReadTicks), queue # <<>>, NEW x, x # Head(queue), Comes(s, ToSet(queue), x)
  PROVE  Comes(s, ToSet(Tail(queue)), x)
<1>1. SUFFICES ASSUME x \in ToSet(queue) PROVE x \in ToSet(Tail(queue))
  BY DEF Comes
<1>2. PICK i \in 1..Len(queue) : queue[i] = x
  BY <1>1 DEF ToSet
<1>3. i # 1 /\ Len(queue) \in Nat /\ Head(queue) = queue[1]
  BY <1>2
<1>4. Len(Tail(queue)) = Len(queue) - 1 /\ \A j \in 1..Len(queue) - 1 : Tail(queue)[j] = queue[j + 1]
  OBVIOUS
<1>5. i - 1 \in 1..Len(queue) - 1 /\ (i - 1) + 1 = i
  BY <1>2, <1>3
<1>6. Tail(queue)[i - 1] = x /\ i - 1 \in DOMAIN Tail(queue)
  BY <1>2, <1>4, <1>5
<1> QED BY <1>6 DEF ToSet

-----------------------------------------------------------------------------
(* The jobs again, and the invariant that says why *)

\* The flags that keep a tick from being asked for twice stand for a tick that comes.
Told(s, k) ==
    /\ s.resumeScheduled => Comes(s, k, "resume")
    /\ s.readingMore => Comes(s, k, "more")
    /\ s.started => ~s.sync

\* Nothing has happened to a socket that is not connected.
Fresh(s) ==
    /\ s.flowing = "null" /\ s.buffer = <<>> /\ ~s.ended /\ ~s.reading /\ ~s.needReadable
    /\ s.loops = <<>> /\ ~s.netPaused

AwakeIInv ==
    /\ Awake(sock, ToSet(ticks)) /\ Stirred(sock, ToSet(ticks)) /\ Told(sock, ToSet(ticks))
    /\ ~sock.started => Fresh(sock) /\ ticks = <<>>

LEMMA ToldOn == ASSUME NEW s, NEW t, NEW k, Told(s, k), Onward(s, t) PROVE Told(t, k)
BY DEF Told, Onward

LEMMA JobStirs ==
  ASSUME NEW s, NEW n, NEW over, ReaderOK(s, n, over), NEW queue \in Seq(ReadTicks), Ends(s, queue),
         Awake(s, ToSet(queue)), Stirred(s, ToSet(queue)), Told(s, ToSet(queue)), s.started
  PROVE  AwakeIInv'
<1> DEFINE k == ToSet(queue)
           kk == ToSet(ticks')
<1>1. s \in Socks
  BY DEF ReaderOK
<1>2. /\ \A x : Comes(sock', kk, x) <=> Comes(s, k, x)
      /\ sock'.buffer = s.buffer /\ sock'.pending = s.pending /\ sock'.flowing = s.flowing
      /\ (sock'.ended <=> s.ended) /\ (sock'.endEmitted <=> s.endEmitted) /\ (sock'.netPaused <=> s.netPaused)
      /\ (sock'.emittedReadable <=> s.emittedReadable) /\ (sock'.readingMore <=> s.readingMore)
      /\ (sock'.resumeScheduled <=> s.resumeScheduled) /\ (sock'.started <=> s.started)
      /\ (sock'.reading <=> s.reading) /\ (sock'.sync <=> s.sync) /\ (sock'.inFlight <=> s.inFlight)
  BY <1>1, EndsAlike
<1> HIDE DEF k, kk
<1> DEFINE t == sock'
<1> HIDE DEF t
<1>3. Awake(t, kk)
  <2>1. Awake(s, k)
    BY DEF k
  <2> QED BY <1>2, <2>1, Zenon DEF Awake, Ready, t
<1>4. Stirred(t, kk)
  <2>1. Stirred(s, k)
    BY DEF k
  <2> QED BY <1>2, <2>1, Zenon DEF Stirred, Fed, t
<1>5. Told(t, kk) /\ t.started
  <2>1. Told(s, k)
    BY DEF k
  <2> QED BY <1>2, <2>1, Zenon DEF Told, t
<1>6. Awake(sock, ToSet(ticks))' /\ Stirred(sock, ToSet(ticks))' /\ Told(sock, ToSet(ticks))'
  BY <1>3, <1>4, <1>5 DEF t, kk, Awake, Ready, Stirred, Fed, Told, Comes
<1>7. (sock.started)'
  BY <1>5 DEF t
<1> QED BY <1>6, <1>7 DEF AwakeIInv

LEMMA StartAwake == ASSUME ReadIInv, AwakeIInv, Start PROVE AwakeIInv'
<1> DEFINE on == [sock EXCEPT !.started = TRUE]
           s == ReadZero(on)
           k == ToSet(ticks)
<1>1. ReaderOK(sock, Returned, taken > Sent) /\ sock \in Socks /\ ticks \in Seq(ReadTicks)
  BY DEF ReadIInv, ReaderOK
<1>2. Ends(s, ticks) /\ ~sock.started
  BY DEF Start
<1>3. on \in Socks
  BY <1>1 DEF Socks
<1>4. /\ Calm(sock, on) /\ on.started /\ on.todo = sock.todo
      /\ (on.emittedReadable <=> sock.emittedReadable) /\ (on.readingMore <=> sock.readingMore)
      /\ (on.resumeScheduled <=> sock.resumeScheduled) /\ (on.reading <=> sock.reading)
      /\ (on.needReadable <=> sock.needReadable)
  BY <1>1, <1>3 DEF Calm, Socks
<1> HIDE DEF on
<1>5. ReaderOK(on, Returned, taken > Sent)
  BY <1>1, <1>4, CalmIsOK
<1>6. \A x : Comes(on, k, x) <=> Comes(sock, k, x)
  BY <1>4 DEF Comes
<1>7. /\ Awake(sock, k) /\ Told(sock, k)
      /\ sock.flowing = "null" /\ sock.buffer = <<>> /\ ~sock.ended /\ ~sock.reading /\ ~sock.needReadable
  BY <1>2 DEF AwakeIInv, Fresh
<1> HIDE DEF k
<1>8. /\ on.flowing = "null" /\ on.buffer = <<>> /\ ~on.ended /\ ~on.reading /\ ~on.needReadable
      /\ on.pending = sock.pending /\ (on.netPaused <=> sock.netPaused)
  BY <1>4, <1>7 DEF Calm
<1>9. Awake(on, k) /\ Fed(on, k)
  BY <1>4, <1>6, <1>7, <1>8 DEF Awake, Ready, Fed
<1>10. Awake(s, k) /\ Onward(on, s) /\ Stirred(s, k) /\ ~s.sync
  BY <1>5, <1>8, <1>9, ReadZeroStirs
<1>11. ReaderOK(s, Returned, taken > Sent)
  BY <1>5, ReadZeroIsOK
<1> HIDE DEF s
<1>12. Told(s, k) /\ s.started
  BY <1>4, <1>6, <1>7, <1>10 DEF Told, Onward
<1> QED BY <1>1, <1>2, <1>10, <1>11, <1>12, JobStirs DEF k

\* Readable.resume, and what Socket.resume does after it
LEMMA ResumingStirs ==
  ASSUME NEW s, NEW n, NEW over, NEW k, ReaderOK(s, n, over), ~s.netPaused, s.flowing # "yes", s.started, Told(s, k),
         s.emittedReadable => Comes(s, k, "readable") /\ (s.buffer # <<>> \/ s.ended),
         s.reading => s.inFlight \/ s.pending # <<>>
  PROVE  LET t == AfterResume(Resumed(s))
         IN  ReaderOK(t, n, over) /\ Awake(t, k) /\ Stirred(t, k) /\ Told(t, k) /\ t.started
<1> DEFINE r == Resumed(s)
           t == AfterResume(r)
<1>1. s \in Socks
  BY DEF ReaderOK
<1>2. /\ Comes(r, k, "resume") /\ r \in Socks /\ \A x : Comes(s, k, x) => Comes(r, k, x)
      /\ r.buffer = s.buffer /\ r.pending = s.pending
      /\ (r.ended <=> s.ended) /\ (r.emittedReadable <=> s.emittedReadable)
      /\ (r.readingMore <=> s.readingMore) /\ (r.started <=> s.started) /\ (r.reading <=> s.reading)
      /\ (r.sync <=> s.sync) /\ (r.inFlight <=> s.inFlight) /\ (r.netPaused <=> s.netPaused)
  BY <1>1, ResumedStirs DEF Told
<1>3. ReaderOK(r, n, over)
  BY ResumedIsOK
<1> HIDE DEF r
<1>4. ~s.sync /\ (s.readingMore => Comes(s, k, "more"))
  BY DEF Told
<1>5. ReaderOK(t, n, over)
  BY <1>3, AfterResumeIsOK
<1>6. Awake(t, k) /\ Onward(r, t) /\ Stirred(t, k)
  BY <1>2, <1>3, <1>4, AfterResumeStirs
<1> HIDE DEF t
<1>7. Told(r, k)
  BY <1>2, <1>4 DEF Told
<1>8. Told(t, k) /\ t.started
  BY <1>2, <1>6, <1>7, ToldOn DEF Onward
<1> QED BY <1>5, <1>6, <1>8 DEF t, r

LEMMA AddListenerAwake == ASSUME ReadIInv, AwakeIInv, AddListener PROVE AwakeIInv'
<1> DEFINE s == AfterResume(Resumed(sock))
<1>1. ReaderOK(sock, Returned, taken > Sent) /\ ticks \in Seq(ReadTicks) /\ ~sock.netPaused
  BY DEF ReadIInv, AddListener, ReaderOK, LastOK
<1>2. Ends(s, ticks) /\ sock.started /\ sock.flowing # "yes"
  BY DEF AddListener
<1>3. Awake(sock, ToSet(ticks)) /\ Told(sock, ToSet(ticks))
  BY DEF AwakeIInv
<1>4. /\ ReaderOK(s, Returned, taken > Sent) /\ Awake(s, ToSet(ticks)) /\ Stirred(s, ToSet(ticks))
      /\ Told(s, ToSet(ticks)) /\ s.started
  BY <1>1, <1>2, <1>3, ResumingStirs DEF Awake, Ready
<1> HIDE DEF s
<1> QED BY <1>1, <1>2, <1>4, JobStirs

LEMMA PauseAwake == ASSUME ReadIInv, AwakeIInv, Pause PROVE AwakeIInv'
<1> DEFINE s == PausedSocket(sock)
<1>1. ReaderOK(sock, Returned, taken > Sent) /\ sock \in Socks /\ ticks \in Seq(ReadTicks)
  BY DEF ReadIInv, ReaderOK
<1>2. Ends(s, ticks) /\ sock.started
  BY DEF Pause
<1>3. Awake(sock, ToSet(ticks)) /\ Told(sock, ToSet(ticks))
  BY DEF AwakeIInv
<1>4. Awake(s, ToSet(ticks)) /\ Onward(sock, s) /\ Stirred(s, ToSet(ticks))
  BY <1>1, <1>3, PausedStirs
<1>5. ReaderOK(s, Returned, taken > Sent)
  BY <1>1, PausedIsOK
<1> HIDE DEF s
<1>6. Told(s, ToSet(ticks)) /\ s.started
  BY <1>2, <1>3, <1>4, ToldOn DEF Onward
<1> QED BY <1>1, <1>2, <1>4, <1>5, <1>6, JobStirs

LEMMA ResumeAwake == ASSUME ReadIInv, AwakeIInv, Resume PROVE AwakeIInv'
<1> DEFINE on == [sock EXCEPT !.netPaused = FALSE]
           s == AfterResume(Resumed(on))
           k == ToSet(ticks)
<1>1. ReaderOK(sock, Returned, taken > Sent) /\ sock \in Socks /\ ticks \in Seq(ReadTicks)
  BY DEF ReadIInv, ReaderOK
<1>2. Ends(s, ticks) /\ sock.netPaused
  BY DEF Resume
<1>3. Awake(sock, k) /\ Told(sock, k) /\ sock.started /\ sock.flowing = "no"
  BY <1>1, <1>2 DEF AwakeIInv, Fresh, ReaderOK, LastOK
<1>4. on \in Socks
  BY <1>1 DEF Socks
<1>5. /\ on.data = sock.data /\ on.buffer = sock.buffer /\ on.pending = sock.pending
      /\ on.loops = sock.loops /\ on.token = sock.token /\ (on.inFlight <=> sock.inFlight)
      /\ (on.ended <=> sock.ended) /\ ~on.netPaused /\ on.flowing = sock.flowing /\ on.todo = sock.todo
      /\ (on.emittedReadable <=> sock.emittedReadable) /\ (on.readingMore <=> sock.readingMore)
      /\ (on.resumeScheduled <=> sock.resumeScheduled) /\ (on.reading <=> sock.reading)
      /\ (on.sync <=> sock.sync) /\ (on.started <=> sock.started)
  BY <1>1, <1>4 DEF Socks
<1> HIDE DEF on, k
<1>6. LineOK(on, Returned) /\ LoopOK(on) /\ LastOK(on, taken > Sent)
  BY <1>1, <1>5 DEF ReaderOK, LineOK, LoopOK, LastOK
<1>7. ReaderOK(on, Returned, taken > Sent)
  BY <1>4, <1>6 DEF ReaderOK
<1>8. \A x : Comes(on, k, x) <=> Comes(sock, k, x)
  BY <1>5 DEF Comes
<1>9. Told(on, k)
  BY <1>3, <1>5, <1>8 DEF Told
<1>10. /\ on.emittedReadable => Comes(on, k, "readable") /\ (on.buffer # <<>> \/ on.ended)
       /\ on.reading => on.inFlight \/ on.pending # <<>>
       /\ on.flowing # "yes" /\ on.started
  BY <1>3, <1>5, <1>8 DEF Awake, Ready
<1>11. ReaderOK(s, Returned, taken > Sent) /\ Awake(s, k) /\ Stirred(s, k) /\ Told(s, k) /\ s.started
  BY <1>5, <1>7, <1>9, <1>10, ResumingStirs
<1> HIDE DEF s
<1> QED BY <1>1, <1>2, <1>11, JobStirs DEF k

LEMMA RunTickAwake == ASSUME ReadIInv, AwakeIInv, RunTick PROVE AwakeIInv'
<1> DEFINE h == Head(ticks)
           rest == Tail(ticks)
           k == ToSet(rest)
           more == ReadMore(sock)
           pulled == [more EXCEPT !.readingMore = FALSE]
           over == [sock EXCEPT !.endEmitted = sock.endEmitted \/ sock.buffer = <<>>]
<1>1. ReaderOK(sock, Returned, taken > Sent) /\ sock \in Socks /\ ticks \in Seq(ReadTicks) /\ ticks # <<>>
  BY DEF ReadIInv, ReaderOK, RunTick
<1>2. rest \in Seq(ReadTicks) /\ h \in ReadTicks
  BY <1>1
<1>3. /\ h = "readable" => Ends(EmitReadableNow(sock), rest)
      /\ h = "more" => Ends(pulled, rest)
      /\ h = "resume" => Ends(ResumeNow(sock), rest)
      /\ h = "end" => Ends(over, rest)
  BY DEF RunTick
<1>4. /\ Awake(sock, ToSet(ticks)) /\ Stirred(sock, ToSet(ticks)) /\ Told(sock, ToSet(ticks)) /\ sock.started
  BY <1>1 DEF AwakeIInv
<1>5. \A x : x # h /\ Comes(sock, ToSet(ticks), x) => Comes(sock, k, x)
  BY <1>1, OthersCome
<1> HIDE DEF h, rest, k, more, pulled, over
<1>6. ASSUME NEW t, ReaderOK(t, Returned, taken > Sent), Ends(t, rest),
             Awake(t, k), Stirred(t, k), Told(t, k), t.started
      PROVE  AwakeIInv'
  BY <1>2, <1>6, JobStirs DEF k
<1>7. h # "readable" => Awake(sock, k)
  BY <1>4, <1>5 DEF Awake, Ready
<1>8. CASE h = "readable"
  <2> DEFINE t == EmitReadableNow(sock)
  <2>1. Awake(t, k) /\ Onward(sock, t) /\ Stirred(t, k)
    BY <1>1, <1>4, EmitReadableNowStirs DEF Awake, Ready
  <2>2. ReaderOK(t, Returned, taken > Sent) /\ Ends(t, rest)
    BY <1>1, <1>3, <1>8, EmitReadableNowIsOK
  <2> HIDE DEF t
  <2>3. Told(sock, k)
    BY <1>4, <1>5, <1>8 DEF Told
  <2>4. Told(t, k) /\ t.started
    BY <1>4, <2>1, <2>3, ToldOn DEF Onward
  <2> QED BY <1>6, <2>1, <2>2, <2>4
<1>9. CASE h = "more"
  <2>1. Fed(sock, k)
    BY <1>4, <1>5, <1>9 DEF Stirred, Fed
  <2>2. Awake(more, k) /\ Onward(sock, more) /\ Stirred(more, k)
    BY <1>1, <1>7, <1>9, <2>1, ReadMoreStirs DEF more
  <2>3. ReaderOK(more, Returned, taken > Sent) /\ Ends(pulled, rest)
    BY <1>1, <1>3, <1>9, ReadMoreIsOK DEF more
  <2>4. more \in Socks
    BY <2>3 DEF ReaderOK
  <2>5. pulled \in Socks
    BY <2>4 DEF Socks, pulled
  <2>6. /\ Calm(more, pulled) /\ pulled.todo = more.todo /\ ~pulled.readingMore
        /\ (pulled.emittedReadable <=> more.emittedReadable) /\ (pulled.resumeScheduled <=> more.resumeScheduled)
        /\ (pulled.reading <=> more.reading) /\ (pulled.sync <=> more.sync) /\ (pulled.started <=> more.started)
        /\ (pulled.endEmitted <=> more.endEmitted)
    BY <2>4, <2>5 DEF Calm, Socks, pulled
  <2>7. /\ pulled.buffer = more.buffer /\ pulled.pending = more.pending /\ pulled.flowing = more.flowing
        /\ (pulled.ended <=> more.ended) /\ (pulled.netPaused <=> more.netPaused) /\ (pulled.inFlight <=> more.inFlight)
    BY <2>6 DEF Calm
  <2>8. \A x : Comes(pulled, k, x) <=> Comes(more, k, x)
    BY <2>6 DEF Comes
  <2>9. Awake(pulled, k)
    BY <2>2, <2>6, <2>7, <2>8, Zenon DEF Awake, Ready
  <2>10. Stirred(pulled, k)
    BY <2>2, <2>6, <2>7, <2>8, Zenon DEF Stirred, Fed
  <2>11. Told(pulled, k) /\ pulled.started
    BY <1>4, <1>5, <1>9, <2>2, <2>6, <2>8 DEF Told, Onward
  <2>12. ReaderOK(pulled, Returned, taken > Sent)
    BY <2>3, <2>6, CalmIsOK
  <2> QED BY <1>6, <2>3, <2>9, <2>10, <2>11, <2>12
<1>10. CASE h = "resume"
  <2> DEFINE t == ResumeNow(sock)
  <2>1. Awake(t, k) /\ Onward(sock, t) /\ Stirred(t, k) /\ ~t.resumeScheduled
    BY <1>1, <1>7, <1>10, ResumeNowStirs
  <2>2. ReaderOK(t, Returned, taken > Sent) /\ Ends(t, rest)
    BY <1>1, <1>3, <1>10, ResumeNowIsOK
  <2> HIDE DEF t
  <2>3. (sock.readingMore => Comes(sock, k, "more")) /\ sock.started /\ ~sock.sync
    BY <1>4, <1>5, <1>10 DEF Told
  <2>4. Told(t, k) /\ t.started
    BY <2>1, <2>3 DEF Told, Onward
  <2> QED BY <1>6, <2>1, <2>2, <2>4
<1>11. CASE h = "end"
  <2>1. over \in Socks
    BY <1>1 DEF Socks, over
  <2>2. /\ Calm(sock, over) /\ over.todo = sock.todo /\ (over.readingMore <=> sock.readingMore)
        /\ (over.emittedReadable <=> sock.emittedReadable) /\ (over.resumeScheduled <=> sock.resumeScheduled)
        /\ (over.reading <=> sock.reading) /\ (over.sync <=> sock.sync) /\ (over.started <=> sock.started)
        /\ (sock.buffer = <<>> => over.endEmitted)
    BY <1>1, <2>1 DEF Calm, Socks, over
  <2>3. /\ over.buffer = sock.buffer /\ over.pending = sock.pending /\ over.flowing = sock.flowing
        /\ (over.ended <=> sock.ended) /\ (over.netPaused <=> sock.netPaused) /\ (over.inFlight <=> sock.inFlight)
    BY <2>2 DEF Calm
  <2>4. \A x : Comes(over, k, x) <=> Comes(sock, k, x)
    BY <2>2 DEF Comes
  <2>5. Awake(over, k)
    BY <1>7, <1>11, <2>2, <2>3, <2>4, Zenon DEF Awake, Ready
  <2>6. /\ Comes(sock, ToSet(ticks), "readable") => Comes(over, k, "readable")
        /\ Comes(sock, ToSet(ticks), "resume") => Comes(over, k, "resume")
        /\ Comes(sock, ToSet(ticks), "more") => Comes(over, k, "more")
    BY <1>5, <1>11, <2>4
  <2>7. Fed(over, k)
    BY <1>4, <2>2, <2>3, <2>6, Zenon DEF Stirred, Fed
  <2>8. Stirred(over, k)
    BY <1>4, <2>3, <2>6, <2>7, Zenon DEF Stirred
  <2>9. Told(over, k) /\ over.started
    BY <1>4, <2>2, <2>6, Zenon DEF Told
  <2>10. ReaderOK(over, Returned, taken > Sent) /\ Ends(over, rest)
    BY <1>1, <1>3, <1>11, <2>2, CalmIsOK
  <2> QED BY <1>6, <2>5, <2>8, <2>9, <2>10
<1> QED BY <1>2, <1>8, <1>9, <1>10, <1>11 DEF ReadTicks

LEMMA ReadAnswersAwake == ASSUME ReadIInv, AwakeIInv, NEW i, ReadAnswers(i) PROVE AwakeIInv'
<1> DEFINE n == Returned'
           over == taken' > Sent
           k == ToSet(ticks)
<1>1. PICK s, t : \E c \in 0..Sent :
               /\ Answered(s) /\ Ends(t, ticks) /\ ReaderOK(t, n, over)
               /\ \/ s.netPaused /\ t = PutAside(s, c)
                  \/ ReaderOK(s, n, over) /\ over /\ t = ReadZero(PushEof(s))
                  \/ InHand(s, c, n) /\ t = GoesOn(PushChunk(s, c), sock.token)
  BY ReadAnswersIsOK
<1>2. PICK c \in 0..Sent :
               /\ Answered(s) /\ Ends(t, ticks) /\ ReaderOK(t, n, over)
               /\ \/ s.netPaused /\ t = PutAside(s, c)
                  \/ ReaderOK(s, n, over) /\ over /\ t = ReadZero(PushEof(s))
                  \/ InHand(s, c, n) /\ t = GoesOn(PushChunk(s, c), sock.token)
  BY <1>1
<1> HIDE DEF n, over, k
<1>3. sock \in Socks /\ ticks \in Seq(ReadTicks) /\ (sock.netPaused => sock.flowing = "no")
      /\ (sock.inFlight => sock.loops # <<>>)
  <2>1. \A x : <<x>> # <<>>
    OBVIOUS
  <2>2. sock \in Socks /\ ticks \in Seq(ReadTicks) /\ LoopOK(sock) /\ (sock.netPaused => sock.flowing = "no")
    BY DEF ReadIInv, ReaderOK, LastOK
  <2>3. sock.inFlight => sock.loops # <<>>
    BY <2>1, <2>2 DEF LoopOK
  <2> QED BY <2>2, <2>3
<1>4. Awake(sock, k) /\ Stirred(sock, k) /\ Told(sock, k) /\ sock.started
  BY <1>2, <1>3 DEF AwakeIInv, Fresh, Answered, k
<1>5. /\ s \in Socks /\ s.pending = <<>> /\ s.flowing = sock.flowing /\ s.buffer = sock.buffer
      /\ (s.ended <=> sock.ended) /\ (s.netPaused <=> sock.netPaused) /\ s.started
  BY <1>2, <1>4 DEF Answered
<1>6. \A kk, x : Comes(s, kk, x) <=> Comes(sock, kk, x)
  BY <1>2 DEF Answered, Comes
<1>7. Ready(s, k) /\ Fed(s, k) /\ Told(s, k) /\ ~s.sync
  <2>1. Ready(s, k)
    BY <1>2, <1>4, <1>5, <1>6 DEF Awake, Ready, Answered
  <2>2. Fed(s, k)
    BY <1>2, <1>4, <1>6, Zenon DEF Stirred, Fed, Answered
  <2>3. Told(s, k)
    BY <1>2, <1>4, <1>6, Zenon DEF Told, Answered
  <2> QED BY <1>5, <2>1, <2>2, <2>3 DEF Told
<1>8. SUFFICES Awake(t, k) /\ Onward(s, t) /\ Stirred(t, k)
  <2>1. ASSUME Awake(t, k), Onward(s, t), Stirred(t, k) PROVE AwakeIInv'
    BY <1>2, <1>3, <1>5, <1>7, <2>1, ToldOn, JobStirs DEF Onward, k
  <2> QED BY <2>1
<1>9. CASE s.netPaused /\ t = PutAside(s, c)
  BY <1>3, <1>5, <1>7, <1>9, PutAsideStirs
<1>10. CASE ReaderOK(s, n, over) /\ over /\ t = ReadZero(PushEof(s))
  <2> DEFINE u == PushEof(s)
  <2>1. Awake(u, k) /\ Onward(s, u) /\ Stirred(u, k)
    BY <1>5, <1>7, <1>10, PushEofStirs
  <2>2. ReaderOK(u, n, over)
    BY <1>5, <1>10, PushEofIsOK
  <2> HIDE DEF u
  <2>3. Awake(ReadZero(u), k) /\ Onward(u, ReadZero(u)) /\ Stirred(ReadZero(u), k)
    BY <2>1, <2>2, ReadZeroStirs DEF Stirred
  <2>4. Onward(s, ReadZero(u))
    BY <2>1, <2>3, OnwardOn
  <2> QED BY <1>10, <2>3, <2>4 DEF u
<1>11. CASE InHand(s, c, n) /\ t = GoesOn(PushChunk(s, c), sock.token)
  <2> DEFINE u == PushChunk(s, c)
             v == GoesOn(u, sock.token)
  <2>1. s.flowing = "yes" /\ s.buffer # <<>> => Comes(s, k, "readable") \/ Comes(s, k, "resume")
    BY <1>7 DEF Fed
  <2>2. s.readingMore => Comes(s, k, "more")
    BY <1>7 DEF Told
  <2>3. Awake(u, k) /\ Onward(s, u) /\ Stirred(u, k)
    BY <1>7, <1>11, <2>1, <2>2, PushChunkStirs
  <2>4. ReaderOK(u, n, over) /\ Idle(u)
    BY <1>11, PushChunkIsOK
  <2> HIDE DEF u
  <2>5. Awake(v, k) /\ Onward(u, v) /\ Stirred(v, k)
    BY <2>3, <2>4, GoesOnStirs
  <2> HIDE DEF v
  <2>6. Onward(s, v)
    BY <2>3, <2>5, OnwardOn
  <2> QED BY <1>11, <2>5, <2>6 DEF u, v
<1> QED BY <1>2, <1>9, <1>10, <1>11

LEMMA AwakeStarts == ASSUME ReadInit PROVE AwakeIInv
BY DEF ReadInit, AwakeIInv, Awake, Ready, Stirred, Fed, Told, Fresh

LEMMA AwakeStep == ASSUME ReadIInv, AwakeIInv, [ReadNext]_ReadVars PROVE AwakeIInv'
<1>1. CASE UNCHANGED ReadVars
  BY <1>1 DEF ReadVars, AwakeIInv, Awake, Ready, Stirred, Fed, Told, Fresh, Comes
<1>2. CASE ReadNext
  <2>1. CASE Start
    BY <2>1, StartAwake
  <2>2. CASE AddListener
    BY <2>2, AddListenerAwake
  <2>3. CASE Pause
    BY <2>3, PauseAwake
  <2>4. CASE Resume
    BY <2>4, ResumeAwake
  <2>5. CASE RunTick
    BY <2>5, RunTickAwake
  <2>6. CASE \E i \in 1..2 : ReadAnswers(i)
    BY <2>6, ReadAnswersAwake
  <2> QED BY <1>2, <2>1, <2>2, <2>3, <2>4, <2>5, <2>6 DEF ReadNext
<1> QED BY <1>1, <1>2

LEMMA AwakeImplied == ASSUME ReadIInv, AwakeIInv PROVE NeverStranded
<1> DEFINE k == ToSet(ticks)
<1>1. sock.todo = <<>> /\ (sock.inFlight => sock.loops # <<>>)
  <2>1. \A x : <<x>> # <<>>
    OBVIOUS
  <2>2. sock.todo = <<>> /\ LoopOK(sock)
    BY DEF ReadIInv, ReaderOK
  <2> QED BY <2>1, <2>2 DEF LoopOK
<1>2. \A x : Comes(sock, k, x) <=> x \in k
  BY <1>1 DEF Comes
<1>3. k # {} => ticks # <<>>
  BY DEF ToSet
<1>4. Stirred(sock, k)
  BY DEF AwakeIInv
<1> HIDE DEF k
<1>5. SUFFICES ASSUME sock.flowing = "yes"
               PROVE  /\ sock.buffer # <<>> => {"readable", "resume"} \cap k # {}
                      /\ sock.endEmitted \/ ticks # <<>> \/ sock.loops # <<>>
  BY DEF NeverStranded, k
<1>6. \/ "readable" \in k \/ "resume" \in k
      \/ sock.buffer = <<>> /\ (sock.ended => sock.endEmitted \/ "end" \in k)
  BY <1>2, <1>4, <1>5 DEF Stirred, Fed
<1>7. sock.buffer = <<>> /\ ~sock.ended => sock.inFlight \/ k # {}
  BY <1>2, <1>4, <1>5 DEF Stirred
<1> QED BY <1>1, <1>3, <1>6, <1>7

-----------------------------------------------------------------------------
(* What the reader promises *)

LEMMA ReaderImplied == ASSUME ReadIInv PROVE ReadInv
<1>1. ReaderOK(sock, Returned, taken > Sent) /\ sock \in Socks
  BY DEF ReadIInv, ReaderOK
<1>2. ReadTypeOK
  BY <1>1 DEF ReadTypeOK, ReadIInv, Socks, ReadTicks
<1>3. sock.data \in Seq(1..Sent) /\ sock.buffer \in Seq(1..Sent) /\ sock.data \o sock.buffer \in Seq(1..Sent)
  BY <1>1 DEF Socks
<1>4. sock.pending \in {<<>>, <<FIN>>} => Chunks(sock.pending) = <<>>
  BY DEF Chunks, Last, Front
<1>5. ASSUME NEW c \in 1..Sent PROVE Chunks(<<c>>) = <<c>>
  BY ReadAssumption DEF FIN, Chunks, Last
<1>6. sock.data \o sock.buffer \o Chunks(sock.pending) = FirstOf(Returned)
  <2>1. CASE sock.pending \in {<<>>, <<FIN>>} /\ sock.data \o sock.buffer = FirstOf(Returned)
    BY <1>3, <1>4, <2>1, ConcatEmptySeq
  <2>2. ASSUME NEW c \in 1..Sent, sock.pending = <<c>>, Append(sock.data \o sock.buffer, c) = FirstOf(Returned)
        PROVE  sock.data \o sock.buffer \o Chunks(sock.pending) = FirstOf(Returned)
    BY <1>3, <1>5, <2>2, AppendIsConcat
  <2> QED BY <1>1, <2>1, <2>2 DEF ReaderOK, LineOK
<1>7. InOrder
  BY <1>6 DEF InOrder, FirstOf, Returned
<1>8. EndIsLast
  BY <1>1, <1>4 DEF EndIsLast, ReaderOK, LastOK
<1>9. OneRead
  <2>1. sock.loops = <<>> \/ sock.loops = <<sock.token>>
    BY <1>1 DEF ReaderOK, LoopOK
  <2>2. CASE sock.loops = <<>>
    BY <2>2 DEF OneRead
  <2>3. CASE sock.loops = <<sock.token>>
    BY <2>3 DEF OneRead
  <2> QED BY <2>1, <2>2, <2>3
<1> QED BY <1>2, <1>7, <1>8, <1>9 DEF ReadInv

\* However pause() and resume() fall between jobs and inside listeners, for any number of
\* chunks and any high-water mark: what the listener has had, the Readable's buffer and
\* _pendingReadChunks are together, in order, what the native reads returned; the end comes
\* after the last chunk; and there is one native read at a time.
THEOREM ReadIsSafe == ReadSpec => []ReadInv
<1>1. ReadInit => ReadIInv
  BY ReaderStarts
<1>2. ReadIInv /\ [ReadNext]_ReadVars => ReadIInv'
  BY ReaderStep
<1>3. ReadIInv => ReadInv
  BY ReaderImplied
<1> QED BY <1>1, <1>2, <1>3, PTL DEF ReadSpec

\* A socket that flows is never stranded, for any number of chunks, any high-water mark and
\* wherever pause() and resume() fall: what is in the Readable's buffer will be taken by a tick
\* that is queued, and until 'end' there is a tick or a native read to go on with it
\* (readable.js, emitReadable, maybeReadMore, resume and read; net.js, resume).
THEOREM ReaderNeverStrands == ReadSpec => []NeverStranded
<1>1. ReadInit => ReadIInv /\ AwakeIInv
  BY ReaderStarts, AwakeStarts
<1>2. ReadIInv /\ AwakeIInv /\ [ReadNext]_ReadVars => ReadIInv' /\ AwakeIInv'
  BY ReaderStep, AwakeStep
<1>3. ReadIInv /\ AwakeIInv => NeverStranded
  BY AwakeImplied
<1> QED BY <1>1, <1>2, <1>3, PTL DEF ReadSpec

\* A paused socket hands out nothing before resume(), whatever ticks and reads are under way
\* (net.js, pause, resume and _startPollLoop).
THEOREM SilenceHolds == ReadSpec => SilentWhilePaused
<1>1. ReadInit => ReadIInv
  BY ReaderStarts
<1>2. ReadIInv /\ [ReadNext]_ReadVars => ReadIInv'
  BY ReaderStep
<1>3. ReadIInv /\ [ReadNext]_ReadVars => [sock.netPaused /\ ~Resume => sock'.data = sock.data]_ReadVars
  BY ReaderStep DEF SilentStep
<1> QED BY <1>1, <1>2, <1>3, PTL DEF ReadSpec, SilentWhilePaused

-----------------------------------------------------------------------------
(* What the parts promise together *)

\* What ties each part together, whichever of them runs
SocketsIInv ==
    /\ ReadIInv /\ AwakeIInv /\ WriteIInv /\ ConnectIInv
    /\ ServerIInv /\ FlagsOK /\ ServerDataOK
    /\ AgentIInv /\ DatagramIInv

\* A part that does not run stays as it started.
LEMMA SocketPartsStart == SocketsInit => SocketsIInv
<1> SUFFICES ASSUME SocketsInit PROVE SocketsIInv
  OBVIOUS
<1>1. ReadIInv /\ AwakeIInv
  BY ReaderStarts, AwakeStarts DEF SocketsInit
<1>2. WriteIInv
  BY WriteInitFine DEF SocketsInit
<1>3. ConnectIInv
  BY ConnectStarts DEF SocketsInit
<1>4. ServerIInv /\ FlagsOK /\ ServerDataOK
  BY ServerStarts, ServerTypesStart DEF SocketsInit
<1>5. AgentIInv
  BY AgentStarts DEF SocketsInit
<1>6. DatagramIInv
  BY DatagramStarts DEF SocketsInit
<1> QED BY <1>1, <1>2, <1>3, <1>4, <1>5, <1>6 DEF SocketsIInv

\* A step of the program is a step of one part, and the others stutter.
LEMMA SocketPartSteps ==
  ASSUME [SocketsNext]_<<part, NetVars, AgentVars, DatagramVars>>
  PROVE  /\ [ReadNext]_ReadVars /\ [WriteNext]_WriteVars /\ [ConnectNext]_ConnectVars
         /\ [ServerNext]_ServerVars /\ [AgentNext]_AgentVars /\ [DatagramNext]_DatagramVars
BY DEF SocketsNext, NetVars

\* Every step of the program keeps every part's inductive invariant.
LEMMA SocketsStep ==
  SocketsIInv /\ [SocketsNext]_<<part, NetVars, AgentVars, DatagramVars>> => SocketsIInv'
<1> SUFFICES ASSUME SocketsIInv, [SocketsNext]_<<part, NetVars, AgentVars, DatagramVars>>
             PROVE  SocketsIInv'
  OBVIOUS
<1>1. /\ [ReadNext]_ReadVars /\ [WriteNext]_WriteVars /\ [ConnectNext]_ConnectVars
      /\ [ServerNext]_ServerVars /\ [AgentNext]_AgentVars /\ [DatagramNext]_DatagramVars
  BY SocketPartSteps
<1>2. ReadIInv' /\ AwakeIInv'
  BY <1>1, ReaderStep, AwakeStep DEF SocketsIInv
<1>3. WriteIInv'
  BY <1>1, WriteStepFine DEF SocketsIInv
<1>4. ConnectIInv'
  BY <1>1, ConnectStep DEF SocketsIInv
<1>5. ServerIInv'
  BY <1>1, ServerStep DEF SocketsIInv
<1>6. FlagsOK' /\ ServerDataOK'
  BY <1>1, ServerTypesKept DEF SocketsIInv
<1>7. AgentIInv'
  BY <1>1, AgentStep DEF SocketsIInv
<1>8. DatagramIInv'
  BY <1>1, DatagramStep DEF SocketsIInv
<1> QED BY <1>2, <1>3, <1>4, <1>5, <1>6, <1>7, <1>8 DEF SocketsIInv

\* The invariants of the run, for every value of the bounds and whichever part runs: what a
\* socket's reader sees is what the peer sent, without a stall, what its writer is told is what
\* was written, a bound datagram socket listens and hears in order, and the promises of
\* connect(), of the server and of the agent.
THEOREM SocketsAreSafe == SocketsSpec => [](StreamsInv /\ ConnectInv /\ ServerInv /\ AgentInv)
<1>1. SocketsInit => SocketsIInv
  BY SocketPartsStart
<1>2. SocketsIInv /\ [SocketsNext]_<<part, NetVars, AgentVars, DatagramVars>> => SocketsIInv'
  BY SocketsStep
<1>3. SocketsIInv => StreamsInv
  BY ReaderImplied, AwakeImplied, FineImplies, DatagramImplied DEF SocketsIInv, StreamsInv
<1>4. SocketsIInv => ConnectInv
  BY ConnectImplied DEF SocketsIInv
<1>5. SocketsIInv => ServerInv
  BY ServerImplied, ServerTypeParts DEF SocketsIInv, ServerInv
<1>6. SocketsIInv => AgentInv
  BY AgentImplied DEF SocketsIInv
<1> QED BY <1>1, <1>2, <1>3, <1>4, <1>5, <1>6, PTL DEF SocketsSpec

\* What no step of the program may do: a paused socket hands out no chunk, a server that is
\* closed counts no connection, a datagram socket that is closed hears nothing.
THEOREM SocketsKeepQuiet == SocketsSpec => SilentWhilePaused /\ NoneAfterClose /\ QuietAfterClose
<1> DEFINE Step == [SocketsNext]_<<part, NetVars, AgentVars, DatagramVars>>
<1>1. SocketsSpec => []SocketsIInv
  BY SocketPartsStart, SocketsStep, PTL DEF SocketsSpec
<1>2. SocketsIInv /\ Step => [sock.netPaused /\ ~Resume => sock'.data = sock.data]_ReadVars
  BY SocketPartSteps, ReaderStep DEF SilentStep, SocketsIInv
<1>3. SocketsIInv /\ Step => [connections' > connections => listening]_ServerVars
  BY SocketPartSteps, AcceptsCurrent DEF SocketsIInv
<1>4. SocketsIInv /\ Step =>
        [~udp.open => udp'.heard = udp.heard /\ udp'.listening = udp.listening]_DatagramVars
  BY SocketPartSteps, ClosedIsQuiet DEF SocketsIInv
<1> QED BY <1>1, <1>2, <1>3, <1>4, PTL DEF SocketsSpec, SilentWhilePaused, NoneAfterClose, QuietAfterClose
=============================================================================
