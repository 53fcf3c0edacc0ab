------------------------- MODULE StaticAssetsProofs -------------------------
(***************************************************************************)
(* Proofs about StaticAssets, for every set of names, contents and         *)
(* clients, every choice of the files there may be and any number of edits.*)
(***************************************************************************)
EXTENDS StaticAssets, TLAPS

-----------------------------------------------------------------------------
(* The inductive invariant, client by client *)

Running(c) == pc[c] \in {"find", "read"}

\* The history of a request holds what its store holds now.
Watched(c) == Running(c) => \A f \in Files : <<f, Store(c)[f]>> \in during[c]

\* The candidates that were passed over were missing, and the asset was there.
Progress(c) ==
    pc[c] # "idle" =>
        /\ \A j \in 1 .. at[c] - 1 : WasMissing(c, Candidates(ask[c].url)[j], "identity")
        /\ asset[c] # Absent => Held(c, Path(c), "identity", asset[c])
        /\ asset[c] # Absent /\ Running(c) => Wanted(ask[c].accept) # "identity"

\* A file that is about to be read was there when fileExists looked.
Reading(c) == pc[c] = "read" => ask[c].src = "fs" /\ Existed(c, Path(c), Coding(c))

\* A validator is the etag of a response that is still kept.
Validated(c) ==
    pc[c] # "idle" =>
        \A m \in ask[c].match : \E k \in kept[c] :
            /\ k.url = ask[c].url /\ k.accept = ask[c].accept
            /\ k.content = m[1] /\ k.coding = m[2]

ClientInv(c) ==
    /\ Watched(c) /\ Progress(c) /\ Reading(c) /\ Validated(c)
    /\ FirstMatchFor(c) /\ CurrentFor(c) /\ NegotiatedFor(c) /\ ErrorHasCauseFor(c)

IInv == TypeOK /\ \A c \in Clients : ClientInv(c)

-----------------------------------------------------------------------------
(* Lemmas about the operators *)

\* aliasesOf yields the files the URL rules name, in their order.
LEMMA CandidatesResolve ==
    ASSUME NEW u \in Paths
    PROVE  /\ Len(Candidates(u)) \in 1 .. 3
           /\ \A i \in 1 .. Len(Candidates(u)) : Candidates(u)[i] \in Resolves(u)
           /\ \A q \in Resolves(u) : \E i \in 1 .. Len(Candidates(u)) : q = Candidates(u)[i]
           /\ \A i \in 1 .. Len(Candidates(u)) : \A q \in Before(u, Candidates(u)[i]) :
                \E j \in 1 .. i - 1 : q = Candidates(u)[j]
<1>1. PICK n \in Names, g \in {"plain", "html", "slash", "index"} : u = <<n, g>>
  BY DEF Paths
<1>2. CASE g = "slash"
  BY <1>1, <1>2 DEF Candidates, Resolves, Before, Paths
<1>3. CASE g = "plain"
  BY <1>1, <1>3 DEF Candidates, Resolves, Before, Paths
<1>4. CASE g \in {"html", "index"}
  BY <1>1, <1>4 DEF Candidates, Resolves, Before, Paths
<1>5. QED
  BY <1>2, <1>3, <1>4

\* A candidate that is there, is there as one of Files.
LEMMA PresentIsContent ==
    ASSUME NEW d \in Disks, NEW q, NEW g, Present(d, q, g)
    PROVE  <<q, g>> \in Files /\ d[<<q, g>>] \in Contents
BY DEF Present, Disks

LEMMA StoreIsDisk ==
    ASSUME TypeOK, NEW c \in Clients
    PROVE  Store(c) \in Disks
BY DEF TypeOK, Store

LEMMA WantedIsCoding ==
    ASSUME NEW a
    PROVE  Wanted(a) \in Codings
BY DEF Wanted, Codings

-----------------------------------------------------------------------------
(* Types *)

LEMMA InitTypes == Init => TypeOK
<1> SUFFICES ASSUME Init PROVE TypeOK
  OBVIOUS
<1>1. disk \in Disks
  <2>1. PICK held \in [FilePaths -> Contents \cup {Absent}], cs \in SUBSET {"br", "gz"} :
          disk = [f \in Files |-> IF f[2] \in cs \cup {"identity"} THEN held[f[1]] ELSE Absent]
    BY DEF Init
  <2>2. \A f \in Files : f[1] \in FilePaths
    BY DEF Files
  <2>3. QED
    BY <2>1, <2>2 DEF Disks
<1>2. NoAnswer \in Responses
  BY DEF NoAnswer, Responses, Codings
<1>3. disk \in Disks /\ bundle \in Disks /\ Consistent(disk) /\ edits \in 0 .. MaxEdits
  BY <1>1, EditsAreBounded DEF Init
<1>4. /\ pc \in [Clients -> {"idle", "find", "read", "done"}]
      /\ ask \in [Clients -> Requests \cup {None}]
      /\ view \in [Clients -> Disks]
      /\ asset \in [Clients -> Contents \cup {Absent}]
      /\ answer \in [Clients -> Responses]
  BY <1>1, <1>2, Zenon DEF Init
<1>4a. at \in [Clients -> 1 .. 3]
  BY DEF Init
<1>5. /\ kept = [c \in Clients |-> {}]
      /\ during = [c \in Clients |-> {}]
  BY DEF Init
<1>6. /\ kept \in [Clients -> SUBSET [url: Paths, accept: SUBSET {"br", "gzip"},
                                     coding: Codings, content: Contents \cup {Absent}]]
      /\ during \in [Clients -> SUBSET (Files \X (Contents \cup {Absent}))]
  BY <1>5
<1>7. \A c \in Clients : pc[c] = "idle" /\ at[c] = 1 /\ asset[c] = Absent
  BY DEF Init
<1>8. QED
  BY <1>3, <1>4, <1>4a, <1>6, <1>7, Zenon DEF TypeOK

\* Only the developer's steps touch the directory and the bundle.
LEMMA ChangeTypes ==
    ASSUME TypeOK, NEW d \in Disks, Change(d)
    PROVE  TypeOK'
<1>1. edits' \in 0 .. MaxEdits
  BY EditsAreBounded DEF TypeOK, Change
<1>2. during' \in [Clients -> SUBSET (Files \X (Contents \cup {Absent}))]
  BY DEF TypeOK, Change, Witness, Disks
<1>3. QED
  BY <1>1, <1>2 DEF TypeOK, Change

LEMMA DevelopTypes == TypeOK /\ Develop => TypeOK'
<1> SUFFICES ASSUME TypeOK, Develop PROVE TypeOK'
  OBVIOUS
<1>1. ASSUME NEW q \in FilePaths, NEW x \in Contents, Save(q, x) PROVE TypeOK'
  <2>1. [disk EXCEPT ![<<q, "identity">>] = x] \in Disks
    BY DEF TypeOK, Disks
  <2>2. QED
    BY <1>1, <2>1, ChangeTypes DEF Save
<1>2. ASSUME NEW f \in Files, Remove(f) PROVE TypeOK'
  <2>1. [disk EXCEPT ![f] = Absent] \in Disks
    BY DEF TypeOK, Disks
  <2>2. QED
    BY <1>2, <2>1, ChangeTypes DEF Remove
<1>3. ASSUME NEW q \in FilePaths, NEW g \in Codings, Compress(q, g) PROVE TypeOK'
  <2>1. [disk EXCEPT ![<<q, g>>] = disk[<<q, "identity">>]] \in Disks
    BY <1>3, PresentIsContent DEF TypeOK, Compress, Disks, Present
  <2>2. QED
    BY <1>3, <2>1, ChangeTypes DEF Compress
<1>4. CASE Deploy
  <2>1. edits' \in 0 .. MaxEdits
    BY <1>4, EditsAreBounded DEF TypeOK, Deploy
  <2>2. QED
    BY <1>4, <2>1 DEF TypeOK, Deploy
<1>5. QED
  BY <1>1, <1>2, <1>3, <1>4 DEF Develop

LEMMA AnswerTypes ==
    ASSUME TypeOK, NEW c \in Clients, pc[c] # "idle", NEW r \in Responses, Answer(c, r),
           asset' \in [Clients -> Contents \cup {Absent}],
           \A d \in Clients \ {c} : asset'[d] = asset[d]
    PROVE  TypeOK'
BY DEF TypeOK, Answer, storeVars

LEMMA BuildTypes ==
    ASSUME TypeOK, NEW c \in Clients, pc[c] # "idle", NEW g \in Codings, NEW x \in Contents,
           Build(c, g, x), asset' \in [Clients -> Contents \cup {Absent}],
           \A d \in Clients \ {c} : asset'[d] = asset[d]
    PROVE  TypeOK'
<1> DEFINE r == [status |-> IF <<x, g>> \in ask[c].match THEN "304" ELSE "200",
                 coding |-> g, content |-> x]
<1>1. r \in Responses
  BY DEF Responses
<1>2. QED
  BY <1>1, AnswerTypes DEF Build

LEMMA GotTypes ==
    ASSUME TypeOK, NEW c \in Clients, pc[c] # "idle", NEW x \in Contents, Got(c, x)
    PROVE  TypeOK'
<1>1. CASE asset[c] = Absent /\ Wanted(ask[c].accept) # "identity"
  BY <1>1 DEF TypeOK, Got, storeVars
<1>2. CASE ~(asset[c] = Absent /\ Wanted(ask[c].accept) # "identity")
  <2>1. /\ asset' \in [Clients -> Contents \cup {Absent}]
        /\ \A d \in Clients \ {c} : asset'[d] = asset[d]
    BY <1>2 DEF TypeOK, Got
  <2>2. Coding(c) \in Codings
    BY WantedIsCoding DEF Coding, Codings
  <2>3. QED
    BY <1>2, <2>1, <2>2, BuildTypes DEF Got
<1>3. QED
  BY <1>1, <1>2

LEMMA ClientTypes ==
    ASSUME TypeOK, NEW c \in Clients, Refuse(c) \/ Probe(c) \/ Take(c)
    PROVE  TypeOK'
<1>0. \A st \in {"404", "500", "refused"} : [NoAnswer EXCEPT !.status = st] \in Responses
  BY DEF NoAnswer, Responses, Codings
<1>1. CASE Refuse(c)
  BY <1>0, <1>1, AnswerTypes DEF Refuse, TypeOK
<1>2. CASE FindInMemory(c)
  <2>1. view[c] \in Disks
    BY DEF TypeOK
  <2>2. QED
    BY <1>2, <2>1, PresentIsContent, GotTypes DEF FindInMemory
<1>3. CASE FileExists(c)
  BY <1>3 DEF FileExists, TypeOK, storeVars
<1>4. CASE ReadFile(c)
  BY <1>4, PresentIsContent, GotTypes DEF ReadFile, TypeOK
<1>5. CASE ReadFails(c) \/ StatFails(c)
  BY <1>0, <1>5, AnswerTypes DEF ReadFails, StatFails, Fail, TypeOK
<1>6. CASE Missing(c)
  <2>1. CASE asset[c] = Absent /\ ~LastCandidate(c)
    <3>1. ask[c].url \in Paths
      BY <1>6 DEF TypeOK, Missing, Requests
    <3>2. at[c] < Len(Candidates(ask[c].url))
      BY <1>6, <2>1, <3>1, CandidatesResolve DEF TypeOK, Missing, LastCandidate
    <3>3. at[c] + 1 \in 1 .. 3 /\ at[c] + 1 <= Len(Candidates(ask[c].url))
      BY <3>1, <3>2, CandidatesResolve DEF TypeOK
    <3>4. /\ at' = [at EXCEPT ![c] = at[c] + 1]
          /\ pc[c] = "find"
          /\ UNCHANGED <<disk, bundle, edits, pc, ask, view, asset, answer, kept, during>>
      BY <1>6, <2>1 DEF Missing, storeVars
    <3>5. QED
      BY <3>3, <3>4 DEF TypeOK
  <2>2. CASE asset[c] = Absent /\ LastCandidate(c)
    BY <1>0, <1>6, <2>2, AnswerTypes DEF TypeOK, Missing
  <2>3. CASE asset[c] # Absent
    BY <1>6, <2>3, BuildTypes DEF TypeOK, Missing, Codings
  <2>4. QED
    BY <2>1, <2>2, <2>3
<1>7. CASE Take(c)
  <2>1. NoAnswer \in Responses
    BY DEF NoAnswer, Responses, Codings
  <2>2. kept' \in [Clients -> SUBSET [url: Paths, accept: SUBSET {"br", "gzip"},
                                      coding: Codings, content: Contents \cup {Absent}]]
    <3>1. [url |-> ask[c].url, accept |-> ask[c].accept,
           coding |-> answer[c].coding, content |-> answer[c].content]
            \in [url: Paths, accept: SUBSET {"br", "gzip"},
                 coding: Codings, content: Contents \cup {Absent}]
      BY <1>7 DEF Take, TypeOK, Requests, Responses
    <3>2. QED
      BY <1>7, <3>1 DEF Take, TypeOK
  <2>3. QED
    BY <1>7, <2>1, <2>2 DEF Take, TypeOK, storeVars
<1>8. QED
  BY <1>1, <1>2, <1>3, <1>4, <1>5, <1>6, <1>7 DEF Probe

LEMMA SendTypes ==
    ASSUME TypeOK, NEW c \in Clients, NEW u \in Paths, NEW a \in SUBSET {"br", "gzip"},
           NEW s \in Sources, Send(c, u, a, s)
    PROVE  TypeOK'
<1>1. PICK m \in SUBSET Validators(c, u, a) :
        ask' = [ask EXCEPT ![c] = [url |-> u, accept |-> a, src |-> s, match |-> m]]
  BY DEF Send
<1>2. Validators(c, u, a) \subseteq Etags
  BY DEF TypeOK, Validators, Etags
<1>3. ask' \in [Clients -> Requests \cup {None}]
  BY <1>1, <1>2 DEF TypeOK, Requests
<1>4. during' \in [Clients -> SUBSET (Files \X (Contents \cup {Absent}))]
  BY DEF Send, TypeOK, Disks
<1>5. ask'[c] \in Requests /\ at[c] = 1 /\ at'[c] <= Len(Candidates(ask'[c].url))
  <2>2. ask'[c] \in Requests /\ ask'[c].url = u
    BY <1>1, <1>2 DEF TypeOK, Requests
  <2>3. pc[c] = "idle" /\ at' = at
    BY DEF Send
  <2>4. at[c] = 1
    BY <2>3 DEF TypeOK
  <2>5. Len(Candidates(u)) \in 1 .. 3
    BY CandidatesResolve
  <2>6. Len(Candidates(ask'[c].url)) = Len(Candidates(u))
    BY <2>2, Zenon
  <2>7. at'[c] = 1
    BY <2>3, <2>4, Zenon
  <2>8. at'[c] <= Len(Candidates(ask'[c].url))
    BY <2>5, <2>6, <2>7
  <2>9. QED
    BY <2>2, <2>4, <2>8, Zenon
<1>6. QED
  BY <1>1, <1>3, <1>4, <1>5 DEF TypeOK, Send, storeVars

LEMMA TypeStep == TypeOK /\ [Next]_vars => TypeOK'
<1> SUFFICES ASSUME TypeOK, [Next]_vars PROVE TypeOK'
  OBVIOUS
<1>1. CASE Develop
  BY <1>1, DevelopTypes
<1>2. ASSUME NEW c \in Clients, NEW u \in Paths, NEW a \in SUBSET {"br", "gzip"},
             NEW s \in Sources, Send(c, u, a, s)
      PROVE  TypeOK'
  BY <1>2, SendTypes
<1>3. ASSUME NEW c \in Clients, Refuse(c) \/ Probe(c) \/ Take(c) PROVE TypeOK'
  BY <1>3, ClientTypes
<1>4. CASE UNCHANGED vars
  BY <1>4 DEF vars, TypeOK
<1>5. QED
  BY <1>1, <1>2, <1>3, <1>4 DEF Next

-----------------------------------------------------------------------------
(* The invariant of one client *)

\* A step that leaves a client alone, and tells it what became of its store.
LEMMA Frame ==
    ASSUME NEW d \in Clients, ClientInv(d),
           pc'[d] = pc[d], ask'[d] = ask[d], at'[d] = at[d], asset'[d] = asset[d],
           answer'[d] = answer[d], kept'[d] = kept[d], during[d] \subseteq during'[d],
           Watched(d)'
    PROVE  ClientInv(d)'
<1> USE DEF ClientInv
<1>1. Progress(d)'
  BY DEF Progress, Running, WasMissing, Held, Path
<1>2. Reading(d)' /\ Validated(d)'
  BY DEF Reading, Validated, Existed, Held, Path, Coding
<1>3. FirstMatchFor(d)'
  BY DEF FirstMatchFor, Served, Existed, WasMissing, Held, Path
<1>4. CurrentFor(d)' /\ NegotiatedFor(d)'
  BY DEF CurrentFor, NegotiatedFor, Served, WasMissing, Held, Path
<1>5. ErrorHasCauseFor(d)'
  BY DEF ErrorHasCauseFor, Existed, Held
<1>6. QED
  BY <1>1, <1>2, <1>3, <1>4, <1>5

\* The candidate being tried is one of the URL's files, and what comes before
\* it was tried.
LEMMA PathResolves ==
    ASSUME TypeOK, NEW c \in Clients, ClientInv(c), pc[c] # "idle"
    PROVE  /\ Path(c) \in Resolves(ask[c].url)
           /\ \A q \in Before(ask[c].url, Path(c)) : WasMissing(c, q, "identity")
<1>1. ask[c].url \in Paths /\ at[c] \in 1 .. Len(Candidates(ask[c].url))
  BY CandidatesResolve DEF TypeOK, Requests
<1>2. QED
  BY <1>1, CandidatesResolve DEF Path, ClientInv, Progress

\* What the store does not have was missing.
LEMMA AbsentWasMissing ==
    ASSUME TypeOK, NEW c \in Clients, ClientInv(c), Running(c), NEW p, NEW g,
           ~Present(Store(c), p, g)
    PROVE  WasMissing(c, p, g)
BY DEF ClientInv, Watched, Present, WasMissing, Held

\* What the store has was there.
LEMMA PresentIsHeld ==
    ASSUME TypeOK, NEW c \in Clients, ClientInv(c), Running(c), NEW p, NEW g,
           Present(Store(c), p, g)
    PROVE  Held(c, p, g, Store(c)[<<p, g>>]) /\ Existed(c, p, g)
<1>1. <<p, g>> \in Files /\ Store(c)[<<p, g>>] \in Contents
  BY StoreIsDisk, PresentIsContent
<1>2. QED
  BY <1>1 DEF ClientInv, Watched, Held, Existed

\* An answer leaves everything but the response and the asset as it was.
LEMMA AnswerKeeps ==
    ASSUME TypeOK, NEW c \in Clients, ClientInv(c), Running(c), NEW r, Answer(c, r),
           asset'[c] # Absent => Held(c, Path(c), "identity", asset'[c])
    PROVE  /\ pc'[c] = "done" /\ answer'[c] = r
           /\ ask' = ask /\ at' = at /\ kept' = kept /\ during' = during
           /\ Watched(c)' /\ Progress(c)' /\ Reading(c)' /\ Validated(c)'
<1>1. /\ pc'[c] = "done" /\ answer'[c] = r
      /\ ask' = ask /\ at' = at /\ kept' = kept /\ during' = during
  BY DEF Answer, TypeOK
<1>2. Watched(c)' /\ Reading(c)'
  BY <1>1 DEF Watched, Reading, Running
<1>3. Progress(c)'
  BY <1>1 DEF ClientInv, Progress, Running, WasMissing, Held, Path
<1>4. Validated(c)'
  BY <1>1 DEF ClientInv, Validated, Running
<1>5. QED
  BY <1>1, <1>2, <1>3, <1>4

LEMMA BuildInv ==
    ASSUME TypeOK, NEW c \in Clients, ClientInv(c), Running(c),
           NEW g, NEW x \in Contents, Build(c, g, x),
           asset'[c] # Absent => Held(c, Path(c), "identity", asset'[c]),
           Existed(c, Path(c), "identity"), Held(c, Path(c), g, x),
           g = "br" => "br" \in ask[c].accept,
           g = "gz" => "gzip" \in ask[c].accept,
           g # "br" /\ "br" \in ask[c].accept => WasMissing(c, Path(c), "br")
    PROVE  ClientInv(c)'
<1> DEFINE r == [status |-> IF <<x, g>> \in ask[c].match THEN "304" ELSE "200",
                 coding |-> g, content |-> x]
<1>1. Answer(c, r)
  BY DEF Build
<1>2. /\ pc'[c] = "done" /\ answer'[c] = r
      /\ ask' = ask /\ at' = at /\ kept' = kept /\ during' = during
      /\ Watched(c)' /\ Progress(c)' /\ Reading(c)' /\ Validated(c)'
  <2> HIDE DEF r
  <2>1. QED
    BY <1>1, AnswerKeeps
<1>3. FirstMatchFor(c)'
  BY <1>2, PathResolves DEF FirstMatchFor, Served, Existed, WasMissing, Held, Path, Running
<1>4. CurrentFor(c)'
  <2>1. CASE <<x, g>> \in ask[c].match
    <3>1. PICK k \in kept[c] : /\ k.url = ask[c].url /\ k.accept = ask[c].accept
                               /\ k.content = x /\ k.coding = g
      BY <2>1 DEF ClientInv, Validated, Running
    <3>2. answer'[c].status = "304" /\ answer'[c].coding = g /\ k \in kept'[c]
      BY <1>2, <2>1
    <3>3. Held(c, Path(c), k.coding, k.content)'
      BY <1>2, <3>1 DEF Held, Path
    <3>4. k.url = ask'[c].url /\ k.accept = ask'[c].accept
      BY <1>2, <3>1
    <3>5. QED
      BY <3>1, <3>2, <3>3, <3>4 DEF CurrentFor
  <2>2. CASE <<x, g>> \notin ask[c].match
    BY <1>2, <2>2 DEF CurrentFor, Served, Held, Path
  <2>3. QED
    BY <2>1, <2>2
<1>5. NegotiatedFor(c)'
  BY <1>2 DEF NegotiatedFor, WasMissing, Held, Path
<1>6. ErrorHasCauseFor(c)'
  BY <1>2 DEF ErrorHasCauseFor
<1>7. QED
  BY <1>2, <1>3, <1>4, <1>5, <1>6 DEF ClientInv

\* An error answer: only ErrorHasCauseFor has something to say.
LEMMA ErrorInv ==
    ASSUME TypeOK, NEW c \in Clients, ClientInv(c), Running(c), asset' = asset,
           NEW st \in {"404", "500", "refused"},
           Answer(c, [NoAnswer EXCEPT !.status = st]),
           st = "404" => \A q \in Resolves(ask[c].url) : WasMissing(c, q, "identity"),
           st = "500" =>
              /\ ask[c].src = "fs"
              /\ \E p \in Resolves(ask[c].url) :
                   \/ p[2] \in {"slash", "index"} /\ Existed(c, <<p[1], "plain">>, "identity")
                   \/ \E g \in Codings : Existed(c, p, g) /\ Held(c, p, g, Absent)
    PROVE  ClientInv(c)'
<1>1. asset'[c] # Absent => Held(c, Path(c), "identity", asset'[c])
  BY DEF ClientInv, Progress, Running
<1>2. /\ pc'[c] = "done" /\ answer'[c] = [NoAnswer EXCEPT !.status = st]
      /\ ask' = ask /\ at' = at /\ kept' = kept /\ during' = during
      /\ Watched(c)' /\ Progress(c)' /\ Reading(c)' /\ Validated(c)'
  BY <1>1, AnswerKeeps, Zenon
<1>3. answer'[c].status = st
  BY <1>2 DEF NoAnswer
<1>4. FirstMatchFor(c)'
  BY <1>2, <1>3 DEF FirstMatchFor, Served, WasMissing, Held
<1>5. CurrentFor(c)' /\ NegotiatedFor(c)'
  BY <1>3 DEF CurrentFor, NegotiatedFor, Served
<1>6. ErrorHasCauseFor(c)'
  BY <1>2, <1>3 DEF ErrorHasCauseFor, Existed, Held
<1>7. QED
  BY <1>2, <1>4, <1>5, <1>6 DEF ClientInv

\* getAssetFn returned what the store has.
LEMMA GotInv ==
    ASSUME TypeOK, NEW c \in Clients, ClientInv(c), Running(c),
           Present(Store(c), Path(c), Coding(c)),
           Got(c, Store(c)[<<Path(c), Coding(c)>>])
    PROVE  ClientInv(c)'
<1> DEFINE x == Store(c)[<<Path(c), Coding(c)>>]
<1>1. x \in Contents /\ Held(c, Path(c), Coding(c), x) /\ Existed(c, Path(c), Coding(c))
  BY StoreIsDisk, PresentIsContent, PresentIsHeld
<1> HIDE DEF x
<1>2. CASE asset[c] = Absent /\ Wanted(ask[c].accept) # "identity"
  <2>1. /\ asset'[c] = x /\ pc'[c] = "find" /\ Coding(c) = "identity"
        /\ UNCHANGED <<disk, ask, view, at, answer, kept, during>>
    BY <1>2 DEF Got, TypeOK, Coding, storeVars, x
  <2>2. Watched(c)'
    BY <2>1 DEF ClientInv, Watched, Running, Store
  <2>3. Progress(c)'
    BY <1>1, <1>2, <2>1 DEF ClientInv, Progress, Running, WasMissing, Held, Path
  <2>4. Reading(c)' /\ Validated(c)'
    BY <2>1 DEF ClientInv, Reading, Validated, Running
  <2>5. FirstMatchFor(c)' /\ CurrentFor(c)' /\ NegotiatedFor(c)' /\ ErrorHasCauseFor(c)'
    BY <2>1 DEF FirstMatchFor, CurrentFor, NegotiatedFor, ErrorHasCauseFor, Served
  <2>6. QED
    BY <2>2, <2>3, <2>4, <2>5 DEF ClientInv
<1>3. CASE ~(asset[c] = Absent /\ Wanted(ask[c].accept) # "identity")
  <2>1. /\ asset'[c] = IF asset[c] = Absent THEN x ELSE asset[c]
        /\ Build(c, Coding(c), x)
    BY <1>3 DEF Got, TypeOK, x
  <2>2. asset[c] # Absent => Held(c, Path(c), "identity", asset[c])
    BY DEF ClientInv, Progress, Running
  <2>3. asset[c] = Absent => Coding(c) = "identity"
    BY DEF Coding
  <2>4. asset'[c] # Absent => Held(c, Path(c), "identity", asset'[c])
    BY <1>1, <2>1, <2>2, <2>3
  <2>5. Existed(c, Path(c), "identity")
    BY <1>1, <2>2, <2>3 DEF Existed, TypeOK
  <2>6. /\ Coding(c) = "br" => "br" \in ask[c].accept
        /\ Coding(c) = "gz" => "gzip" \in ask[c].accept
        /\ "br" \in ask[c].accept => Coding(c) = "br"
    BY <1>3 DEF Coding, Wanted
  <2>7. QED
    BY <1>1, <2>1, <2>4, <2>5, <2>6, BuildInv
<1>4. QED
  BY <1>2, <1>3

LEMMA MissingInv ==
    ASSUME TypeOK, NEW c \in Clients, ClientInv(c), Missing(c)
    PROVE  ClientInv(c)'
<1>1. Running(c) /\ pc[c] = "find" /\ WasMissing(c, Path(c), Coding(c))
  BY AbsentWasMissing DEF Missing, Running
<1>2. ask[c].url \in Paths /\ at[c] \in 1 .. Len(Candidates(ask[c].url))
  BY <1>1, CandidatesResolve DEF TypeOK, Requests
<1>3. CASE asset[c] = Absent /\ ~LastCandidate(c)
  <2>1. /\ at' = [at EXCEPT ![c] = at[c] + 1]
        /\ UNCHANGED <<disk, pc, ask, view, asset, answer, kept, during>>
    BY <1>3 DEF Missing, storeVars
  <2>2. at'[c] = at[c] + 1 /\ at[c] \in 1 .. 3
    BY <2>1 DEF TypeOK
  <2>3. \A j \in 1 .. at'[c] - 1 : WasMissing(c, Candidates(ask[c].url)[j], "identity")
    BY <1>1, <1>3, <2>2 DEF ClientInv, Progress, Path, Coding
  <2>4. Progress(c)'
    BY <1>3, <2>1, <2>3 DEF Progress, WasMissing, Held
  <2>5. Watched(c)' /\ Reading(c)' /\ Validated(c)'
    BY <1>1, <2>1 DEF ClientInv, Watched, Reading, Validated, Running, Store
  <2>6. FirstMatchFor(c)' /\ CurrentFor(c)' /\ NegotiatedFor(c)' /\ ErrorHasCauseFor(c)'
    BY <1>1, <2>1 DEF FirstMatchFor, CurrentFor, NegotiatedFor, ErrorHasCauseFor, Served
  <2>7. QED
    BY <2>4, <2>5, <2>6 DEF ClientInv
<1>4. CASE asset[c] = Absent /\ LastCandidate(c)
  <2>1. Answer(c, [NoAnswer EXCEPT !.status = "404"]) /\ asset' = asset
    BY <1>4 DEF Missing
  <2>2. \A j \in 1 .. Len(Candidates(ask[c].url)) :
          WasMissing(c, Candidates(ask[c].url)[j], "identity")
    BY <1>1, <1>2, <1>4 DEF ClientInv, Progress, Path, Coding, LastCandidate
  <2>3. \A q \in Resolves(ask[c].url) : WasMissing(c, q, "identity")
    BY <1>2, <2>2, CandidatesResolve
  <2>4. QED
    BY <1>1, <2>1, <2>3, ErrorInv
<1>5. CASE asset[c] # Absent
  <2>1. Build(c, "identity", asset[c]) /\ asset' = asset /\ asset[c] \in Contents
    BY <1>5 DEF Missing, TypeOK
  <2>2. Held(c, Path(c), "identity", asset[c]) /\ Existed(c, Path(c), "identity")
    BY <1>1, <1>5, <2>1 DEF ClientInv, Progress, Existed
  <2>3. "br" \in ask[c].accept => WasMissing(c, Path(c), "br")
    BY <1>1, <1>5 DEF Coding, Wanted
  <2>4. QED
    BY <1>1, <2>1, <2>2, <2>3, BuildInv
<1>6. QED
  BY <1>3, <1>4, <1>5

LEMMA FailInv ==
    ASSUME TypeOK, NEW c \in Clients, ClientInv(c), ReadFails(c) \/ StatFails(c)
    PROVE  ClientInv(c)'
<1>1. Running(c) /\ Answer(c, [NoAnswer EXCEPT !.status = "500"]) /\ asset' = asset
  BY DEF ReadFails, StatFails, Fail, Running
<1>2. Path(c) \in Resolves(ask[c].url)
  BY <1>1, PathResolves DEF Running
<1>3. CASE ReadFails(c)
  <2>1. ask[c].src = "fs" /\ Existed(c, Path(c), Coding(c)) /\ Store(c) = disk
    BY <1>3 DEF ClientInv, Reading, ReadFails, Store
  <2>2. WasMissing(c, Path(c), Coding(c))
    BY <1>1, <1>3, <2>1, AbsentWasMissing DEF ReadFails
  <2>3. <<Path(c), Coding(c)>> \in Files
    <3>1. PICK x \in Contents : <<<<Path(c), Coding(c)>>, x>> \in during[c]
      BY <2>1 DEF Existed, Held
    <3>2. during[c] \subseteq Files \X (Contents \cup {Absent})
      BY DEF TypeOK
    <3>3. QED
      BY <3>1, <3>2
  <2>4. Held(c, Path(c), Coding(c), Absent) /\ Coding(c) \in Codings
    BY <2>2, <2>3 DEF WasMissing, Files
  <2>5. QED
    BY <1>1, <1>2, <2>1, <2>4, ErrorInv
<1>4. CASE StatFails(c)
  <2>1. ask[c].src = "fs" /\ Store(c) = disk /\ Path(c)[2] \in {"slash", "index"}
        /\ Present(Store(c), <<Path(c)[1], "plain">>, "identity")
    BY <1>4 DEF StatFails, NotADirectory, Store
  <2>2. Existed(c, <<Path(c)[1], "plain">>, "identity")
    BY <1>1, <2>1, PresentIsHeld
  <2>3. QED
    BY <1>1, <1>2, <2>1, <2>2, ErrorInv
<1>5. QED
  BY <1>3, <1>4

\* One step of the client's own request.
LEMMA OwnStep ==
    ASSUME TypeOK, NEW c \in Clients, ClientInv(c), Refuse(c) \/ Probe(c) \/ Take(c)
    PROVE  ClientInv(c)'
<1>1. CASE Refuse(c)
  <2>1. Running(c) /\ Answer(c, [NoAnswer EXCEPT !.status = "refused"]) /\ asset' = asset
    BY <1>1 DEF Refuse, Running
  <2>2. QED
    BY <2>1, ErrorInv
<1>2. CASE FindInMemory(c)
  <2>1. Running(c) /\ Store(c) = view[c]
    BY <1>2, SourcesAssumption DEF FindInMemory, Running, Store
  <2>2. QED
    BY <1>2, <2>1, GotInv DEF FindInMemory
<1>3. CASE FileExists(c)
  <2>1. /\ pc[c] = "find" /\ pc'[c] = "read" /\ ask[c].src = "fs" /\ Store(c) = disk
        /\ Present(Store(c), Path(c), Coding(c))
        /\ UNCHANGED <<disk, ask, view, at, asset, answer, kept, during>>
    BY <1>3 DEF FileExists, TypeOK, Store, storeVars
  <2>2. Existed(c, Path(c), Coding(c))
    BY <2>1, PresentIsHeld DEF Running
  <2>3. Reading(c)'
    BY <2>1, <2>2 DEF Reading, Existed, Held, Path, Coding
  <2>4. Watched(c)' /\ Progress(c)' /\ Validated(c)'
    BY <2>1 DEF ClientInv, Watched, Progress, Validated, Running, Store, WasMissing, Held, Path
  <2>5. FirstMatchFor(c)' /\ CurrentFor(c)' /\ NegotiatedFor(c)' /\ ErrorHasCauseFor(c)'
    BY <2>1 DEF FirstMatchFor, CurrentFor, NegotiatedFor, ErrorHasCauseFor, Served
  <2>6. QED
    BY <2>3, <2>4, <2>5 DEF ClientInv
<1>4. CASE ReadFile(c)
  <2>1. Running(c) /\ Store(c) = disk
    BY <1>4 DEF ReadFile, Running, Store, ClientInv, Reading
  <2>2. QED
    BY <1>4, <2>1, GotInv DEF ReadFile
<1>5. CASE ReadFails(c) \/ StatFails(c)
  BY <1>5, FailInv
<1>6. CASE Missing(c)
  BY <1>6, MissingInv
<1>7. CASE Take(c)
  <2>1. pc'[c] = "idle"
    BY <1>7 DEF Take, TypeOK
  <2>2. QED
    BY <2>1 DEF ClientInv, Watched, Progress, Reading, Validated, Running, Served,
                FirstMatchFor, CurrentFor, NegotiatedFor, ErrorHasCauseFor
<1>8. QED
  BY <1>1, <1>2, <1>3, <1>4, <1>5, <1>6, <1>7 DEF Probe

LEMMA SendInv ==
    ASSUME TypeOK, NEW c \in Clients, ClientInv(c), NEW u \in Paths,
           NEW a \in SUBSET {"br", "gzip"}, NEW s \in Sources, Send(c, u, a, s)
    PROVE  ClientInv(c)'
<1>1. PICK m \in SUBSET Validators(c, u, a) :
        ask' = [ask EXCEPT ![c] = [url |-> u, accept |-> a, src |-> s, match |-> m]]
  BY DEF Send
<1>2. ask'[c] = [url |-> u, accept |-> a, src |-> s, match |-> m]
  BY <1>1 DEF TypeOK
<1>3. /\ pc'[c] = "find" /\ view'[c] = bundle
      /\ at'[c] = 1 /\ asset'[c] = Absent
      /\ during'[c] = {<<f, IF s = "fs" THEN disk[f] ELSE bundle[f]>> : f \in Files}
      /\ disk' = disk /\ kept' = kept
  BY DEF Send, TypeOK, storeVars
<1>4. Watched(c)'
  BY <1>2, <1>3 DEF Watched, Store
<1>5. Progress(c)' /\ Reading(c)'
  BY <1>3 DEF Progress, Reading
<1>6. Validated(c)'
  <2>1. ASSUME NEW e \in m
        PROVE  \E k \in kept[c] : k.url = u /\ k.accept = a /\ k.content = e[1] /\ k.coding = e[2]
    <3>1. PICK k \in {k \in kept[c] : k.url = u /\ k.accept = a} : e = <<k.content, k.coding>>
      BY DEF Validators
    <3>2. QED
      BY <3>1
  <2>2. QED
    BY <1>2, <1>3, <2>1 DEF Validated
<1>7. FirstMatchFor(c)' /\ CurrentFor(c)' /\ NegotiatedFor(c)' /\ ErrorHasCauseFor(c)'
  BY <1>3 DEF FirstMatchFor, CurrentFor, NegotiatedFor, ErrorHasCauseFor, Served
<1>8. QED
  BY <1>4, <1>5, <1>6, <1>7 DEF ClientInv

\* A step of one client does not reach another.
LEMMA OthersStep ==
    ASSUME TypeOK, NEW c \in Clients, NEW d \in Clients, d # c, ClientInv(d),
           \/ Refuse(c) \/ Probe(c) \/ Take(c)
           \/ \E u \in Paths, a \in SUBSET {"br", "gzip"}, s \in Sources : Send(c, u, a, s)
    PROVE  ClientInv(d)'
<1>1. /\ pc'[d] = pc[d] /\ ask'[d] = ask[d] /\ at'[d] = at[d] /\ asset'[d] = asset[d]
      /\ answer'[d] = answer[d] /\ kept'[d] = kept[d] /\ during'[d] = during[d]
      /\ view'[d] = view[d] /\ disk' = disk
  <2>2. CASE Refuse(c) \/ ReadFails(c) \/ StatFails(c)
    BY <2>2 DEF Refuse, ReadFails, StatFails, Fail, Answer, TypeOK, storeVars
  <2>3. ASSUME NEW x, Got(c, x) PROVE <1>1
    BY <2>3 DEF Got, Build, Answer, TypeOK, storeVars
  <2>4. CASE FindInMemory(c) \/ ReadFile(c)
    BY <2>3, <2>4 DEF FindInMemory, ReadFile
  <2>5. CASE FileExists(c)
    BY <2>5 DEF FileExists, TypeOK, storeVars
  <2>6. CASE Missing(c)
    BY <2>6 DEF Missing, Build, Answer, TypeOK, storeVars
  <2>7. CASE Take(c)
    BY <2>7 DEF Take, TypeOK, storeVars
  <2>8. CASE \E u \in Paths, a \in SUBSET {"br", "gzip"}, s \in Sources : Send(c, u, a, s)
    BY <2>8 DEF Send, TypeOK, storeVars
  <2>9. QED
    BY <2>2, <2>4, <2>5, <2>6, <2>7, <2>8 DEF Probe
<1>2. Watched(d)'
  BY <1>1 DEF ClientInv, Watched, Running, Store
<1>3. QED
  BY <1>1, <1>2, Frame

LEMMA DevelopStep ==
    ASSUME TypeOK, NEW d \in Clients, ClientInv(d), Develop
    PROVE  ClientInv(d)'
<1>1. CASE \E e \in Disks : Change(e)
  <2>1. PICK e \in Disks : Change(e)
    BY <1>1
  <2>2. /\ disk' = e /\ UNCHANGED <<pc, ask, view, at, asset, answer, kept>>
        /\ during'[d] = IF pc[d] \in {"find", "read"} /\ ask[d].src = "fs"
                        THEN during[d] \cup {<<f, e[f]>> : f \in Files} ELSE during[d]
    BY <2>1 DEF Change, Witness
  <2>3. Watched(d)'
    BY <2>2 DEF ClientInv, Watched, Running, Store
  <2>4. QED
    BY <2>2, <2>3, Frame
<1>2. CASE Deploy
  <2>1. UNCHANGED <<disk, pc, ask, view, at, asset, answer, kept, during>>
    BY <1>2 DEF Deploy
  <2>2. Watched(d)'
    BY <2>1 DEF ClientInv, Watched, Running, Store
  <2>3. QED
    BY <2>1, <2>2, Frame
<1>3. (\E e \in Disks : Change(e)) \/ Deploy
  <2>1. ASSUME NEW q \in FilePaths, NEW x \in Contents, Save(q, x) PROVE <1>3
    <3>1. [disk EXCEPT ![<<q, "identity">>] = x] \in Disks
      BY DEF TypeOK, Disks
    <3>2. QED
      BY <2>1, <3>1 DEF Save
  <2>2. ASSUME NEW f \in Files, Remove(f) PROVE <1>3
    <3>1. [disk EXCEPT ![f] = Absent] \in Disks
      BY DEF TypeOK, Disks
    <3>2. QED
      BY <2>2, <3>1 DEF Remove
  <2>3. ASSUME NEW q \in FilePaths, NEW g \in Codings, Compress(q, g) PROVE <1>3
    <3>1. [disk EXCEPT ![<<q, g>>] = disk[<<q, "identity">>]] \in Disks
      BY <2>3 DEF TypeOK, Compress, Disks, Present
    <3>2. QED
      BY <2>3, <3>1 DEF Compress
  <2>4. QED
    BY <2>1, <2>2, <2>3 DEF Develop
<1>4. QED
  BY <1>1, <1>2, <1>3

-----------------------------------------------------------------------------
(* Theorems *)

LEMMA InitInv == Init => IInv
<1> SUFFICES ASSUME Init PROVE IInv
  OBVIOUS
<1>1. ASSUME NEW c \in Clients PROVE ClientInv(c)
  <2>1. pc[c] = "idle"
    BY DEF Init
  <2>2. QED
    BY <2>1 DEF ClientInv, Watched, Progress, Reading, Validated, Running, Served,
                FirstMatchFor, CurrentFor, NegotiatedFor, ErrorHasCauseFor
<1>2. QED
  BY <1>1, InitTypes DEF IInv

LEMMA NextInv == IInv /\ [Next]_vars => IInv'
<1> SUFFICES ASSUME IInv, [Next]_vars PROVE IInv'
  OBVIOUS
<1>1. TypeOK'
  BY TypeStep DEF IInv
<1>2. ASSUME NEW d \in Clients PROVE ClientInv(d)'
  <2>1. TypeOK /\ ClientInv(d)
    BY DEF IInv
  <2>2. CASE Develop
    BY <2>1, <2>2, DevelopStep
  <2>3. ASSUME NEW c \in Clients, NEW u \in Paths, NEW a \in SUBSET {"br", "gzip"},
               NEW s \in Sources, Send(c, u, a, s)
        PROVE  ClientInv(d)'
    BY <2>1, <2>3, SendInv, OthersStep
  <2>4. ASSUME NEW c \in Clients, Refuse(c) \/ Probe(c) \/ Take(c) PROVE ClientInv(d)'
    BY <2>1, <2>4, OwnStep, OthersStep
  <2>5. CASE UNCHANGED vars
    <3>1. Watched(d)'
      BY <2>1, <2>5 DEF vars, ClientInv, Watched, Running, Store
    <3>2. QED
      BY <2>1, <2>5, <3>1, Frame DEF vars
  <2>6. QED
    BY <2>2, <2>3, <2>4, <2>5 DEF Next
<1>3. QED
  BY <1>1, <1>2 DEF IInv

LEMMA Invariance == Spec => []IInv
  BY InitInv, NextInv, PTL DEF Spec

\* Every variable keeps its type: a request tries only the URL's candidates.
THEOREM TypeCorrect == Spec => []TypeOK
<1>1. IInv => TypeOK
  BY DEF IInv
<1>2. QED
  BY <1>1, Invariance, PTL

\* Whatever is edited while a request looks for its file, what it serves comes
\* first among the URL's files but for those that were missing at some moment.
THEOREM ResolutionIsOrdered == Spec => []FirstMatch
<1>1. IInv => FirstMatch
  BY DEF IInv, ClientInv, FirstMatch
<1>2. QED
  BY <1>1, Invariance, PTL

\* What a client shows, by a 200 or by a 304, the file held during the request.
THEOREM ResponsesAreCurrent == Spec => []Current
<1>1. IInv => Current
  BY DEF IInv, ClientInv, Current
<1>2. QED
  BY <1>1, Invariance, PTL

\* No client gets a coding it did not ask for.
THEOREM CodingsAreAccepted == Spec => []Negotiated
<1>1. IInv => Negotiated
  BY DEF IInv, ClientInv, Negotiated
<1>2. QED
  BY <1>1, Invariance, PTL

\* A 500 is the doing of an edit or of a file in the place of a directory, and
\* never answered from memory.
THEOREM ErrorsAreEdits == Spec => []ErrorsHaveCause
<1>1. IInv => ErrorsHaveCause
  BY DEF IInv, ClientInv, ErrorsHaveCause
<1>2. QED
  BY <1>1, Invariance, PTL
=============================================================================
