-------------------------- MODULE HotReloadProofs --------------------------
(***************************************************************************)
(* Proofs about HotReload, for every set of files and requests and every   *)
(* choice of the files that are watched and of the edits that fail.        *)
(***************************************************************************)
EXTENDS HotReload, TLAPS

-----------------------------------------------------------------------------
(* The inductive invariant *)

\* `dev` builds, then starts the watch, then serves.
Phases ==
    /\ main \in {"building", "built"} => watcher = "off"
    /\ main = "building" => served = None
    /\ main \in {"built", "serving"} => served \in Bundle

\* No builder is ahead of the disk, and a rebuild is not behind what is served.
ReadsInOrder ==
    \A f \in Files :
        /\ base[f] <= src[f]
        /\ \A p \in Builders : read[p][f] <= src[f]
        /\ served # None => served[f] <= src[f]
        /\ watcher = "building" /\ read["watcher"][f] # Unread /\ served # None
              => read["watcher"][f] >= served[f]

\* What is served bundles.
ServedGood == served # None => \A f \in Files : <<f, served[f]>> \notin BadContent

\* No request is ahead of what is served.
TakenBehind ==
    \A r \in Requests : taken[r] # None =>
        served # None /\ \A f \in Files : taken[r][f] <= served[f]

IInv ==
    /\ TypeOK
    /\ Phases /\ ReadsInOrder /\ ServedGood /\ TakenBehind
    /\ NoLostEdit /\ OnlyGoodServed

-----------------------------------------------------------------------------
(* Every step preserves it *)

LEMMA NoBundleIsNone == None \notin Bundle
<1>1. Bundle \subseteq [Files -> Int]
  BY DEF Bundle, Versions, Unread
<1>2. QED
  BY <1>1, FilesAssumption

\* Every variable keeps its type.
LEMMA TypeStep ==
    ASSUME TypeOK, Phases, [Next]_vars
    PROVE  TypeOK'
<1> USE DEF TypeOK, Bundle, Versions, Unread
<1>1. ASSUME NEW f \in Files, Edit(f) PROVE TypeOK'
  BY <1>1 DEF Edit
<1>2. ASSUME NEW p \in Builders, NEW f \in Files, ReadFile(p, f) PROVE TypeOK'
  BY <1>2 DEF ReadFile, watchVars, Builders
<1>3. CASE FirstBuild
  BY <1>3 DEF FirstBuild, watchVars, Builders
<1>4. CASE InitWatch \/ ServeError \/ Register
  BY <1>4 DEF InitWatch, ServeError, Register, watchVars
<1>5. CASE Debounce \/ Send
  BY <1>5 DEF Debounce, Send
<1>6. CASE Receive
  BY <1>6 DEF Receive, Builders, Nothing
<1>7. CASE Reload \/ ReloadError
  BY <1>7 DEF Reload, ReloadError, Builders
<1>8. ASSUME NEW r \in Requests, Take(r) PROVE TypeOK'
  BY <1>8 DEF Take, watchVars, Phases
<1>9. CASE UNCHANGED vars
  BY <1>9 DEF vars, watchVars
<1>10. QED
  BY <1>1, <1>2, <1>3, <1>4, <1>5, <1>6, <1>7, <1>8, <1>9 DEF Next, Quiescent

\* No edit falls between the watcher and the next rebuild.
LEMMA NoticeStep ==
    ASSUME TypeOK, NoLostEdit, [Next]_vars
    PROVE  NoLostEdit'
<1> USE DEF TypeOK, Bundle, Versions, NoLostEdit, Registered
<1>1. ASSUME NEW f \in Files, Edit(f) PROVE NoLostEdit'
  BY <1>1, FilesAssumption DEF Edit
<1>2. ASSUME NEW p \in Builders, NEW f \in Files, ReadFile(p, f) PROVE NoLostEdit'
  BY <1>2, FilesAssumption DEF ReadFile, watchVars, Builders
<1>3. CASE FirstBuild \/ InitWatch \/ ServeError
  BY <1>3 DEF FirstBuild, InitWatch, ServeError, watchVars
<1>4. CASE Register
  BY <1>4, FilesAssumption DEF Register
<1>5. CASE Debounce \/ Send
  BY <1>5 DEF Debounce, Send
<1>6. CASE Receive
  BY <1>6, FilesAssumption DEF Receive, Builders, Nothing
<1>7. CASE Reload \/ ReloadError
  BY <1>7, FilesAssumption DEF Reload, ReloadError, Building, AllRead, Builders
<1>8. ASSUME NEW r \in Requests, Take(r) PROVE NoLostEdit'
  BY <1>8 DEF Take, watchVars
<1>9. CASE UNCHANGED vars
  BY <1>9 DEF vars, watchVars
<1>10. QED
  BY <1>1, <1>2, <1>3, <1>4, <1>5, <1>6, <1>7, <1>8, <1>9 DEF Next, Quiescent

\* Bundles only get newer, and only those that build are installed.
LEMMA ServedStep ==
    ASSUME TypeOK, TypeOK', Phases, ReadsInOrder, ServedGood, [Next]_vars
    PROVE  Phases' /\ ReadsInOrder' /\ ServedGood'
<1> DEFINE I == Phases /\ ReadsInOrder /\ ServedGood
<1> USE NoBundleIsNone
    DEF TypeOK, Bundle, Versions, Unread, Phases, ReadsInOrder, ServedGood
<1>1. ASSUME NEW f \in Files, Edit(f) PROVE I'
  BY <1>1 DEF Edit, Builders
<1>2. ASSUME NEW p \in Builders, NEW f \in Files, ReadFile(p, f) PROVE I'
  BY <1>2 DEF ReadFile, watchVars, Builders
<1>3. CASE FirstBuild
  BY <1>3 DEF FirstBuild, Building, AllRead, Bundles, watchVars, Builders
<1>4. CASE InitWatch \/ ServeError \/ Register
  BY <1>4 DEF InitWatch, ServeError, Register, watchVars
<1>5. CASE Debounce \/ Send
  BY <1>5 DEF Debounce, Send
<1>6. CASE Receive
  BY <1>6 DEF Receive, Builders, Nothing
<1>7. CASE Reload \/ ReloadError
  BY <1>7 DEF Reload, ReloadError, Building, AllRead, Bundles, Builders
<1>8. ASSUME NEW r \in Requests, Take(r) PROVE I'
  BY <1>8 DEF Take, watchVars
<1>9. CASE UNCHANGED vars
  BY <1>9 DEF vars, watchVars
<1>10. QED
  BY <1>1, <1>2, <1>3, <1>4, <1>5, <1>6, <1>7, <1>8, <1>9 DEF Next, Quiescent

\* What is served never goes back.
LEMMA ServedGrows ==
    ASSUME IInv, [Next]_vars, served # None
    PROVE  served' # None /\ \A f \in Files : served'[f] >= served[f]
<1> USE NoBundleIsNone DEF IInv, TypeOK, Bundle, Versions, Unread
<1>1. CASE Reload
  BY <1>1 DEF Reload, Building, AllRead, ReadsInOrder, Builders
<1>2. CASE UNCHANGED served
  BY <1>2
<1>3. CASE FirstBuild
  BY <1>3 DEF FirstBuild, Building, Phases
<1>4. QED
  BY <1>1, <1>2, <1>3
     DEF Next, Edit, ReadFile, InitWatch, ServeError, Register, Debounce, Send, Receive,
         ReloadError, Take, Quiescent, vars

\* Requests hold bundles that were served, and stay behind what is served now.
LEMMA TakenStep ==
    ASSUME IInv, TypeOK', [Next]_vars
    PROVE  TakenBehind' /\ OnlyGoodServed'
<1> USE NoBundleIsNone
    DEF IInv, TypeOK, Bundle, Versions, Unread, TakenBehind, OnlyGoodServed
<1>1. ASSUME NEW r \in Requests, Take(r) PROVE TakenBehind' /\ OnlyGoodServed'
  BY <1>1 DEF Take, Phases, ServedGood
<1>2. CASE UNCHANGED taken
  <2>1. \A r \in Requests : taken[r] # None =>
            served' # None /\ \A f \in Files : served'[f] >= served[f]
    BY ServedGrows
  <2>2. TakenBehind'
    BY <1>2, <2>1
  <2>3. QED
    BY <1>2, <2>2
<1>3. QED
  BY <1>1, <1>2
     DEF Next, Edit, ReadFile, FirstBuild, InitWatch, ServeError, Register, Debounce, Send,
         Receive, Reload, ReloadError, Quiescent, vars

THEOREM InvariantHolds == Spec => []IInv
<1>1. Init => IInv
  <2> SUFFICES ASSUME Init PROVE IInv
    OBVIOUS
  <2> USE DEF Init, Nothing, Unread
  <2>1. TypeOK
    BY DEF TypeOK, Bundle, Versions
  <2>2. Phases /\ ServedGood /\ TakenBehind /\ OnlyGoodServed
    BY DEF Phases, ServedGood, TakenBehind, OnlyGoodServed
  <2>3. ReadsInOrder /\ NoLostEdit
    BY DEF ReadsInOrder, NoLostEdit, Registered, Builders
  <2>4. QED
    BY <2>1, <2>2, <2>3 DEF IInv
<1>2. IInv /\ [Next]_vars => IInv'
  BY TypeStep, NoticeStep, ServedStep, TakenStep DEF IInv
<1>3. QED
  BY <1>1, <1>2, PTL DEF Spec

-----------------------------------------------------------------------------
(* The properties it gives *)

\* Every variable keeps its type: the channel never holds more than one message.
THEOREM TypeCorrect == Spec => []TypeOK
<1>1. IInv => TypeOK
  BY DEF IInv
<1>2. QED
  BY <1>1, InvariantHolds, PTL

\* For any number of files and edits, a watched edit made after the registration is
\* in the last rebuild or is still going to be noticed.
THEOREM NoEditIsLost == Spec => []NoLostEdit
<1>1. IInv => NoLostEdit
  BY DEF IInv
<1>2. QED
  BY <1>1, InvariantHolds, PTL

\* No request runs a bundle with a file that does not bundle.
THEOREM BadBundlesNeverServed == Spec => []OnlyGoodServed
<1>1. IInv => OnlyGoodServed
  BY DEF IInv
<1>2. QED
  BY <1>1, InvariantHolds, PTL

\* A later request never runs an older version of any file than an earlier one.
THEOREM RequestsNeverGoBack == Spec => RequestsMoveForward
<1> DEFINE A == \A r, q \in Requests :
                    taken[r] = None /\ taken'[r] # None /\ taken[q] # None
                        => \A f \in Files : taken'[r][f] >= taken[q][f]
<1>1. IInv /\ [Next]_vars => [A]_vars
  <2> SUFFICES ASSUME IInv, [Next]_vars PROVE A
    OBVIOUS
  <2>1. ASSUME NEW r \in Requests, Take(r) PROVE A
    BY <2>1 DEF IInv, TypeOK, Bundle, Versions, Unread, Take, TakenBehind, Phases
  <2>2. CASE UNCHANGED taken
    BY <2>2
  <2>3. QED
    BY <2>1, <2>2
       DEF Next, Edit, ReadFile, FirstBuild, InitWatch, ServeError, Register, Debounce, Send,
           Receive, Reload, ReloadError, Quiescent, vars
<1>2. QED
  BY <1>1, InvariantHolds, PTL DEF Spec, RequestsMoveForward

=============================================================================
