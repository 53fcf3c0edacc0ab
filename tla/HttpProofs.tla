----------------------------- MODULE HttpProofs -----------------------------
(***************************************************************************)
(* What fetch(), the body of its response and the request and the response  *)
(* of node:http's client promise, for sources and bodies of any length,    *)
(* any number of redirects and any number of clones.                       *)
(***************************************************************************)
EXTENDS Fetch, ResponseBody, ClientRequest, ClientResponse, FiniteSetTheorems, WellFoundedInduction, TLAPS

-----------------------------------------------------------------------------
(* fetch() *)

\* A promise is settled once, and after the native head it belongs to.
PlaceOK ==
    /\ outcome = "none" <=> fetch # "done"
    /\ fetch = "upload" => reply = "ok"
    /\ fetch = "race" => reply \in Redirects
    /\ fetch = "idle" => upload = "off" /\ hops = 0

\* The body belongs to the first attempt: the later ones come after a stop.
AttemptOK ==
    /\ creator <=> hops = 0
    /\ hops > 0 => stopped
    /\ stopped => hops > 0 \/ fetch = "done" \/ signal = "aborted"
    /\ ~stopped /\ fetch = "done" => upload \in {"off", "settled"}
    /\ HasBody /\ fetch \in {"receiving", "race", "upload"} => upload # "off"

\* An upload that nobody stopped ends with its source, or with a failure.
UploadOK ==
    /\ failure # "none" => upload \in {"ended", "settled"}
    /\ source = "cancelled" => stopped
    /\ upload = "eof" /\ ~stopped => source = "closed"
    /\ upload \in {"ended", "settled"} /\ ~stopped /\ failure = "none" =>
           source = "closed" /\ wire # "open"
    /\ upload = "cancelling" => stopped
    /\ upload \in {"got", "writing"} => sent < Chunks
    /\ outcome = "response" /\ reply = "ok" /\ hops = 0 /\ HasBody => upload = "settled"

\* The inductive invariant: the promises, and what keeps them from one await to the next.
FetchIInv == FetchInv /\ PlaceOK /\ AttemptOK /\ UploadOK

\* The inductive invariant holds at every await of the two coroutines, whatever the
\* signal, the source and the server do between them.
LEMMA FetchInvariantHolds == FetchSpec => []FetchIInv
<1>1. FetchInit => FetchIInv
  <2> SUFFICES ASSUME FetchInit PROVE FetchIInv
    OBVIOUS
  <2> USE FetchAssumption DEF FetchInit, HasBody, Heads, Redirects, Errors, Running
  <2>1. FetchTypeOK
    <3>1. hops \in 0..MaxRedirects /\ sent \in 0..Chunks
      OBVIOUS
    <3>2. /\ creator \in BOOLEAN /\ discarded \in BOOLEAN
          /\ stopped \in BOOLEAN /\ firstChunk \in BOOLEAN
      BY Zenon
    <3> QED BY <3>1, <3>2 DEF FetchTypeOK
  <2>2. AbortWins /\ ResolvesAfterUpload /\ SourceFailureIsFatal
    BY DEF AbortWins, ResolvesAfterUpload, SourceFailureIsFatal
  <2>3. PlaceOK /\ AttemptOK /\ UploadOK
    BY DEF PlaceOK, AttemptOK, UploadOK
  <2> QED BY <2>1, <2>2, <2>3 DEF FetchIInv, FetchInv
<1>2. FetchIInv /\ [FetchNext]_FetchVars => FetchIInv'
  <2> SUFFICES ASSUME FetchIInv, [FetchNext]_FetchVars PROVE FetchIInv'
    OBVIOUS
  <2> USE FetchAssumption DEF FetchIInv, FetchInv, HasBody, Heads, Redirects, Errors, Running,
     attempt, sendVars
  <2>1. CASE Refuse
    <3>0. discarded' \in BOOLEAN
      BY <2>1 DEF Refuse, Settles, FetchTypeOK
    <3>1. FetchTypeOK'
      BY <2>1, <3>0 DEF Refuse, Settles, FetchTypeOK, AttemptOK, UploadOK
    <3>2. AbortWins' /\ ResolvesAfterUpload' /\ SourceFailureIsFatal'
      BY <2>1 DEF Refuse, Settles, FetchTypeOK, AbortWins, ResolvesAfterUpload,
         SourceFailureIsFatal, PlaceOK, AttemptOK, UploadOK
    <3>3. PlaceOK' /\ AttemptOK' /\ UploadOK'
      BY <2>1 DEF Refuse, Settles, FetchTypeOK, PlaceOK, AttemptOK, UploadOK
    <3> QED BY <3>1, <3>2, <3>3
  <2>2. CASE Send
    <3>1. FetchTypeOK'
      BY <2>2 DEF Send, HasBody, FetchTypeOK, AttemptOK, UploadOK
    <3>2. AbortWins' /\ ResolvesAfterUpload' /\ SourceFailureIsFatal'
      BY <2>2 DEF Send, HasBody, FetchTypeOK, AbortWins, ResolvesAfterUpload,
         SourceFailureIsFatal, PlaceOK, AttemptOK, UploadOK
    <3>3. PlaceOK' /\ AttemptOK' /\ UploadOK'
      BY <2>2 DEF Send, HasBody, FetchTypeOK, PlaceOK, AttemptOK, UploadOK
    <3> QED BY <3>1, <3>2, <3>3
  <2>3. CASE ReceiveFails
    <3>1. FetchTypeOK'
      BY <2>3 DEF ReceiveFails, Settles, StopUpload, StoppedSource, StoppedWire,
         FetchTypeOK, AttemptOK, UploadOK
    <3>2. AbortWins' /\ ResolvesAfterUpload' /\ SourceFailureIsFatal'
      BY <2>3 DEF ReceiveFails, Settles, StopUpload, StoppedSource, StoppedWire,
         FetchTypeOK, AbortWins, ResolvesAfterUpload, SourceFailureIsFatal, PlaceOK,
         AttemptOK, UploadOK
    <3>3. PlaceOK' /\ AttemptOK' /\ UploadOK'
      BY <2>3 DEF ReceiveFails, Settles, StopUpload, StoppedSource, StoppedWire,
         FetchTypeOK, PlaceOK, AttemptOK, UploadOK
    <3> QED BY <3>1, <3>2, <3>3
  <2>4. CASE Receive
    <3>1. FetchTypeOK'
      BY <2>4 DEF Receive, FetchTypeOK, AttemptOK, UploadOK
    <3>2. AbortWins' /\ ResolvesAfterUpload' /\ SourceFailureIsFatal'
      BY <2>4 DEF Receive, FetchTypeOK, AbortWins, ResolvesAfterUpload,
         SourceFailureIsFatal, PlaceOK, AttemptOK, UploadOK
    <3>3. PlaceOK' /\ AttemptOK' /\ UploadOK'
      BY <2>4 DEF Receive, FetchTypeOK, PlaceOK, AttemptOK, UploadOK
    <3> QED BY <3>1, <3>2, <3>3
  <2>5. CASE Uploaded
    <3>1. FetchTypeOK'
      BY <2>5 DEF Uploaded, Settles, Settled, FetchTypeOK, AttemptOK, UploadOK
    <3>2. AbortWins' /\ ResolvesAfterUpload' /\ SourceFailureIsFatal'
      BY <2>5 DEF Uploaded, Settles, Settled, FetchTypeOK, AbortWins, ResolvesAfterUpload,
         SourceFailureIsFatal, PlaceOK, AttemptOK, UploadOK
    <3>3. PlaceOK' /\ AttemptOK' /\ UploadOK'
      BY <2>5 DEF Uploaded, Settles, Settled, FetchTypeOK, PlaceOK, AttemptOK, UploadOK
    <3> QED BY <3>1, <3>2, <3>3
  <2>6. CASE SourceFailed
    <3>1. FetchTypeOK'
      BY <2>6 DEF SourceFailed, Settles, FirstPull, Settled, FetchTypeOK, AttemptOK, UploadOK
    <3>2. AbortWins' /\ ResolvesAfterUpload' /\ SourceFailureIsFatal'
      BY <2>6 DEF SourceFailed, Settles, FirstPull, Settled, FetchTypeOK, AbortWins,
         ResolvesAfterUpload, SourceFailureIsFatal, PlaceOK, AttemptOK, UploadOK
    <3>3. PlaceOK' /\ AttemptOK' /\ UploadOK'
      BY <2>6 DEF SourceFailed, Settles, FirstPull, Settled, FetchTypeOK, PlaceOK,
         AttemptOK, UploadOK
    <3> QED BY <3>1, <3>2, <3>3
  <2>7. CASE RedirectEnds
    <3>0. discarded' \in BOOLEAN
      BY <2>7 DEF RedirectEnds, AtRedirect, CanFollow, DropsBody, Settles, FetchTypeOK
    <3>1. FetchTypeOK'
      BY <2>7, <3>0 DEF RedirectEnds, AtRedirect, CanFollow, DropsBody, Settles, StopUpload,
         StoppedSource, StoppedWire, FirstPull, Settled, FetchTypeOK, AttemptOK, UploadOK
    <3>2. AbortWins' /\ ResolvesAfterUpload' /\ SourceFailureIsFatal'
      BY <2>7 DEF RedirectEnds, AtRedirect, CanFollow, DropsBody, Settles, StopUpload,
         StoppedSource, StoppedWire, FirstPull, Settled, FetchTypeOK, AbortWins,
         ResolvesAfterUpload, SourceFailureIsFatal, PlaceOK, AttemptOK, UploadOK
    <3>3. PlaceOK' /\ AttemptOK' /\ UploadOK'
      BY <2>7 DEF RedirectEnds, AtRedirect, CanFollow, DropsBody, Settles, StopUpload,
         StoppedSource, StoppedWire, FirstPull, Settled, FetchTypeOK, PlaceOK, AttemptOK,
         UploadOK
    <3> QED BY <3>1, <3>2, <3>3
  <2>8. CASE Follow
    <3>0. discarded' \in BOOLEAN
      BY <2>8 DEF Follow, AtRedirect, CanFollow, DropsBody, Settles, FetchTypeOK
    <3>a. stopped' \in BOOLEAN /\ creator' \in BOOLEAN
      BY <2>8 DEF Follow, AtRedirect, StopUpload, FetchTypeOK
    <3>b. hops' \in 0..MaxRedirects /\ sent' = sent
      BY <2>8 DEF Follow, CanFollow, FetchTypeOK
    <3>c. /\ source' \in {"open", "closed", "errored", "cancelled"}
          /\ wire' \in {"open", "ended", "dropped"}
      BY <2>8 DEF Follow, AtRedirect, StopUpload, StoppedSource, StoppedWire, FetchTypeOK
    <3>d. /\ fetch' \in {"idle", "receiving", "race", "upload", "done"}
          /\ outcome' \in {"none", "response", "opaque"} \cup Errors
          /\ reply' \in {"pending", "failed", "aborted"} \cup Heads
          /\ method' \in {"GET", "POST", "PUT"}
      BY <2>8 DEF Follow, Settles, FetchTypeOK
    <3>e. UNCHANGED <<redirect, signal, sendVars>>
      BY <2>8 DEF Follow
    <3>1. FetchTypeOK'
      BY <3>0, <3>a, <3>b, <3>c, <3>d, <3>e DEF FetchTypeOK
    <3>2. AbortWins' /\ ResolvesAfterUpload' /\ SourceFailureIsFatal'
      BY <2>8 DEF Follow, AtRedirect, CanFollow, DropsBody, Settles, StopUpload,
         StoppedSource, StoppedWire, FirstPull, Settled, FetchTypeOK, AbortWins,
         ResolvesAfterUpload, SourceFailureIsFatal, PlaceOK, AttemptOK, UploadOK
    <3>3. PlaceOK' /\ AttemptOK' /\ UploadOK'
      BY <2>8 DEF Follow, AtRedirect, CanFollow, DropsBody, Settles, StopUpload,
         StoppedSource, StoppedWire, FirstPull, Settled, FetchTypeOK, PlaceOK, AttemptOK,
         UploadOK
    <3> QED BY <3>1, <3>2, <3>3
  <2>9. CASE SourceAnswers
    <3>1. FetchTypeOK'
      BY <2>9 DEF SourceAnswers, SendStep, FetchTypeOK, AttemptOK, UploadOK
    <3>2. AbortWins' /\ ResolvesAfterUpload' /\ SourceFailureIsFatal'
      BY <2>9 DEF SourceAnswers, SendStep, FetchTypeOK, AbortWins, ResolvesAfterUpload,
         SourceFailureIsFatal, PlaceOK, AttemptOK, UploadOK
    <3>3. PlaceOK' /\ AttemptOK' /\ UploadOK'
      BY <2>9 DEF SourceAnswers, SendStep, FetchTypeOK, PlaceOK, AttemptOK, UploadOK
    <3> QED BY <3>1, <3>2, <3>3
  <2>10. CASE TakeChunk
    <3>1. FetchTypeOK'
      BY <2>10 DEF TakeChunk, SendStep, FetchTypeOK, AttemptOK, UploadOK
    <3>2. AbortWins' /\ ResolvesAfterUpload' /\ SourceFailureIsFatal'
      BY <2>10 DEF TakeChunk, SendStep, FetchTypeOK, AbortWins, ResolvesAfterUpload,
         SourceFailureIsFatal, PlaceOK, AttemptOK, UploadOK
    <3>3. PlaceOK' /\ AttemptOK' /\ UploadOK'
      BY <2>10 DEF TakeChunk, SendStep, FetchTypeOK, PlaceOK, AttemptOK, UploadOK
    <3> QED BY <3>1, <3>2, <3>3
  <2>11. CASE Written
    <3>1. FetchTypeOK'
      BY <2>11 DEF Written, SendStep, FetchTypeOK, AttemptOK, UploadOK
    <3>2. AbortWins' /\ ResolvesAfterUpload' /\ SourceFailureIsFatal'
      BY <2>11 DEF Written, SendStep, FetchTypeOK, AbortWins, ResolvesAfterUpload,
         SourceFailureIsFatal, PlaceOK, AttemptOK, UploadOK
    <3>3. PlaceOK' /\ AttemptOK' /\ UploadOK'
      BY <2>11 DEF Written, SendStep, FetchTypeOK, PlaceOK, AttemptOK, UploadOK
    <3> QED BY <3>1, <3>2, <3>3
  <2>12. CASE WriteFails
    <3>1. FetchTypeOK'
      BY <2>12 DEF WriteFails, SendStep, FetchTypeOK, AttemptOK, UploadOK
    <3>2. AbortWins' /\ ResolvesAfterUpload' /\ SourceFailureIsFatal'
      BY <2>12 DEF WriteFails, SendStep, FetchTypeOK, AbortWins, ResolvesAfterUpload,
         SourceFailureIsFatal, PlaceOK, AttemptOK, UploadOK
    <3>3. PlaceOK' /\ AttemptOK' /\ UploadOK'
      BY <2>12 DEF WriteFails, SendStep, FetchTypeOK, PlaceOK, AttemptOK, UploadOK
    <3> QED BY <3>1, <3>2, <3>3
  <2>13. CASE ReadFails
    <3>1. FetchTypeOK'
      BY <2>13 DEF ReadFails, SendStep, FetchTypeOK, AttemptOK, UploadOK
    <3>2. AbortWins' /\ ResolvesAfterUpload' /\ SourceFailureIsFatal'
      BY <2>13 DEF ReadFails, SendStep, FetchTypeOK, AbortWins, ResolvesAfterUpload,
         SourceFailureIsFatal, PlaceOK, AttemptOK, UploadOK
    <3>3. PlaceOK' /\ AttemptOK' /\ UploadOK'
      BY <2>13 DEF ReadFails, SendStep, FetchTypeOK, PlaceOK, AttemptOK, UploadOK
    <3> QED BY <3>1, <3>2, <3>3
  <2>14. CASE Finish
    <3>1. FetchTypeOK'
      BY <2>14 DEF Finish, SendStep, FetchTypeOK, AttemptOK, UploadOK
    <3>2. AbortWins' /\ ResolvesAfterUpload' /\ SourceFailureIsFatal'
      BY <2>14 DEF Finish, SendStep, FetchTypeOK, AbortWins, ResolvesAfterUpload,
         SourceFailureIsFatal, PlaceOK, AttemptOK, UploadOK
    <3>3. PlaceOK' /\ AttemptOK' /\ UploadOK'
      BY <2>14 DEF Finish, SendStep, FetchTypeOK, PlaceOK, AttemptOK, UploadOK
    <3> QED BY <3>1, <3>2, <3>3
  <2>15. CASE Cancelled
    <3>1. FetchTypeOK'
      BY <2>15 DEF Cancelled, SendStep, FetchTypeOK, AttemptOK, UploadOK
    <3>2. AbortWins' /\ ResolvesAfterUpload' /\ SourceFailureIsFatal'
      BY <2>15 DEF Cancelled, SendStep, FetchTypeOK, AbortWins, ResolvesAfterUpload,
         SourceFailureIsFatal, PlaceOK, AttemptOK, UploadOK
    <3>3. PlaceOK' /\ AttemptOK' /\ UploadOK'
      BY <2>15 DEF Cancelled, SendStep, FetchTypeOK, PlaceOK, AttemptOK, UploadOK
    <3> QED BY <3>1, <3>2, <3>3
  <2>16. CASE BodySettles
    <3>1. FetchTypeOK'
      BY <2>16 DEF BodySettles, SendStep, FetchTypeOK, AttemptOK, UploadOK
    <3>2. AbortWins' /\ ResolvesAfterUpload' /\ SourceFailureIsFatal'
      BY <2>16 DEF BodySettles, SendStep, FetchTypeOK, AbortWins, ResolvesAfterUpload,
         SourceFailureIsFatal, PlaceOK, AttemptOK, UploadOK
    <3>3. PlaceOK' /\ AttemptOK' /\ UploadOK'
      BY <2>16 DEF BodySettles, SendStep, FetchTypeOK, PlaceOK, AttemptOK, UploadOK
    <3> QED BY <3>1, <3>2, <3>3
  <2>17. CASE Abort
    <3>1. FetchTypeOK'
      BY <2>17 DEF Abort, StoppedSource, StoppedWire, FetchTypeOK, AttemptOK, UploadOK
    <3>2. AbortWins' /\ ResolvesAfterUpload' /\ SourceFailureIsFatal'
      BY <2>17 DEF Abort, StoppedSource, StoppedWire, FetchTypeOK, AbortWins,
         ResolvesAfterUpload, SourceFailureIsFatal, PlaceOK, AttemptOK, UploadOK
    <3>3. PlaceOK' /\ AttemptOK' /\ UploadOK'
      BY <2>17 DEF Abort, StoppedSource, StoppedWire, FetchTypeOK, PlaceOK, AttemptOK,
         UploadOK
    <3> QED BY <3>1, <3>2, <3>3
  <2>18. CASE Answers
    <3>1. FetchTypeOK'
      BY <2>18 DEF Answers, FetchTypeOK, AttemptOK, UploadOK
    <3>2. AbortWins' /\ ResolvesAfterUpload' /\ SourceFailureIsFatal'
      BY <2>18 DEF Answers, FetchTypeOK, AbortWins, ResolvesAfterUpload,
         SourceFailureIsFatal, PlaceOK, AttemptOK, UploadOK
    <3>3. PlaceOK' /\ AttemptOK' /\ UploadOK'
      BY <2>18 DEF Answers, FetchTypeOK, PlaceOK, AttemptOK, UploadOK
    <3> QED BY <3>1, <3>2, <3>3
  <2>19. CASE UNCHANGED FetchVars
    BY <2>19 DEF FetchVars, FetchTypeOK, AbortWins, ResolvesAfterUpload,
       SourceFailureIsFatal, PlaceOK, AttemptOK, UploadOK
  <2> QED BY <2>1, <2>2, <2>3, <2>4, <2>5, <2>6, <2>7, <2>8, <2>9, <2>10, <2>11, <2>12,
     <2>13, <2>14, <2>15, <2>16, <2>17, <2>18, <2>19 DEF FetchNext
<1> QED BY <1>1, <1>2, PTL DEF FetchSpec

\* fetch() tells its caller the truth: no response after an abort, none as the final one
\* before the whole body went out, and no redirect followed after the source failed.
THEOREM FetchIsSafe == FetchSpec => []FetchInv
<1>1. FetchIInv => FetchInv
  BY DEF FetchIInv
<1> QED BY <1>1, FetchInvariantHolds, PTL

\* A response that is not a redirect is given only after sendBody has read the source to
\* its end without a failure, and closed or lost the native stream.
THEOREM ResponsesFollowUploads == FetchSpec => []ResolvesAfterUpload
<1>1. FetchIInv => ResolvesAfterUpload
  BY DEF FetchIInv, FetchInv
<1> QED BY <1>1, FetchInvariantHolds, PTL

\* stopUpload has an effect once at most: an attempt without the stream comes only after
\* the upload of the first one was stopped.
THEOREM StreamsAreSentOnce == FetchSpec => [](hops > 0 => stopped /\ ~creator)
<1>1. FetchIInv => (hops > 0 => stopped /\ ~creator)
  BY DEF FetchIInv, AttemptOK, FetchInv, FetchTypeOK
<1> QED BY <1>1, FetchInvariantHolds, PTL

-----------------------------------------------------------------------------
(* The body of a response: the inductive invariant *)

\* A set of naturals that is not empty has a least one.
LEMMA LeastOf == ASSUME NEW T, T \subseteq Nat, T # {} PROVE \E x \in T : \A y \in T : x <= y
<1> DEFINE R == {ss \in Nat \X Nat : ss[1] < ss[2]}
<1>0. IsWellFoundedOn(R, Nat)
  BY NatLessThanWellFounded DEF OpToRel
<1>1. \E x \in T : \A y \in T : ~ (<<y, x>> \in R)
  <2> HIDE DEF R
  <2> QED BY <1>0, WFMin, Zenon
<1>2. PICK x \in T : \A y \in T : ~ (<<y, x>> \in R)
  BY <1>1
<1>3. SUFFICES ASSUME NEW y \in T PROVE x <= y
  BY <1>2
<1>4. x \in Nat /\ y \in Nat
  BY <1>2
<1>5. ~(y < x)
  BY <1>2, <1>4
<1> QED BY <1>4, <1>5

Registered == Reading \cup {"fresh", "open", "aborted", "holding"}
AtStates == {"absent", "fresh", "open", "aborted", "leaving", "parked",
             "holding", "done", "failed", "dropped"} \cup Reading
Leases(place) == place = "reading" \/ place = "holding"

BodyFlags ==
    /\ native \in {"none", "here", "leased", "gone"}
    /\ finished \in BOOLEAN /\ error \in BOOLEAN /\ whole \in BOOLEAN /\ waiters \subseteq Branches
BodyShapes ==
    /\ produced \in 0..MaxPieces /\ start \in 0..MaxPieces
    /\ pos = [b \in DOMAIN pos |-> pos[b]] /\ DOMAIN pos \subseteq Branches
    /\ at \in [Branches -> AtStates] /\ mode \in [Branches -> {"stream", "collect", "cancel"}]
    /\ read \in [Branches -> Nat]

\* A branch is in the shared state while it may read, has handed out what lies before its
\* position, and reads the native stream at the end of the buffer.
BranchOK(b) ==
    /\ b \in DOMAIN pos <=> at[b] \in Registered
    /\ b \in DOMAIN pos => pos[b] \in 0..produced /\ read[b] = pos[b]
    /\ read[b] <= produced
    /\ at[b] = "fresh" => pos[b] = 0
    /\ at[b] = "absent" => read[b] = 0
    /\ at[b] = "reading" => pos[b] = produced
    /\ at[b] = "done" => whole /\ finished /\ read[b] = produced
    /\ native = "none" => at[b] = "absent"
    /\ Leases(at[b]) => native = "leased"
BranchesOK == \A b \in Branches : BranchOK(b)

\* The native stream is given up when the body is over, which is the end of it, an error
\* or nobody left to read; and one branch leases it.
NativeOK ==
    /\ native = "none" => start = 0 /\ produced = 0
    /\ native = "gone" <=> finished
    /\ finished => whole \/ error \/ DOMAIN pos = {}
    /\ native = "leased" => \E b \in Branches : Leases(at[b])
    /\ \A b, c \in Branches : Leases(at[b]) /\ Leases(at[c]) => b = c

BodyIInv == BodyFlags /\ BodyShapes /\ BranchesOK /\ NativeOK /\ BufferFitsReaders

\* What is reclaimed is the position of some branch.
LEMMA ReclaimedFits ==
  ASSUME NEW f, \A x \in DOMAIN f : f[x] \in 0..MaxPieces, start \in 0..MaxPieces
  PROVE  /\ Reclaimed(f) \in 0..MaxPieces
         /\ DOMAIN f # {} => Reclaimed(f) = Min({f[b] : b \in DOMAIN f})
<1> DEFINE T == {f[b] : b \in DOMAIN f}
<1>1. CASE DOMAIN f = {}
  BY <1>1 DEF Reclaimed
<1>2. CASE DOMAIN f # {}
  <2>1. Reclaimed(f) = Min(T)
    BY <1>2 DEF Reclaimed
  <2>2. T \subseteq 0..MaxPieces /\ T # {}
    BY <1>2
  <2> HIDE DEF T
  <2>3. T \subseteq Nat
    BY <2>2, BodyAssumption
  <2>4. \E x \in T : \A y \in T : x <= y
    BY <2>2, <2>3, LeastOf
  <2>5. Min(T) \in T
    BY <2>4 DEF Min
  <2> QED BY <2>1, <2>2, <2>5 DEF T
<1> QED BY <1>1, <1>2

\* wake_all moves a waiting branch to its next poll, and no other.
Kin(x, y) == y = x \/ (x = "waiting" /\ y = "polled") \/ (x = "parked" /\ y = "leaving")

\* wake_all leaves every branch but those in its reach.
LEMMA WokenIsKin ==
  ASSUME BodyShapes
  PROVE  /\ Woken(at) \in [Branches -> AtStates]
         /\ \A c \in Branches : Kin(at[c], Woken(at)[c])
<1>1. ASSUME NEW c \in Branches
      PROVE  /\ Woken(at)[c] \in AtStates /\ Kin(at[c], Woken(at)[c])
  BY DEF Woken, Kin, BodyShapes, AtStates, Reading
<1>2. Woken(at) = [c \in Branches |-> Woken(at)[c]]
  BY DEF Woken
<1> HIDE DEF Woken
<1> QED BY <1>1, <1>2

\* A branch that a step leaves alone
LEMMA BranchKept ==
  ASSUME BodyShapes, BodyFlags, NEW c \in Branches, BranchOK(c), Kin(at[c], at'[c]),
         c \in DOMAIN pos' <=> c \in DOMAIN pos, c \in DOMAIN pos => pos'[c] = pos[c],
         read'[c] = read[c], produced' \in Nat, produced <= produced',
         produced' # produced => at[c] # "reading" /\ ~finished,
         whole => whole', finished => finished', native' = "none" => native = "none",
         Leases(at[c]) => native' = "leased"
  PROVE  BranchOK(c)'
<1> USE BodyAssumption
<1>1. produced \in Nat /\ read[c] \in Nat
  BY DEF BodyShapes
<1>2. /\ c \in DOMAIN pos' <=> at'[c] \in Registered
      /\ at'[c] = "fresh" => at[c] = "fresh"
      /\ at'[c] = "absent" => at[c] = "absent"
      /\ at'[c] = "reading" => at[c] = "reading"
      /\ at'[c] = "done" => at[c] = "done"
      /\ at[c] = "absent" => at'[c] = "absent"
      /\ Leases(at'[c]) => Leases(at[c])
      /\ at[c] = "fresh" \/ at[c] = "reading" => c \in DOMAIN pos
  BY DEF BranchOK, Kin, Registered, Reading, Leases
<1>3. c \in DOMAIN pos' => pos'[c] \in 0..produced' /\ read'[c] = pos'[c]
  BY <1>1 DEF BranchOK
<1>4. read'[c] <= produced'
  BY <1>1 DEF BranchOK
<1>5. at'[c] = "reading" => pos'[c] = produced'
  BY <1>2 DEF BranchOK
<1>6. at'[c] = "done" => whole' /\ finished' /\ read'[c] = produced'
  BY <1>2 DEF BranchOK
<1>7. /\ at'[c] = "fresh" => pos'[c] = 0
      /\ at'[c] = "absent" => read'[c] = 0
      /\ native' = "none" => at'[c] = "absent"
  BY <1>2 DEF BranchOK
<1> QED BY <1>2, <1>3, <1>4, <1>5, <1>6, <1>7 DEF BranchOK

\* The map without a branch
LEMMA WithoutIs ==
  ASSUME NEW f, NEW b
  PROVE  /\ DOMAIN Without(f, b) = DOMAIN f \ {b}
         /\ \A x \in DOMAIN f \ {b} : Without(f, b)[x] = f[x]
         /\ Without(f, b) = [x \in DOMAIN f \ {b} |-> f[x]]
BY DEF Without

\* The map with a branch moved or added
LEMMA WithIs ==
  ASSUME NEW f, NEW b, NEW v
  PROVE  /\ DOMAIN With(f, b, v) = DOMAIN f \cup {b}
         /\ With(f, b, v)[b] = v
         /\ \A x \in DOMAIN f \ {b} : With(f, b, v)[x] = f[x]
BY DEF With

\* What the steps use of the inductive invariant
LEMMA BodyUnpack ==
  ASSUME BodyIInv
  PROVE  /\ BodyFlags /\ BodyShapes /\ BranchesOK /\ NativeOK /\ BufferFitsReaders
         /\ produced \in Nat /\ MaxPieces \in Nat /\ produced <= MaxPieces
         /\ \A x \in DOMAIN pos : x \in Branches /\ pos[x] \in 0..MaxPieces
         /\ \A x \in Branches : BranchOK(x)
<1> USE BodyAssumption
<1>1. BodyFlags /\ BodyShapes /\ BranchesOK /\ NativeOK /\ BufferFitsReaders
  BY DEF BodyIInv
<1>2. produced \in Nat /\ MaxPieces \in Nat /\ produced <= MaxPieces
  BY <1>1 DEF BodyShapes
<1>3. \A x \in Branches : BranchOK(x)
  BY <1>1 DEF BranchesOK
<1>4. ASSUME NEW x \in DOMAIN pos PROVE x \in Branches /\ pos[x] \in 0..MaxPieces
  <2>1. x \in Branches
    BY <1>1 DEF BodyShapes
  <2>2. pos[x] \in 0..produced
    BY <2>1, <1>3 DEF BranchOK
  <2> QED BY <2>1, <2>2, <1>2
<1> QED BY <1>1, <1>2, <1>3, <1>4

\* The end of a step that reclaims: what is left of the inductive invariant
LEMMA ReclaimedStep ==
  ASSUME start \in 0..MaxPieces, \A x \in DOMAIN pos' : pos'[x] \in 0..MaxPieces,
         start' = Reclaimed(pos')
  PROVE  start' \in 0..MaxPieces /\ BufferFitsReaders'
<1> DEFINE q == pos'
<1>1. \A x \in DOMAIN q : q[x] \in 0..MaxPieces
  OBVIOUS
<1> HIDE DEF q
<1>2. /\ Reclaimed(q) \in 0..MaxPieces
      /\ DOMAIN q # {} => Reclaimed(q) = Min({q[b] : b \in DOMAIN q})
  BY <1>1, ReclaimedFits
<1> QED BY <1>2 DEF q, BufferFitsReaders

\* A branch leaves the shared state; with the last one the native stream goes.
LEMMA DropReaderStep ==
  ASSUME BodyIInv, NEW b \in DOMAIN pos, ~Leases(at[b]), NEW to \in {"leaving", "dropped"},
         DropReader(b, to), UNCHANGED <<error, produced, read, whole>>,
         mode' \in [Branches -> {"stream", "collect", "cancel"}]
  PROVE  BodyIInv'
<1> DEFINE left == Without(pos, b)
           last == DOMAIN left = {} /\ ~finished
           before == IF last THEN Woken(at) ELSE at
<1>1. /\ pos' = left /\ start' = Reclaimed(left) /\ finished' = (finished \/ last)
      /\ native' = IF last THEN "gone" ELSE native
      /\ waiters' = IF last THEN {} ELSE waiters
      /\ at' = [before EXCEPT ![b] = to]
  BY Zenon DEF DropReader
<1>2. /\ BodyFlags /\ BodyShapes /\ BranchesOK /\ NativeOK /\ BufferFitsReaders
      /\ produced \in Nat /\ MaxPieces \in Nat /\ produced <= MaxPieces
      /\ \A x \in DOMAIN pos : x \in Branches /\ pos[x] \in 0..MaxPieces
      /\ \A x \in Branches : BranchOK(x)
  BY BodyUnpack
<1>3. /\ DOMAIN pos' = DOMAIN pos \ {b} /\ \A x \in DOMAIN pos \ {b} : pos'[x] = pos[x]
      /\ pos' = [x \in DOMAIN pos \ {b} |-> pos[x]]
  BY <1>1, WithoutIs
<1>4. b \in Branches
  BY <1>2
<1>5. before \in [Branches -> AtStates] /\ \A c \in Branches : Kin(at[c], before[c])
  BY <1>2, WokenIsKin DEF Kin, BodyShapes
<1> HIDE DEF left, before
<1>6. /\ at' \in [Branches -> AtStates] /\ at'[b] = to
      /\ \A c \in Branches \ {b} : at'[c] = before[c]
  BY <1>1, <1>4, <1>5 DEF AtStates
<1>7. last => native # "leased"
  <2>1. SUFFICES ASSUME last, native = "leased" PROVE FALSE
    OBVIOUS
  <2>2. PICK c \in Branches : Leases(at[c])
    BY <2>1, <1>2 DEF NativeOK
  <2>3. c \in DOMAIN pos
    BY <2>2, <1>2 DEF BranchOK, Leases, Registered, Reading
  <2> QED BY <2>1, <2>2, <2>3, <1>1, <1>3
<1>8. native # "none"
  BY <1>2, <1>4 DEF BranchOK, Registered, Reading
<1>9. BodyFlags'
  BY <1>1, <1>2 DEF BodyFlags
<1>10. start' \in 0..MaxPieces /\ BufferFitsReaders'
  BY <1>1, <1>2, <1>3, ReclaimedStep DEF BodyShapes
<1>11. BodyShapes'
  <2>1. pos' = [x \in DOMAIN pos' |-> pos'[x]] /\ DOMAIN pos' \subseteq Branches
    BY <1>3, <1>2
  <2> QED BY <2>1, <1>2, <1>6, <1>10 DEF BodyShapes
<1>12. ASSUME NEW c \in Branches PROVE BranchOK(c)'
  <2>1. BranchOK(c)
    BY <1>2
  <2>2. CASE c = b
    <3>1. b \notin DOMAIN pos' /\ native' # "none" /\ read'[b] = read[b] /\ produced' = produced
      BY <1>1, <1>3, <1>8
    <3> QED BY <2>1, <2>2, <3>1, <1>6 DEF BranchOK, Registered, Reading, Leases
  <2>3. CASE c # b
    <3>1. Kin(at[c], at'[c])
      BY <2>3, <1>5, <1>6
    <3>2. c \in DOMAIN pos' <=> c \in DOMAIN pos
      BY <2>3, <1>3
    <3>3. c \in DOMAIN pos => pos'[c] = pos[c]
      BY <2>3, <1>3
    <3>4. Leases(at[c]) => native' = "leased"
      BY <2>1, <1>1, <1>7 DEF BranchOK
    <3>5. (native' = "none" => native = "none") /\ (finished => finished')
      BY <1>1
    <3> QED BY <2>1, <3>1, <3>2, <3>3, <3>4, <3>5, <1>2, BranchKept
  <2> QED BY <2>2, <2>3
<1>13. NativeOK'
  <2>1. native' # "none"
    BY <1>1, <1>8
  <2>2. native' = "gone" <=> finished'
    BY <1>1, <1>2 DEF NativeOK, BodyFlags
  <2>3. finished' => whole' \/ error' \/ DOMAIN pos' = {}
    <3>1. CASE finished
      BY <3>1, <1>2, <1>3 DEF NativeOK
    <3>2. CASE ~finished
      BY <3>2, <1>1
    <3> QED BY <3>1, <3>2
  <2>4. \A c \in Branches : Leases(at'[c]) <=> Leases(at[c])
    <3>1. TAKE c \in Branches
    <3>2. CASE c = b
      BY <3>2, <1>6 DEF Leases
    <3>3. CASE c # b
      BY <3>3, <1>5, <1>6 DEF Leases, Kin
    <3> QED BY <3>2, <3>3
  <2>5. native' = "leased" => native = "leased"
    BY <1>1
  <2> QED BY <2>1, <2>2, <2>3, <2>4, <2>5, <1>2 DEF NativeOK
<1> QED BY <1>9, <1>10, <1>11, <1>12, <1>13 DEF BodyIInv, BranchesOK

\* A response has a body: its one branch starts at the first piece.
LEMMA RespondStep == ASSUME BodyIInv, NEW b \in Branches, Respond(b) PROVE BodyIInv'
<1> USE BodyAssumption
<1>1. /\ native = "none" /\ native' = "here" /\ pos' = With(pos, b, 0)
      /\ at' = [at EXCEPT ![b] = "fresh"]
      /\ UNCHANGED <<produced, start, finished, error, waiters, mode, read, whole>>
  BY DEF Respond
<1>2. /\ BodyFlags /\ BodyShapes /\ BranchesOK /\ NativeOK /\ BufferFitsReaders
      /\ produced \in Nat /\ MaxPieces \in Nat /\ produced <= MaxPieces
      /\ \A x \in DOMAIN pos : x \in Branches /\ pos[x] \in 0..MaxPieces
      /\ \A x \in Branches : BranchOK(x)
  BY BodyUnpack
<1>3. \A x \in Branches : at[x] = "absent" /\ x \notin DOMAIN pos
  BY <1>1, <1>2 DEF BranchOK, Registered, Reading
<1>4. DOMAIN pos = {}
  BY <1>2, <1>3
<1>5. DOMAIN pos' = {b} /\ pos'[b] = 0 /\ pos' = [x \in {b} |-> 0]
  <2>1. pos' = [x \in {b} |-> IF x = b THEN 0 ELSE pos[x]]
    BY <1>1, <1>4 DEF With
  <2> QED BY <2>1
<1>6. /\ at' \in [Branches -> AtStates] /\ at'[b] = "fresh"
      /\ \A c \in Branches \ {b} : at'[c] = "absent"
  BY <1>1, <1>2, <1>3 DEF BodyShapes, AtStates
<1>7. start = 0 /\ produced = 0 /\ ~finished
  BY <1>1, <1>2 DEF NativeOK
<1>8. BodyFlags'
  BY <1>1, <1>2 DEF BodyFlags
<1>9. BodyShapes'
  <2>1. DOMAIN pos' \subseteq Branches /\ pos' = [x \in DOMAIN pos' |-> pos'[x]]
    BY <1>5
  <2> QED BY <2>1, <1>1, <1>2, <1>6 DEF BodyShapes
<1>10. ASSUME NEW c \in Branches PROVE BranchOK(c)'
  <2>1. BranchOK(c) /\ at[c] = "absent" /\ read[c] = 0
    BY <1>2, <1>3 DEF BranchOK
  <2>2. CASE c = b
    BY <2>1, <2>2, <1>1, <1>5, <1>6, <1>7 DEF BranchOK, Registered, Reading, Leases
  <2>3. CASE c # b
    BY <2>1, <2>3, <1>1, <1>5, <1>6, <1>7 DEF BranchOK, Registered, Reading, Leases
  <2> QED BY <2>2, <2>3
<1>11. NativeOK'
  <2>1. \A c \in Branches : ~Leases(at'[c])
    BY <1>6 DEF Leases
  <2> QED BY <2>1, <1>1, <1>7 DEF NativeOK
<1>12. BufferFitsReaders'
  <2>1. {pos'[x] : x \in DOMAIN pos'} = {0}
    BY <1>5
  <2>2. Min({0}) = 0
    BY DEF Min
  <2>3. start' = Min({pos'[x] : x \in DOMAIN pos'})
    BY <2>1, <2>2, <1>1, <1>7
  <2> QED BY <2>3 DEF BufferFitsReaders
<1> QED BY <1>8, <1>9, <1>10, <1>11, <1>12 DEF BodyIInv, BranchesOK

\* clone() adds a branch where the cloned one is.
LEMMA CloneStep == ASSUME BodyIInv, NEW b \in Branches, NEW d \in Branches, Clone(b, d) PROVE BodyIInv'
<1>1. /\ at[b] = "fresh" /\ at[d] = "absent" /\ pos' = With(pos, d, pos[b])
      /\ at' = [at EXCEPT ![d] = "fresh"]
      /\ UNCHANGED <<native, produced, start, finished, error, waiters, mode, read, whole>>
  BY DEF Clone
<1>2. /\ BodyFlags /\ BodyShapes /\ BranchesOK /\ NativeOK /\ BufferFitsReaders
      /\ produced \in Nat /\ MaxPieces \in Nat /\ produced <= MaxPieces
      /\ \A x \in DOMAIN pos : x \in Branches /\ pos[x] \in 0..MaxPieces
      /\ \A x \in Branches : BranchOK(x)
  BY BodyUnpack
<1>3. BranchOK(b) /\ BranchOK(d)
  BY <1>2
<1>4. b \in DOMAIN pos /\ pos[b] = 0 /\ d \notin DOMAIN pos /\ d # b /\ native # "none" /\ read[d] = 0
  BY <1>1, <1>3 DEF BranchOK, Registered, Reading
<1>5. /\ DOMAIN pos' = DOMAIN pos \cup {d} /\ pos'[d] = 0
      /\ \A x \in DOMAIN pos : pos'[x] = pos[x]
      /\ pos' = [x \in DOMAIN pos' |-> pos'[x]]
  <2>1. pos' = [x \in DOMAIN pos \cup {d} |-> IF x = d THEN pos[b] ELSE pos[x]]
    BY <1>1 DEF With
  <2> QED BY <2>1, <1>4
<1>6. /\ at' \in [Branches -> AtStates] /\ at'[d] = "fresh"
      /\ \A c \in Branches \ {d} : at'[c] = at[c]
  BY <1>1, <1>2 DEF BodyShapes, AtStates
<1>7. BodyFlags'
  BY <1>1, <1>2 DEF BodyFlags
<1>8. BodyShapes'
  BY <1>1, <1>2, <1>5, <1>6 DEF BodyShapes
<1>9. ASSUME NEW c \in Branches PROVE BranchOK(c)'
  <2>1. BranchOK(c)
    BY <1>2
  <2>2. CASE c = d
    BY <2>1, <2>2, <1>1, <1>2, <1>4, <1>5, <1>6 DEF BranchOK, Registered, Reading, Leases
  <2>3. CASE c # d
    <3>1. Kin(at[c], at'[c])
      BY <2>3, <1>6 DEF Kin
    <3>2. c \in DOMAIN pos' <=> c \in DOMAIN pos
      BY <2>3, <1>5
    <3>3. c \in DOMAIN pos => pos'[c] = pos[c]
      BY <1>5
    <3>4. Leases(at[c]) => native' = "leased"
      BY <2>1, <1>1 DEF BranchOK
    <3>5. produced' = produced /\ read'[c] = read[c] /\ whole' = whole /\ finished' = finished
          /\ native' = native
      BY <1>1
    <3> QED BY <2>1, <3>1, <3>2, <3>3, <3>4, <3>5, <1>2, BranchKept
  <2> QED BY <2>2, <2>3
<1>10. NativeOK'
  <2>1. \A c \in Branches : Leases(at'[c]) <=> Leases(at[c])
    <3>1. TAKE c \in Branches
    <3>2. CASE c = d
      BY <3>2, <1>1, <1>6 DEF Leases
    <3>3. CASE c # d
      BY <3>3, <1>6
    <3> QED BY <3>2, <3>3
  <2>2. finished => whole \/ error
    BY <1>2, <1>4 DEF NativeOK
  <2> QED BY <2>1, <2>2, <1>1, <1>2, <1>4 DEF NativeOK
<1>11. BufferFitsReaders'
  <2>1. {pos'[x] : x \in DOMAIN pos'} = {pos[x] : x \in DOMAIN pos}
    BY <1>4, <1>5
  <2>2. start = Min({pos[x] : x \in DOMAIN pos})
    BY <1>2, <1>4 DEF BufferFitsReaders
  <2> QED BY <2>1, <2>2, <1>1 DEF BufferFitsReaders
<1> QED BY <1>7, <1>8, <1>9, <1>10, <1>11 DEF BodyIInv, BranchesOK

\* A step that only moves branches between awaits
LEMMA MovesOnly ==
  ASSUME BodyIInv, at' \in [Branches -> AtStates], UNCHANGED <<produced, start, finished, error, pos, read, whole>>,
         waiters' \subseteq Branches, mode' \in [Branches -> {"stream", "collect", "cancel"}],
         native' = native \/ (native # "none" /\ native # "gone" /\ native' = "here"),
         native' = "leased" => \E b \in Branches : Leases(at'[b]),
         \A c \in Branches :
            /\ at'[c] \in Registered <=> at[c] \in Registered
            /\ at'[c] \in {"fresh", "absent", "reading", "done"} => at'[c] = at[c]
            /\ at[c] = "absent" => at'[c] = "absent"
            /\ Leases(at'[c]) => Leases(at[c]) /\ native' = "leased"
  PROVE  BodyIInv'
<1>1. /\ BodyFlags /\ BodyShapes /\ BranchesOK /\ NativeOK /\ BufferFitsReaders
      /\ produced \in Nat /\ MaxPieces \in Nat /\ produced <= MaxPieces
      /\ \A x \in Branches : BranchOK(x)
  BY BodyUnpack
<1>2. BodyFlags'
  BY <1>1 DEF BodyFlags
<1>3. BodyShapes'
  BY <1>1 DEF BodyShapes
<1>4. ASSUME NEW c \in Branches PROVE BranchOK(c)'
  <2>1. BranchOK(c)
    BY <1>1
  <2> QED BY <2>1 DEF BranchOK
<1>5. NativeOK'
  BY <1>1 DEF NativeOK
<1>6. BufferFitsReaders'
  BY <1>1 DEF BufferFitsReaders
<1> QED BY <1>2, <1>3, <1>4, <1>5, <1>6 DEF BodyIInv, BranchesOK

\* A reader pulls, or collects what is left.
LEMMA PullStep == ASSUME BodyIInv, NEW b \in Branches, Pull(b) \/ Collect(b) PROVE BodyIInv'
<1>1. /\ at[b] \in {"open", "fresh"} /\ at' = [at EXCEPT ![b] = "polled"]
      /\ UNCHANGED <<native, produced, start, finished, error, waiters, pos, read, whole>>
      /\ mode' = mode \/ mode' = [mode EXCEPT ![b] = "collect"]
  BY DEF Pull, Collect, shared
<1>2. BodyFlags /\ BodyShapes /\ NativeOK
  BY BodyUnpack
<1>3. /\ at' \in [Branches -> AtStates] /\ at'[b] = "polled"
      /\ \A c \in Branches \ {b} : at'[c] = at[c]
  BY <1>1, <1>2 DEF BodyShapes, AtStates, Reading
<1>4. mode' \in [Branches -> {"stream", "collect", "cancel"}]
  BY <1>1, <1>2 DEF BodyShapes
<1>5. ASSUME NEW c \in Branches
      PROVE  /\ at'[c] \in Registered <=> at[c] \in Registered
             /\ at'[c] \in {"fresh", "absent", "reading", "done"} => at'[c] = at[c]
             /\ at[c] = "absent" => at'[c] = "absent"
             /\ Leases(at'[c]) <=> Leases(at[c])
  BY <1>1, <1>3 DEF Registered, Reading, Leases
<1>6. /\ \A c \in Branches : Leases(at'[c]) => native' = "leased"
      /\ native' = "leased" => \E c \in Branches : Leases(at'[c])
  BY <1>1, <1>2, <1>5, BodyUnpack DEF NativeOK, BranchOK
<1>7. waiters' \subseteq Branches
  BY <1>1, <1>2 DEF BodyFlags
<1> QED BY <1>1, <1>3, <1>4, <1>5, <1>6, <1>7, MovesOnly

\* cancel() moves a branch, or drops it at once.
LEMMA CancelStep == ASSUME BodyIInv, NEW b \in Branches, Cancel(b) PROVE BodyIInv'
<1>1. mode[b] = "stream" /\ UNCHANGED <<error, produced, read, whole>>
  BY DEF Cancel
<1>2. BodyFlags /\ BodyShapes /\ NativeOK /\ BranchOK(b)
  BY BodyUnpack
<1>3. CASE at[b] \in {"fresh", "open"} /\ (\E to \in {"leaving", "dropped"} : DropReader(b, to)) /\ mode' = mode
  <2>1. PICK to \in {"leaving", "dropped"} : DropReader(b, to)
    BY <1>3
  <2>2. b \in DOMAIN pos /\ ~Leases(at[b])
    BY <1>2, <1>3 DEF BranchOK, Leases, Registered
  <2>3. mode' \in [Branches -> {"stream", "collect", "cancel"}]
    BY <1>2, <1>3 DEF BodyShapes
  <2> QED BY <2>1, <2>2, <2>3, <1>1, DropReaderStep
<1>4. CASE /\ at[b] \in Reading
           /\ at' = [at EXCEPT ![b] = IF at[b] = "reading" THEN "holding" ELSE "aborted"]
           /\ mode' = [mode EXCEPT ![b] = "cancel"]
           /\ UNCHANGED <<native, start, finished, waiters, pos>>
  <2>1. /\ at' \in [Branches -> AtStates]
        /\ at'[b] = IF at[b] = "reading" THEN "holding" ELSE "aborted"
        /\ \A c \in Branches \ {b} : at'[c] = at[c]
    BY <1>2, <1>4 DEF BodyShapes, AtStates, Reading
  <2>2. mode' \in [Branches -> {"stream", "collect", "cancel"}] /\ waiters' \subseteq Branches
    BY <1>2, <1>4 DEF BodyShapes, BodyFlags
  <2>3. ASSUME NEW c \in Branches
        PROVE  /\ at'[c] \in Registered <=> at[c] \in Registered
               /\ at'[c] \in {"fresh", "absent", "reading", "done"} => at'[c] = at[c]
               /\ at[c] = "absent" => at'[c] = "absent"
               /\ Leases(at'[c]) <=> Leases(at[c])
    BY <1>4, <2>1 DEF Registered, Reading, Leases
  <2>4. /\ \A c \in Branches : Leases(at'[c]) => native' = "leased"
        /\ native' = "leased" => \E c \in Branches : Leases(at'[c])
    BY <1>2, <1>4, <2>3, BodyUnpack DEF NativeOK, BranchOK
  <2> QED BY <2>1, <2>2, <2>3, <2>4, <1>1, <1>4, MovesOnly
<1> QED BY <1>3, <1>4 DEF Cancel

\* The canceller that holds the lease gives the native stream back.
LEMMA DropLeaseStep == ASSUME BodyIInv, NEW b \in Branches, DropLease(b) PROVE BodyIInv'
<1>1. /\ at[b] = "holding" /\ native' = "here" /\ waiters' = {}
      /\ at' = [Woken(at) EXCEPT ![b] = "aborted"]
      /\ UNCHANGED <<produced, start, finished, error, pos, mode, read, whole>>
  BY DEF DropLease
<1>2. BodyFlags /\ BodyShapes /\ NativeOK /\ BranchOK(b)
  BY BodyUnpack
<1>3. Woken(at) \in [Branches -> AtStates] /\ \A c \in Branches : Kin(at[c], Woken(at)[c])
  BY <1>2, WokenIsKin
<1>4. /\ at' \in [Branches -> AtStates] /\ at'[b] = "aborted"
      /\ \A c \in Branches \ {b} : Kin(at[c], at'[c])
  BY <1>1, <1>3 DEF AtStates
<1>5. native = "leased"
  BY <1>1, <1>2 DEF BranchOK, Leases
<1>6. ASSUME NEW c \in Branches
      PROVE  /\ at'[c] \in Registered <=> at[c] \in Registered
             /\ at'[c] \in {"fresh", "absent", "reading", "done"} => at'[c] = at[c]
             /\ at[c] = "absent" => at'[c] = "absent"
             /\ ~Leases(at'[c])
  <2>1. CASE c = b
    BY <2>1, <1>1, <1>4 DEF Registered, Reading, Leases
  <2>2. CASE c # b
    <3>1. Kin(at[c], at'[c])
      BY <2>2, <1>4
    <3>2. ~Leases(at[c])
      BY <2>2, <1>1, <1>2 DEF NativeOK, Leases
    <3> QED BY <3>1, <3>2 DEF Kin, Registered, Reading, Leases
  <2> QED BY <2>1, <2>2
<1>7. mode' \in [Branches -> {"stream", "collect", "cancel"}]
  BY <1>1, <1>2 DEF BodyShapes
<1> QED BY <1>1, <1>4, <1>5, <1>6, <1>7, MovesOnly

\* A canceller that waited leaves.
LEMMA LeavesStep == ASSUME BodyIInv, NEW b \in Branches, Leaves(b) PROVE BodyIInv'
<1>1. /\ at[b] = "leaving" /\ waiters' \in {waiters, waiters \cup {b}}
      /\ at' = [at EXCEPT ![b] = "dropped"] \/ at' = [at EXCEPT ![b] = "parked"]
      /\ UNCHANGED <<native, produced, start, finished, error, pos, mode, read, whole>>
  BY DEF Leaves
<1>2. BodyFlags /\ BodyShapes /\ NativeOK
  BY BodyUnpack
<1>3. /\ at' \in [Branches -> AtStates] /\ at'[b] \in {"dropped", "parked"}
      /\ \A c \in Branches \ {b} : at'[c] = at[c]
  BY <1>1, <1>2 DEF BodyShapes, AtStates
<1>4. ASSUME NEW c \in Branches
      PROVE  /\ at'[c] \in Registered <=> at[c] \in Registered
             /\ at'[c] \in {"fresh", "absent", "reading", "done"} => at'[c] = at[c]
             /\ at[c] = "absent" => at'[c] = "absent"
             /\ Leases(at'[c]) <=> Leases(at[c])
  BY <1>1, <1>3 DEF Registered, Reading, Leases
<1>5. /\ \A c \in Branches : Leases(at'[c]) => native' = "leased"
      /\ native' = "leased" => \E c \in Branches : Leases(at'[c])
  BY <1>1, <1>2, <1>4, BodyUnpack DEF NativeOK, BranchOK
<1>6. waiters' \subseteq Branches /\ mode' \in [Branches -> {"stream", "collect", "cancel"}]
  BY <1>1, <1>2 DEF BodyFlags, BodyShapes
<1> QED BY <1>1, <1>3, <1>4, <1>5, <1>6, MovesOnly

\* A read that was aborted ends.
LEMMA DropAbortedStep == ASSUME BodyIInv, NEW b \in Branches, DropAborted(b) PROVE BodyIInv'
<1>1. BodyShapes /\ BranchOK(b)
  BY BodyUnpack
<1>2. b \in DOMAIN pos /\ ~Leases(at[b])
  BY <1>1 DEF DropAborted, BranchOK, Leases, Registered
<1> DEFINE to == IF mode[b] = "cancel" THEN "leaving" ELSE "dropped"
<1>3. /\ DropReader(b, to) /\ to \in {"leaving", "dropped"}
      /\ UNCHANGED <<error, produced, mode, read, whole>>
  BY DEF DropAborted
<1>4. mode' \in [Branches -> {"stream", "collect", "cancel"}]
  BY <1>1, <1>3 DEF BodyShapes
<1> HIDE DEF to
<1> QED BY <1>2, <1>3, <1>4, DropReaderStep

\* A branch goes on to a position, with what lies before it handed out.
LEMMA AdvanceStep ==
  ASSUME BodyIInv, NEW b \in DOMAIN pos, NEW v \in 0..MaxPieces, v <= produced',
         produced' \in 0..MaxPieces, produced <= produced',
         pos' = [pos EXCEPT ![b] = v], read' = [read EXCEPT ![b] = v], start' = Reclaimed(pos'),
         UNCHANGED <<finished, error, mode, whole>>, waiters' \subseteq Branches,
         at' \in [Branches -> AtStates], at'[b] \in {"open", "polled", "waiting", "reading"},
         at'[b] = "reading" => v = produced',
         \A c \in Branches \ {b} : Kin(at[c], at'[c]),
         produced' # produced => ~finished /\ \A c \in Branches \ {b} : at[c] # "reading",
         native' \in {"here", "leased", "gone"}, native' = "gone" <=> native = "gone",
         native' = "leased" => \E c \in Branches : Leases(at'[c]),
         \A c \in Branches : Leases(at'[c]) => native' = "leased",
         \A c, d \in Branches : Leases(at'[c]) /\ Leases(at'[d]) => c = d
  PROVE  BodyIInv'
<1>1. /\ BodyFlags /\ BodyShapes /\ BranchesOK /\ NativeOK /\ BufferFitsReaders
      /\ produced \in Nat /\ MaxPieces \in Nat /\ produced <= MaxPieces
      /\ \A x \in DOMAIN pos : x \in Branches /\ pos[x] \in 0..MaxPieces
      /\ \A x \in Branches : BranchOK(x)
  BY BodyUnpack
<1>2. b \in Branches /\ produced' \in Nat /\ v \in Nat
  BY <1>1
<1>3. /\ DOMAIN pos' = DOMAIN pos /\ pos'[b] = v /\ \A x \in DOMAIN pos \ {b} : pos'[x] = pos[x]
      /\ pos' = [x \in DOMAIN pos' |-> pos'[x]]
  BY <1>1 DEF BodyShapes
<1>4. read' \in [Branches -> Nat] /\ read'[b] = v /\ \A x \in Branches \ {b} : read'[x] = read[x]
  BY <1>1, <1>2 DEF BodyShapes
<1>5. BodyFlags'
  BY <1>1 DEF BodyFlags
<1>6. start' \in 0..MaxPieces /\ BufferFitsReaders'
  BY <1>1, <1>3, ReclaimedStep DEF BodyShapes
<1>7. BodyShapes'
  BY <1>1, <1>3, <1>4, <1>6 DEF BodyShapes
<1>8. ASSUME NEW c \in Branches PROVE BranchOK(c)'
  <2>1. BranchOK(c)
    BY <1>1
  <2>2. CASE c = b
    BY <2>2, <1>2, <1>3, <1>4 DEF BranchOK, Registered, Reading, Leases
  <2>3. CASE c # b
    <3>1. Kin(at[c], at'[c]) /\ (c \in DOMAIN pos' <=> c \in DOMAIN pos)
      BY <2>3, <1>3
    <3>2. (c \in DOMAIN pos => pos'[c] = pos[c]) /\ read'[c] = read[c]
      BY <2>3, <1>3, <1>4
    <3>3. Leases(at[c]) => Leases(at'[c])
      BY <3>1 DEF Kin, Leases
    <3>4. produced' # produced => at[c] # "reading" /\ ~finished
      BY <2>3
    <3>5. (whole => whole') /\ (finished => finished') /\ (native' = "none" => native = "none")
      OBVIOUS
    <3> QED BY <2>1, <3>1, <3>2, <3>3, <3>4, <3>5, <1>1, <1>2, BranchKept
  <2> QED BY <2>2, <2>3
<1>9. NativeOK'
  BY <1>1, <1>3 DEF NativeOK
<1> QED BY <1>5, <1>6, <1>7, <1>8, <1>9 DEF BodyIInv, BranchesOK

\* A piece comes from the shared buffer.
LEMMA BufferedStep == ASSUME BodyIInv, NEW b \in Branches, Buffered(b) PROVE BodyIInv'
<1>1. /\ at[b] = "polled" /\ pos[b] < produced
      /\ pos' = [pos EXCEPT ![b] = @ + 1] /\ start' = Reclaimed(pos')
      /\ read' = [read EXCEPT ![b] = @ + 1] /\ at' = [at EXCEPT ![b] = "open"]
      /\ UNCHANGED <<native, produced, finished, error, waiters, mode, whole>>
  BY DEF Buffered
<1>2. /\ BodyFlags /\ BodyShapes /\ NativeOK /\ BranchOK(b)
      /\ produced \in Nat /\ MaxPieces \in Nat /\ produced <= MaxPieces
      /\ \A x \in Branches : BranchOK(x)
  BY BodyUnpack
<1>3. b \in DOMAIN pos /\ pos[b] \in 0..produced /\ read[b] = pos[b] /\ native # "none"
  BY <1>1, <1>2 DEF BranchOK, Registered, Reading
<1> DEFINE v == pos[b] + 1
<1>4. v \in 0..MaxPieces /\ v <= produced'
  BY <1>1, <1>2, <1>3
<1>5. pos' = [pos EXCEPT ![b] = v] /\ read' = [read EXCEPT ![b] = v]
  BY <1>1, <1>2, <1>3 DEF BodyShapes
<1> HIDE DEF v
<1>6. /\ at' \in [Branches -> AtStates] /\ at'[b] = "open"
      /\ \A c \in Branches \ {b} : at'[c] = at[c]
  BY <1>1, <1>2 DEF BodyShapes, AtStates
<1>7. \A c \in Branches : Leases(at'[c]) <=> Leases(at[c])
  <2>1. TAKE c \in Branches
  <2>2. CASE c = b
    BY <2>2, <1>1, <1>6 DEF Leases
  <2>3. CASE c # b
    BY <2>3, <1>6
  <2> QED BY <2>2, <2>3
<1>8. /\ native' = "leased" => \E c \in Branches : Leases(at'[c])
      /\ \A c, d \in Branches : Leases(at'[c]) /\ Leases(at'[d]) => c = d
      /\ \A c \in Branches : Leases(at'[c]) => native' = "leased"
  BY <1>1, <1>2, <1>7 DEF NativeOK, BranchOK
<1>9. \A c \in Branches \ {b} : Kin(at[c], at'[c])
  BY <1>6 DEF Kin
<1>10. /\ produced' \in 0..MaxPieces /\ produced <= produced' /\ waiters' \subseteq Branches
       /\ native' \in {"here", "leased", "gone"}
  BY <1>1, <1>2, <1>3 DEF BodyFlags
<1> QED BY <1>1, <1>3, <1>4, <1>5, <1>6, <1>8, <1>9, <1>10, AdvanceStep

\* A piece comes from the native stream to its one reader.
LEMMA NativePieceStep == ASSUME BodyIInv, NEW b \in Branches, NativePiece(b) PROVE BodyIInv'
<1>1. /\ at[b] = "reading" /\ produced < MaxPieces /\ produced' = produced + 1
      /\ pos' = [pos EXCEPT ![b] = produced'] /\ start' = Reclaimed(pos')
      /\ read' = [read EXCEPT ![b] = @ + 1] /\ waiters' = {}
      /\ \/ native' = "here" /\ at' = [Woken(at) EXCEPT ![b] = "open"]
         \/ native' = native /\ at' = Woken(at)
      /\ UNCHANGED <<finished, error, mode, whole>>
  BY DEF NativePiece
<1>2. /\ BodyFlags /\ BodyShapes /\ NativeOK /\ BranchOK(b)
      /\ produced \in Nat /\ MaxPieces \in Nat /\ produced <= MaxPieces
      /\ \A x \in Branches : BranchOK(x)
  BY BodyUnpack
<1>3. /\ b \in DOMAIN pos /\ pos[b] = produced /\ read[b] = pos[b]
      /\ native = "leased" /\ ~finished
  BY <1>1, <1>2 DEF BranchOK, Registered, Reading, Leases, NativeOK
<1> DEFINE v == produced + 1
<1>4. v \in 0..MaxPieces /\ v <= produced' /\ produced' \in 0..MaxPieces /\ produced <= produced'
      /\ v = produced'
  BY <1>1, <1>2
<1>5. pos' = [pos EXCEPT ![b] = v] /\ read' = [read EXCEPT ![b] = v]
  BY <1>1, <1>2, <1>3 DEF BodyShapes
<1> HIDE DEF v
<1>6. Woken(at) \in [Branches -> AtStates] /\ \A c \in Branches : Kin(at[c], Woken(at)[c])
  BY <1>2, WokenIsKin
<1>7. /\ at' \in [Branches -> AtStates]
      /\ \A c \in Branches \ {b} : Kin(at[c], at'[c])
      /\ (native' = "here" /\ at'[b] = "open") \/ (native' = "leased" /\ at'[b] = "reading")
  <2>1. Woken(at)[b] = "reading"
    BY <1>1, <1>6 DEF Kin
  <2> QED BY <2>1, <1>1, <1>3, <1>6 DEF AtStates
<1>8. \A c \in Branches \ {b} : ~Leases(at[c]) /\ ~Leases(at'[c])
  <2>1. TAKE c \in Branches \ {b}
  <2>2. ~Leases(at[c])
    BY <1>1, <1>2 DEF NativeOK, Leases
  <2> QED BY <2>2, <1>7 DEF Kin, Leases
<1>9. /\ native' = "leased" => \E c \in Branches : Leases(at'[c])
      /\ \A c, d \in Branches : Leases(at'[c]) /\ Leases(at'[d]) => c = d
      /\ \A c \in Branches : Leases(at'[c]) => native' = "leased"
  BY <1>7, <1>8 DEF Leases
<1>10. \A c \in Branches \ {b} : at[c] # "reading"
  BY <1>8 DEF Leases
<1>11. /\ native' \in {"here", "leased", "gone"} /\ native' # "gone" /\ native # "gone"
       /\ waiters' \subseteq Branches /\ at'[b] \in {"open", "polled", "waiting", "reading"}
  BY <1>1, <1>3, <1>7
<1> QED BY <1>1, <1>3, <1>4, <1>5, <1>7, <1>9, <1>10, <1>11, AdvanceStep

\* A branch ends and leaves the shared state.
LEMMA EndStep ==
  ASSUME BodyIInv, NEW b \in DOMAIN pos, pos' = Without(pos, b), start' = Reclaimed(pos'),
         produced' = produced, UNCHANGED mode, read' = [read EXCEPT ![b] = produced],
         at' \in [Branches -> AtStates], at'[b] \in {"done", "failed"},
         at'[b] = "done" => whole', \A c \in Branches \ {b} : Kin(at[c], at'[c]),
         \A c \in Branches \ {b} : ~Leases(at[c]),
         waiters' \subseteq Branches, native' = "gone", finished' = TRUE,
         error' \in BOOLEAN, whole' \in BOOLEAN, whole => whole',
         whole' \/ error' \/ DOMAIN pos' = {}
  PROVE  BodyIInv'
<1>1. /\ BodyFlags /\ BodyShapes /\ BranchesOK /\ NativeOK /\ BufferFitsReaders
      /\ produced \in Nat /\ MaxPieces \in Nat /\ produced <= MaxPieces
      /\ \A x \in DOMAIN pos : x \in Branches /\ pos[x] \in 0..MaxPieces
      /\ \A x \in Branches : BranchOK(x)
  BY BodyUnpack
<1>2. /\ DOMAIN pos' = DOMAIN pos \ {b} /\ \A x \in DOMAIN pos \ {b} : pos'[x] = pos[x]
      /\ pos' = [x \in DOMAIN pos \ {b} |-> pos[x]]
  BY WithoutIs
<1>3. b \in Branches
  BY <1>1
<1>4. read' \in [Branches -> Nat] /\ read'[b] = produced /\ \A x \in Branches \ {b} : read'[x] = read[x]
  BY <1>1, <1>3 DEF BodyShapes
<1>5. BodyFlags'
  BY DEF BodyFlags
<1>6. start' \in 0..MaxPieces /\ BufferFitsReaders'
  BY <1>1, <1>2, ReclaimedStep DEF BodyShapes
<1>7. BodyShapes'
  <2>1. pos' = [x \in DOMAIN pos' |-> pos'[x]] /\ DOMAIN pos' \subseteq Branches
    BY <1>1, <1>2
  <2> QED BY <2>1, <1>1, <1>4, <1>6 DEF BodyShapes
<1>8. ASSUME NEW c \in Branches PROVE BranchOK(c)'
  <2>1. BranchOK(c)
    BY <1>1
  <2>2. CASE c = b
    BY <2>2, <1>1, <1>2, <1>4 DEF BranchOK, Registered, Reading, Leases
  <2>3. CASE c # b
    <3>1. Kin(at[c], at'[c]) /\ (c \in DOMAIN pos' <=> c \in DOMAIN pos) /\ ~Leases(at[c])
      BY <2>3, <1>2
    <3>2. (c \in DOMAIN pos => pos'[c] = pos[c]) /\ read'[c] = read[c]
      BY <2>3, <1>2, <1>4
    <3>3. (whole => whole') /\ (finished => finished') /\ (native' = "none" => native = "none")
      OBVIOUS
    <3> QED BY <2>1, <3>1, <3>2, <3>3, <1>1, BranchKept
  <2> QED BY <2>2, <2>3
<1>9. NativeOK'
  <2>1. \A c \in Branches : ~Leases(at'[c])
    <3>1. TAKE c \in Branches
    <3>2. CASE c = b
      BY <3>2 DEF Leases
    <3>3. CASE c # b
      <4>1. Kin(at[c], at'[c]) /\ ~Leases(at[c])
        BY <3>3
      <4> QED BY <4>1 DEF Kin, Leases
    <3> QED BY <3>2, <3>3
  <2> QED BY <2>1 DEF NativeOK
<1> QED BY <1>5, <1>6, <1>7, <1>8, <1>9 DEF BodyIInv, BranchesOK

\* The native stream ends, or fails.
LEMMA NativeEndStep ==
  ASSUME BodyIInv, NEW b \in Branches, NativeEnd(b) \/ NativeError(b)
  PROVE  BodyIInv'
<1> DEFINE to == at'[b]
<1>1. /\ at[b] = "reading" /\ native' = "gone" /\ finished' = TRUE /\ waiters' = {}
      /\ pos' = Without(pos, b) /\ start' = Reclaimed(pos') /\ UNCHANGED <<produced, mode, read>>
      /\ \/ whole' = TRUE /\ error' = error /\ at' = [Woken(at) EXCEPT ![b] = "done"]
         \/ error' = TRUE /\ whole' = whole /\ at' = [Woken(at) EXCEPT ![b] = "failed"]
  BY DEF NativeEnd, NativeError
<1>2. /\ BodyFlags /\ BodyShapes /\ NativeOK /\ BranchOK(b)
  BY BodyUnpack
<1>3. b \in DOMAIN pos /\ read[b] = produced
  BY <1>1, <1>2 DEF BranchOK, Registered, Reading
<1>4. read' = [read EXCEPT ![b] = produced]
  BY <1>1, <1>2, <1>3 DEF BodyShapes
<1>5. Woken(at) \in [Branches -> AtStates] /\ \A c \in Branches : Kin(at[c], Woken(at)[c])
  BY <1>2, WokenIsKin
<1>6. /\ at' \in [Branches -> AtStates] /\ \A c \in Branches \ {b} : Kin(at[c], at'[c])
      /\ at'[b] \in {"done", "failed"} /\ (at'[b] = "done" => whole')
  BY <1>1, <1>5 DEF AtStates
<1>7. \A c \in Branches \ {b} : ~Leases(at[c])
  BY <1>1, <1>2 DEF NativeOK, Leases
<1>8. /\ error' \in BOOLEAN /\ whole' \in BOOLEAN /\ (whole => whole') /\ (whole' \/ error')
      /\ waiters' \subseteq Branches
  BY <1>1, <1>2 DEF BodyFlags
<1> QED BY <1>1, <1>3, <1>4, <1>6, <1>7, <1>8, EndStep

\* The buffer has no more for a branch: it ends, leases the stream or waits for it.
LEMMA RunsOutStep == ASSUME BodyIInv, NEW b \in Branches, RunsOut(b) PROVE BodyIInv'
<1> DEFINE ahead == [pos EXCEPT ![b] = produced]
<1>1. /\ at[b] = "polled" /\ read' = [read EXCEPT ![b] = @ + (produced - pos[b])]
      /\ UNCHANGED <<produced, finished, error, mode, whole>>
  BY DEF RunsOut
<1>2. /\ BodyFlags /\ BodyShapes /\ NativeOK /\ BranchOK(b)
      /\ produced \in Nat /\ MaxPieces \in Nat /\ produced <= MaxPieces
      /\ \A x \in Branches : BranchOK(x)
  BY BodyUnpack
<1>3. b \in DOMAIN pos /\ pos[b] \in 0..produced /\ read[b] = pos[b] /\ native # "none"
  BY <1>1, <1>2 DEF BranchOK, Registered, Reading
<1>4. read[b] + (produced - pos[b]) = produced
  BY <1>2, <1>3
<1>5. read' = [read EXCEPT ![b] = produced]
  BY <1>1, <1>2, <1>4 DEF BodyShapes
<1>6. CASE finished
  <2>1. /\ at' = [at EXCEPT ![b] = IF error THEN "failed" ELSE "done"]
        /\ pos' = Without(ahead, b) /\ start' = Reclaimed(pos') /\ UNCHANGED <<native, waiters>>
    BY <1>6 DEF RunsOut
  <2>2. Without(ahead, b) = Without(pos, b)
    <3>1. DOMAIN ahead = DOMAIN pos /\ \A x \in DOMAIN pos \ {b} : ahead[x] = pos[x]
      OBVIOUS
    <3> HIDE DEF ahead
    <3> QED BY <3>1 DEF Without
  <2>3. native = "gone"
    BY <1>2, <1>6 DEF NativeOK
  <2>4. \A c \in Branches : ~Leases(at[c])
    BY <2>3, <1>2 DEF BranchOK
  <2>5. whole \/ error
    BY <1>2, <1>3, <1>6 DEF NativeOK
  <2>6. /\ at' \in [Branches -> AtStates] /\ at'[b] \in {"done", "failed"}
        /\ (at'[b] = "done" => whole) /\ \A c \in Branches \ {b} : Kin(at[c], at'[c])
    BY <2>1, <2>5, <1>2 DEF BodyShapes, AtStates, Kin
  <2>7. waiters' \subseteq Branches /\ error' \in BOOLEAN /\ whole' \in BOOLEAN /\ finished' = TRUE
    BY <2>1, <1>1, <1>2, <1>6 DEF BodyFlags
  <2> HIDE DEF ahead
  <2> QED BY <2>1, <2>2, <2>3, <2>4, <2>5, <2>6, <2>7, <1>1, <1>3, <1>5, EndStep
<1>7. CASE ~finished
  <2>1. /\ pos' = ahead /\ start' = Reclaimed(ahead)
        /\ \/ /\ native = "here" /\ native' = "leased" /\ waiters' = waiters
              /\ at' = [at EXCEPT ![b] = "reading"]
           \/ /\ native # "here" /\ native' = native /\ waiters' = waiters \cup {b}
              /\ at' = [at EXCEPT ![b] = "waiting"]
    BY <1>7 DEF RunsOut
  <2>2. /\ at' \in [Branches -> AtStates] /\ \A c \in Branches \ {b} : at'[c] = at[c]
        /\ (native = "here" /\ native' = "leased" /\ at'[b] = "reading")
           \/ (native # "here" /\ native' = native /\ at'[b] = "waiting")
    BY <2>1, <1>2 DEF BodyShapes, AtStates, Reading
  <2>3. ~Leases(at[b])
    BY <1>1 DEF Leases
  <2>4. /\ native' = "leased" => \E c \in Branches : Leases(at'[c])
        /\ \A c, d \in Branches : Leases(at'[c]) /\ Leases(at'[d]) => c = d
        /\ \A c \in Branches : Leases(at'[c]) => native' = "leased"
    <3>1. CASE native = "here"
      <4>1. \A c \in Branches : ~Leases(at[c])
        BY <3>1, <1>2 DEF BranchOK
      <4> QED BY <4>1, <3>1, <2>2 DEF Leases
    <3>2. CASE native # "here"
      <4>1. \A c \in Branches : Leases(at'[c]) <=> Leases(at[c])
        <5>1. TAKE c \in Branches
        <5>2. CASE c = b
          BY <5>2, <3>2, <2>2, <2>3 DEF Leases
        <5>3. CASE c # b
          BY <5>3, <2>2
        <5> QED BY <5>2, <5>3
      <4> QED BY <4>1, <3>2, <2>2, <1>2 DEF NativeOK, BranchOK
    <3> QED BY <3>1, <3>2
  <2>5. \A c \in Branches \ {b} : Kin(at[c], at'[c])
    BY <2>2 DEF Kin
  <2>6. /\ native' \in {"here", "leased", "gone"} /\ (native' = "gone" <=> native = "gone")
        /\ waiters' \subseteq Branches /\ at'[b] \in {"open", "polled", "waiting", "reading"}
    BY <2>1, <2>2, <1>2, <1>3 DEF BodyFlags
  <2>7. produced \in 0..MaxPieces
    BY <1>2
  <2> DEFINE v == produced
  <2>8. /\ pos' = [pos EXCEPT ![b] = v] /\ read' = [read EXCEPT ![b] = v] /\ start' = Reclaimed(pos')
        /\ v \in 0..MaxPieces /\ v \in Nat /\ v = produced'
    BY <2>1, <2>7, <1>1, <1>2, <1>5
  <2> HIDE DEF v, ahead
  <2>9. v <= produced' /\ produced' \in 0..MaxPieces
    BY <2>8
  <2>10. produced' = produced /\ produced <= produced'
    BY <1>1, <1>2
  <2> QED BY <2>2, <2>4, <2>5, <2>6, <2>8, <2>9, <2>10, <1>1, <1>3, AdvanceStep
<1> QED BY <1>6, <1>7

\* An abort drops the idle branches and wakes those that read.
LEMMA BodyAbortStep == ASSUME BodyIInv, BodyAbort PROVE BodyIInv'
<1> DEFINE idle == {b \in DOMAIN pos : at[b] \in {"fresh", "open"}}
           left == [b \in DOMAIN pos \ idle |-> pos[b]]
           last == DOMAIN left = {} /\ ~finished
<1>1. /\ \E b \in DOMAIN pos : at[b] \in Reading \cup {"fresh", "open"}
      /\ pos' = left /\ start' = Reclaimed(left) /\ finished' = (finished \/ last)
      /\ native' = IF last THEN "gone" ELSE native
      /\ waiters' = IF last THEN {} ELSE waiters
      /\ at' = [b \in Branches |->
                  IF b \in idle THEN "dropped"
                  ELSE IF at[b] = "reading" THEN "holding"
                  ELSE IF at[b] \in Reading THEN "aborted"
                  ELSE IF last THEN Woken(at)[b] ELSE at[b]]
      /\ UNCHANGED <<error, produced, mode, read, whole>>
  BY Zenon DEF BodyAbort
<1>2. /\ BodyFlags /\ BodyShapes /\ BranchesOK /\ NativeOK /\ BufferFitsReaders
      /\ produced \in Nat /\ MaxPieces \in Nat /\ produced <= MaxPieces
      /\ \A x \in DOMAIN pos : x \in Branches /\ pos[x] \in 0..MaxPieces
      /\ \A x \in Branches : BranchOK(x)
  BY BodyUnpack
<1>3. /\ DOMAIN pos' = DOMAIN pos \ idle /\ \A x \in DOMAIN pos \ idle : pos'[x] = pos[x]
      /\ pos' = [x \in DOMAIN pos' |-> pos'[x]] /\ DOMAIN pos' \subseteq Branches
      /\ DOMAIN left = DOMAIN pos'
  BY <1>1, <1>2
<1>4. Woken(at) \in [Branches -> AtStates] /\ \A c \in Branches : Kin(at[c], Woken(at)[c])
  BY <1>2, WokenIsKin
<1>5. ASSUME NEW c \in Branches
      PROVE  at'[c] = IF c \in idle THEN "dropped"
                      ELSE IF at[c] = "reading" THEN "holding"
                      ELSE IF at[c] \in Reading THEN "aborted"
                      ELSE IF last THEN Woken(at)[c] ELSE at[c]
  BY <1>1
<1>6. at' \in [Branches -> AtStates]
  <2>1. \A c \in Branches : at'[c] \in AtStates
    <3> HIDE DEF idle, last
    <3> QED BY <1>2, <1>4, <1>5 DEF BodyShapes, AtStates
  <2> HIDE DEF idle, last
  <2> QED BY <2>1, <1>1
<1>7. last => \A c \in Branches : ~Leases(at[c])
  <2>1. SUFFICES ASSUME last, NEW c \in Branches, Leases(at[c]) PROVE FALSE
    OBVIOUS
  <2>2. c \in DOMAIN pos
    BY <2>1, <1>2 DEF BranchOK, Leases, Registered, Reading
  <2>3. c \notin idle
    BY <2>1 DEF Leases
  <2> QED BY <2>1, <2>2, <2>3, <1>3
<1>8. native # "none"
  <2>1. PICK b \in DOMAIN pos : at[b] \in Reading \cup {"fresh", "open"}
    BY <1>1
  <2> QED BY <2>1, <1>2 DEF BranchOK, Reading
<1>9. \A c \in Branches : c \in idle <=> at[c] \in {"fresh", "open"}
  BY <1>2 DEF BranchOK, Registered
<1> HIDE DEF idle, left, last
<1>10. BodyFlags'
  BY <1>1, <1>2 DEF BodyFlags
<1>11. start' \in 0..MaxPieces /\ BufferFitsReaders'
  <2>1. \A x \in DOMAIN pos' : pos'[x] \in 0..MaxPieces
    BY <1>2, <1>3
  <2> QED BY <2>1, <1>1, <1>2, ReclaimedStep DEF BodyShapes
<1>12. BodyShapes'
  BY <1>1, <1>2, <1>3, <1>6, <1>11 DEF BodyShapes
<1>13. \A c \in Branches : Leases(at'[c]) <=> Leases(at[c])
  <2>1. TAKE c \in Branches
  <2>2. Kin(at[c], Woken(at)[c])
    BY <1>4
  <2> QED BY <2>2, <1>5, <1>9 DEF Leases, Kin, Reading
<1>14. ASSUME NEW c \in Branches PROVE BranchOK(c)'
  <2>1. BranchOK(c)
    BY <1>2
  <2>2. native' # "none" /\ (Leases(at[c]) => native' = "leased") /\ (finished => finished')
    BY <2>1, <1>1, <1>7, <1>8 DEF BranchOK
  <2>3. CASE c \in idle
    <3>1. at'[c] = "dropped" /\ c \notin DOMAIN pos' /\ read'[c] = read[c] /\ produced' = produced
      BY <2>3, <1>1, <1>3, <1>5
    <3> QED BY <3>1, <2>1, <2>2 DEF BranchOK, Registered, Reading, Leases
  <2>4. CASE c \notin idle /\ at[c] \in Reading
    <3>1. /\ at'[c] = IF at[c] = "reading" THEN "holding" ELSE "aborted"
      BY <2>4, <1>5 DEF Reading
    <3>2. c \in DOMAIN pos
      BY <2>1, <2>4 DEF BranchOK, Registered
    <3>3. c \in DOMAIN pos' /\ pos'[c] = pos[c] /\ read'[c] = read[c] /\ produced' = produced
      BY <2>4, <3>2, <1>1, <1>3
    <3>4. /\ Leases(at'[c]) => native' = "leased"
      BY <2>2, <1>13
    <3> QED BY <3>1, <3>2, <3>3, <3>4, <2>1, <2>2 DEF BranchOK, Registered, Reading
  <2>5. CASE c \notin idle /\ at[c] \notin Reading
    <3>1. Kin(at[c], at'[c])
      BY <2>5, <1>4, <1>5 DEF Kin, Reading
    <3>2. (c \in DOMAIN pos' <=> c \in DOMAIN pos) /\ (c \in DOMAIN pos => pos'[c] = pos[c])
      BY <2>5, <1>3
    <3>3. produced' = produced /\ read'[c] = read[c] /\ whole' = whole
      BY <1>1
    <3> QED BY <2>1, <2>2, <3>1, <3>2, <3>3, <1>2, BranchKept
  <2> QED BY <2>3, <2>4, <2>5
<1>15. NativeOK'
  <2>1. native' # "none" /\ (native' = "gone" <=> finished')
    BY <1>1, <1>2, <1>8 DEF NativeOK, BodyFlags
  <2>2. finished' => whole' \/ error' \/ DOMAIN pos' = {}
    <3>1. CASE finished
      BY <3>1, <1>1, <1>2, <1>3 DEF NativeOK
    <3>2. CASE ~finished
      BY <3>2, <1>1, <1>3 DEF last
    <3> QED BY <3>1, <3>2
  <2>3. native' = "leased" => native = "leased"
    BY <1>1
  <2> QED BY <2>1, <2>2, <2>3, <1>2, <1>13 DEF NativeOK
<1> QED BY <1>10, <1>11, <1>12, <1>14, <1>15 DEF BodyIInv, BranchesOK

\* Every step of a body keeps the inductive invariant.
LEMMA BodyStep == BodyIInv /\ [BodyNext]_BodyVars => BodyIInv'
<1> SUFFICES ASSUME BodyIInv, [BodyNext]_BodyVars PROVE BodyIInv'
  OBVIOUS
<1>1. ASSUME NEW b \in Branches, Respond(b) PROVE BodyIInv'
  BY <1>1, RespondStep
<1>2. ASSUME NEW b \in Branches, Pull(b) \/ Collect(b) PROVE BodyIInv'
  BY <1>2, PullStep
<1>3. ASSUME NEW b \in Branches, Cancel(b) PROVE BodyIInv'
  BY <1>3, CancelStep
<1>4. ASSUME NEW b \in Branches, Work(b) PROVE BodyIInv'
  BY <1>4, BufferedStep, RunsOutStep, DropLeaseStep, DropAbortedStep, LeavesStep DEF Work
<1>5. ASSUME NEW b \in Branches, Native(b) PROVE BodyIInv'
  BY <1>5, NativePieceStep, NativeEndStep DEF Native
<1>6. ASSUME NEW b \in Branches, NEW c \in Branches, Clone(b, c) PROVE BodyIInv'
  BY <1>6, CloneStep
<1>7. CASE BodyAbort
  BY <1>7, BodyAbortStep
<1>8. CASE UNCHANGED BodyVars
  BY <1>8 DEF BodyVars, shared, BodyIInv, BodyFlags, BodyShapes, BranchesOK, BranchOK, NativeOK,
     BufferFitsReaders
<1> QED BY <1>1, <1>2, <1>3, <1>4, <1>5, <1>6, <1>7, <1>8 DEF BodyNext

\* Before the response the inductive invariant holds.
LEMMA BodyStarts == BodyInit => BodyIInv
<1> SUFFICES ASSUME BodyInit PROVE BodyIInv
  OBVIOUS
<1>1. DOMAIN pos = {} /\ pos = [b \in DOMAIN pos |-> pos[b]]
  BY DEF BodyInit
<1>2. BodyFlags
  BY DEF BodyInit, BodyFlags
<1>3. at \in [Branches -> AtStates] /\ mode \in [Branches -> {"stream", "collect", "cancel"}]
      /\ read \in [Branches -> Nat]
  BY DEF BodyInit, AtStates
<1>4. BodyShapes
  BY <1>1, <1>3, BodyAssumption DEF BodyInit, BodyShapes
<1>5. ASSUME NEW b \in Branches PROVE BranchOK(b)
  BY <1>1 DEF BodyInit, BranchOK, Registered, Reading, Leases
<1>6. NativeOK
  BY DEF BodyInit, NativeOK, Leases
<1>7. BufferFitsReaders
  BY <1>1 DEF BufferFitsReaders
<1> QED BY <1>2, <1>4, <1>5, <1>6, <1>7 DEF BodyIInv, BranchesOK

\* The inductive invariant implies what the runs check.
LEMMA BodyImplied == BodyIInv => BodyInv
<1> SUFFICES ASSUME BodyIInv PROVE BodyInv
  OBVIOUS
<1>1. /\ BodyFlags /\ BodyShapes /\ BranchesOK /\ NativeOK /\ BufferFitsReaders
      /\ produced \in Nat /\ MaxPieces \in Nat /\ produced <= MaxPieces
      /\ \A x \in DOMAIN pos : x \in Branches /\ pos[x] \in 0..MaxPieces
      /\ \A x \in Branches : BranchOK(x)
  BY BodyUnpack
<1>2. BodyTypeOK
  <2>1. read \in [Branches -> 0..MaxPieces]
    <3>1. \A b \in Branches : read[b] \in 0..MaxPieces
      BY <1>1 DEF BranchOK, BodyShapes
    <3> QED BY <3>1, <1>1 DEF BodyShapes
  <2> QED BY <2>1, <1>1 DEF BodyTypeOK, BodyFlags, BodyShapes, AtStates
<1>3. EndsWhole
  BY <1>1 DEF EndsWhole, BranchOK
<1>4. OneLease
  <2> DEFINE L == {b \in Branches : at[b] \in {"reading", "holding"}}
  <2>1. \A b \in Branches : b \in L <=> Leases(at[b])
    BY DEF Leases
  <2>2. native = "leased" <=> \E b \in Branches : at[b] \in {"reading", "holding"}
    BY <2>1, <1>1 DEF NativeOK, BranchOK
  <2>3. Cardinality(L) <= 1
    <3>1. CASE L = {}
      <4>1. Cardinality({}) = 0
        BY FS_EmptySet
      <4> QED BY <3>1, <4>1
    <3>2. CASE L # {}
      <4>1. PICK b \in L : TRUE
        BY <3>2
      <4>2. L = {b}
        BY <4>1, <2>1, <1>1 DEF NativeOK
      <4>3. Cardinality({b}) = 1
        BY FS_Singleton
      <4> QED BY <4>2, <4>3
    <3> QED BY <3>1, <3>2
  <2>4. native = "gone" => finished
    BY <1>1 DEF NativeOK
  <2> QED BY <2>2, <2>3, <2>4 DEF OneLease
<1> QED BY <1>1, <1>2, <1>3, <1>4 DEF BodyInv

\* For bodies of any length and any number of clones: a branch that ends without an error has
\* read all of the body, the buffer holds what the slowest branch still needs and no more, and
\* the native stream is held by one branch at a time and given up only when the body is over.
THEOREM BodyIsSafe == BodySpec => []BodyInv
<1>1. BodyInit => BodyIInv
  BY BodyStarts
<1>2. BodyIInv /\ [BodyNext]_BodyVars => BodyIInv'
  BY BodyStep
<1>3. BodyIInv => BodyInv
  BY BodyImplied
<1> QED BY <1>1, <1>2, <1>3, PTL DEF BodySpec

-----------------------------------------------------------------------------
(* A line of messages: what was handed out and what waits *)

\* What was handed out and what waits are the first messages of a line of at most max, in order.
LineOK(got, waits, n, max) ==
    /\ got \in Seq(Nat) /\ waits \in Seq(Nat) /\ n \in 0..max
    /\ n = Len(got) + Len(waits)
    /\ \A k \in 1..Len(got) : got[k] = k
    /\ \A k \in 1..Len(waits) : waits[k] = Len(got) + k

\* What a line is made of
LEMMA LineParts ==
  ASSUME NEW got, NEW waits, NEW n, NEW max \in Nat, LineOK(got, waits, n, max)
  PROVE  /\ got \in Seq(Nat) /\ waits \in Seq(Nat) /\ n \in Nat /\ n <= max
         /\ Len(got) \in Nat /\ Len(waits) \in Nat /\ n = Len(got) + Len(waits)
         /\ \A k \in 1..Len(got) : got[k] = k
         /\ \A k \in 1..Len(waits) : waits[k] = Len(got) + k
BY DEF LineOK

\* A message that is posted is the last one of its line.
LEMMA LinePosted ==
  ASSUME NEW got, NEW waits, NEW n, NEW max \in Nat, LineOK(got, waits, n, max), n < max
  PROVE  LineOK(got, Append(waits, n + 1), n + 1, max)
<1> DEFINE g == Len(got)
           w == Len(waits)
           more == Append(waits, n + 1)
<1>1. g \in Nat /\ w \in Nat /\ n \in Nat /\ n = g + w /\ n + 1 \in 0..max
  BY DEF LineOK
<1>2. more \in Seq(Nat) /\ Len(more) = w + 1 /\ more[w + 1] = n + 1
      /\ \A k \in 1..w : more[k] = waits[k]
  BY <1>1 DEF LineOK
<1>3. \A k \in 1..w : more[k] = g + k
  BY <1>2 DEF LineOK
<1> HIDE DEF more
<1>4. \A k \in 1..Len(more) : more[k] = g + k
  <2> HIDE DEF g, w
  <2>1. TAKE k \in 1..Len(more)
  <2>2. CASE k \in 1..w
    BY <2>2, <1>3
  <2>3. CASE k = w + 1
    BY <2>3, <1>1, <1>2
  <2> QED BY <2>2, <2>3, <1>1, <1>2
<1>5. n + 1 = g + Len(more)
  BY <1>1, <1>2
<1> QED BY <1>1, <1>2, <1>4, <1>5 DEF LineOK, more

\* The message that is delivered is the next one of its line.
LEMMA LineDelivered ==
  ASSUME NEW got, NEW waits, NEW n, NEW max \in Nat, LineOK(got, waits, n, max), waits # <<>>
  PROVE  LineOK(Append(got, Head(waits)), Tail(waits), n, max)
<1> DEFINE g == Len(got)
           w == Len(waits)
           more == Append(got, Head(waits))
           rest == Tail(waits)
<1>1. g \in Nat /\ w \in Nat /\ w > 0 /\ n \in 0..max /\ n = g + w
  BY DEF LineOK
<1>2. Head(waits) = g + 1
  BY <1>1 DEF LineOK
<1>3. more \in Seq(Nat) /\ Len(more) = g + 1 /\ more[g + 1] = g + 1
      /\ \A k \in 1..g : more[k] = k
  BY <1>1, <1>2 DEF LineOK
<1>4. rest \in Seq(Nat) /\ Len(rest) = w - 1 /\ \A k \in 1..w - 1 : rest[k] = waits[k + 1]
  BY <1>1 DEF LineOK
<1>5. \A k \in 1..w : waits[k] = g + k
  BY DEF LineOK
<1> HIDE DEF g, w, more, rest
<1>6. \A k \in 1..w - 1 : rest[k] = (g + 1) + k
  <2>1. TAKE k \in 1..w - 1
  <2>2. k + 1 \in 1..w
    BY <1>1
  <2>3. waits[k + 1] = g + (k + 1)
    BY <2>2, <1>5
  <2> QED BY <2>3, <1>1, <1>4
<1>7. \A k \in 1..Len(more) : more[k] = k
  <2>1. TAKE k \in 1..Len(more)
  <2>2. k \in 1..g \/ k = g + 1
    BY <1>1, <1>3
  <2> QED BY <2>2, <1>3
<1>8. n = Len(more) + Len(rest)
  BY <1>1, <1>3, <1>4
<1>9. LineOK(more, rest, n, max)
  BY <1>1, <1>3, <1>4, <1>6, <1>7, <1>8 DEF LineOK
<1> QED BY <1>9 DEF more, rest

\* What was delivered and what waits is within what may be posted.
LEMMA LineInBounds ==
  ASSUME NEW got, NEW waits, NEW n, NEW max \in Nat, LineOK(got, waits, n, max)
  PROVE  got \in Seq(1..max) /\ waits \in Seq(1..max)
<1> DEFINE g == Len(got)
           w == Len(waits)
<1>1. g \in Nat /\ w \in Nat /\ g + w <= max
  BY DEF LineOK
<1>2. \A k \in 1..g : got[k] \in 1..max
  <2>1. TAKE k \in 1..g
  <2>2. got[k] = k
    BY DEF LineOK
  <2> HIDE DEF g, w
  <2> QED BY <2>2, <1>1
<1>3. \A k \in 1..w : waits[k] \in 1..max
  <2>1. TAKE k \in 1..w
  <2>2. waits[k] = g + k
    BY DEF LineOK
  <2> HIDE DEF g, w
  <2> QED BY <2>2, <1>1
<1>4. got \in Seq(Nat) /\ waits \in Seq(Nat) /\ max \in Nat
  BY DEF LineOK
<1>5. got \in Seq(1..max)
  BY <1>2, <1>4
<1>6. waits \in Seq(1..max)
  BY <1>3, <1>4
<1> QED BY <1>5, <1>6

\* With nothing before it, a message goes straight out.
LEMMA LineTaken ==
  ASSUME NEW got, NEW n, NEW max \in Nat, LineOK(got, <<>>, n, max), n < max
  PROVE  LineOK(Append(got, n + 1), <<>>, n + 1, max)
<1> DEFINE w == Append(<<>>, n + 1)
<1>1. n \in Nat
  BY DEF LineOK
<1>2. LineOK(got, w, n + 1, max)
  BY LinePosted
<1>3. w # <<>> /\ Head(w) = n + 1 /\ Tail(w) = <<>>
  BY <1>1
<1> HIDE DEF w
<1> DEFINE m == n + 1
<1>4. LineOK(Append(got, Head(w)), Tail(w), m, max)
  <2>1. m = n + 1
    OBVIOUS
  <2> HIDE DEF m
  <2> QED BY <2>1, <1>2, <1>3, LineDelivered
<1> QED BY <1>3, <1>4

-----------------------------------------------------------------------------
(* The response of node:http's client: the inductive invariant *)

ReplyErrors == {"none", "host", "borrow"}
Replies ==
    [asked : BOOLEAN, flowing : BOOLEAN, reading : BOOLEAN, buffer : Seq(Nat), consuming : BOOLEAN,
     pump : {"idle", "await"}, given : Nat, complete : BOOLEAN, ended : BOOLEAN,
     endEmitted : BOOLEAN, destroyed : BOOLEAN, left : BOOLEAN, error : ReplyErrors,
     closing : BOOLEAN, closed : BOOLEAN, discarded : BOOLEAN, reqGone : BOOLEAN, data : Seq(Nat)]

\* The end is told once everything was given, to a pump that is at rest.
EndOK(s) ==
    /\ s.complete => s.given = total /\ ending # "error" /\ s.pump = "idle"
    /\ s.ended <=> s.complete
    /\ s.endEmitted => s.complete /\ s.buffer = <<>>
\* The pump reads when there is room, on behalf of the last _read().
AwaitOK(s) ==
    /\ s.pump = "await" => s.consuming /\ Len(s.buffer) < BodyMark
    /\ Len(s.buffer) <= BodyMark
\* A response is closed by destroy(), which leaves the body to nobody but the pump.
GoneOK(s) ==
    /\ s.error = "borrow" => s.left
    /\ s.closing \/ s.closed => s.destroyed /\ (s.complete \/ s.discarded \/ s.pump = "await")

ReplyOK(s) ==
    /\ s \in Replies /\ LineOK(s.data, s.buffer, s.given, total)
    /\ EndOK(s) /\ AwaitOK(s) /\ GoneOK(s)
ServerOK == total \in 0..BodyPieces /\ leaveAt \in 0..BodyPieces /\ ending \in {"end", "error", "empty"}
            /\ (ending = "empty" => total = 0)
ReplyIInv == ServerOK /\ ReplyOK(incoming)


\* A step on what surrounds the body
KeepsBody(s, t) ==
    /\ t.buffer = s.buffer /\ t.data = s.data /\ t.given = s.given /\ t.pump = s.pump
    /\ (t.consuming <=> s.consuming) /\ (t.complete <=> s.complete)

\* What one field of a response tells of another record
LEMMA ReplyFields ==
  ASSUME NEW s \in Replies
  PROVE  /\ s.buffer \in Seq(Nat) /\ s.data \in Seq(Nat) /\ s.given \in Nat /\ s.pump \in {"idle", "await"}
         /\ s.error \in ReplyErrors /\ s.left \in BOOLEAN /\ s.complete \in BOOLEAN /\ s.destroyed \in BOOLEAN
         /\ s.consuming \in BOOLEAN /\ s.flowing \in BOOLEAN /\ s.ended \in BOOLEAN
BY DEF Replies

\* What destroy() changes
LEMMA GoneFields ==
  ASSUME NEW s \in Replies, NEW e \in ReplyErrors, ~s.destroyed
  PROVE  LET t == Gone(s, e)
         IN  /\ t \in Replies /\ KeepsBody(s, t) /\ (t.ended <=> s.ended) /\ (t.endEmitted <=> s.endEmitted)
             /\ (t.left <=> s.left) /\ (t.closed <=> s.closed) /\ t.destroyed
             /\ t.error \in {e, "borrow"} /\ (t.error = "borrow" /\ e # "borrow" => s.pump = "await")
             /\ (t.discarded \/ s.pump = "await")
<1> DEFINE g == [s EXCEPT !.destroyed = TRUE, !.closing = TRUE, !.error = e]
<1>1. Gone(s, e) = Dropped(g)
  BY DEF Gone
<1>2. g \in Replies
  BY DEF Replies
<1>3. /\ g.buffer = s.buffer /\ g.data = s.data /\ g.given = s.given /\ g.pump = s.pump
      /\ (g.consuming <=> s.consuming) /\ (g.complete <=> s.complete) /\ (g.ended <=> s.ended)
      /\ (g.endEmitted <=> s.endEmitted) /\ (g.left <=> s.left) /\ (g.closed <=> s.closed)
      /\ g.destroyed /\ g.error = e
  BY DEF Replies
<1> HIDE DEF g
<1>4. CASE g.pump = "await"
  <2> DEFINE b == IF g.error = "none" THEN "borrow" ELSE g.error
  <2>1. Dropped(g) = [g EXCEPT !.error = b]
    BY <1>4 DEF Dropped
  <2>2. b \in ReplyErrors /\ b \in {e, "borrow"}
    BY <1>3 DEF ReplyErrors
  <2> HIDE DEF b
  <2>3. [g EXCEPT !.error = b] \in Replies
    BY <2>2, <1>2 DEF Replies
  <2> QED BY <2>1, <2>2, <2>3, <1>1, <1>2, <1>3, <1>4 DEF Replies, KeepsBody
<1>5. CASE g.pump # "await"
  <2> DEFINE r == g.reqGone \/ ~g.complete
  <2>1. Dropped(g) = [g EXCEPT !.discarded = TRUE, !.reqGone = r]
    BY <1>5 DEF Dropped
  <2>2. r \in BOOLEAN
    OBVIOUS
  <2> HIDE DEF r
  <2>3. [g EXCEPT !.discarded = TRUE, !.reqGone = r] \in Replies
    BY <2>2, <1>2 DEF Replies
  <2> QED BY <2>1, <2>3, <1>1, <1>2, <1>3, <1>5 DEF Replies, KeepsBody
<1> QED BY <1>4, <1>5

\* destroy() and its like
LEMMA GoneKeeps ==
  ASSUME NEW s, ReplyOK(s), NEW e \in {"none", "host"}, s.pump = "await" => s.left
  PROVE  ReplyOK(Gone(s, e)) /\ KeepsBody(s, Gone(s, e))
<1>1. s \in Replies /\ e \in ReplyErrors
  BY DEF ReplyOK, ReplyErrors
<1>2. CASE s.destroyed
  BY <1>2 DEF Gone, KeepsBody
<1>3. CASE ~s.destroyed
  <2> DEFINE t == Gone(s, e)
  <2>1. /\ t \in Replies /\ KeepsBody(s, t) /\ (t.ended <=> s.ended) /\ (t.endEmitted <=> s.endEmitted)
        /\ (t.left <=> s.left) /\ (t.closed <=> s.closed) /\ t.destroyed
        /\ t.error \in {e, "borrow"} /\ (t.error = "borrow" /\ e # "borrow" => s.pump = "await")
        /\ (t.discarded \/ s.pump = "await")
    BY <1>1, <1>3, GoneFields
  <2> HIDE DEF t
  <2>2. EndOK(t) /\ AwaitOK(t)
    BY <2>1 DEF ReplyOK, EndOK, AwaitOK, KeepsBody
  <2>3. GoneOK(t)
    BY <2>1 DEF ReplyOK, GoneOK, KeepsBody
  <2> QED BY <2>1, <2>2, <2>3 DEF ReplyOK, KeepsBody, t
<1> QED BY <1>2, <1>3

\* A listener that leaves the response keeps its promises.
LEMMA LeftByKeeps ==
  ASSUME NEW s, ReplyOK(s)
  PROVE  ReplyOK(LeftBy(s)) /\ KeepsBody(s, LeftBy(s)) /\ (s.pump = "idle" /\ ~s.destroyed => LeftBy(s).destroyed)
<1> DEFINE m == s.left \/ ~s.destroyed
           t == [s EXCEPT !.left = m]
<1>1. LeftBy(s) = Gone(t, "none")
  BY DEF LeftBy
<1>2. s \in Replies /\ m \in BOOLEAN
  BY DEF ReplyOK
<1>3. m <=> s.left \/ ~s.destroyed
  OBVIOUS
<1> HIDE DEF m
<1>4. t \in Replies
  BY <1>2 DEF Replies
<1>5. /\ KeepsBody(s, t) /\ (t.ended <=> s.ended) /\ (t.endEmitted <=> s.endEmitted) /\ (t.left <=> m)
      /\ (t.closed <=> s.closed) /\ (t.closing <=> s.closing) /\ (t.destroyed <=> s.destroyed)
      /\ t.error = s.error /\ (t.discarded <=> s.discarded)
  BY <1>2 DEF Replies, KeepsBody
<1> HIDE DEF t
<1>6. ReplyOK(t)
  <2>1. EndOK(t) /\ AwaitOK(t)
    BY <1>5 DEF ReplyOK, EndOK, AwaitOK, KeepsBody
  <2>2. GoneOK(t)
    BY <1>3, <1>5 DEF ReplyOK, GoneOK, KeepsBody
  <2> QED BY <2>1, <2>2, <1>4, <1>5 DEF ReplyOK, KeepsBody
<1>7. CASE s.destroyed
  <2>1. Gone(t, "none") = t
    BY <1>5, <1>7 DEF Gone
  <2> QED BY <2>1, <1>1, <1>5, <1>6, <1>7
<1>8. CASE ~s.destroyed
  <2>1. t.pump = "await" => t.left
    BY <1>3, <1>5, <1>8
  <2>2. ReplyOK(Gone(t, "none")) /\ KeepsBody(t, Gone(t, "none"))
    BY <2>1, <1>6, GoneKeeps
  <2>3. Gone(t, "none").destroyed
    BY <1>4, <1>5, <1>8, GoneFields DEF ReplyErrors
  <2> QED BY <2>2, <2>3, <1>1, <1>5 DEF KeepsBody
<1> QED BY <1>7, <1>8

\* The listener of a chunk, which may destroy the response
LEMMA HeardKeeps ==
  ASSUME NEW s, NEW c, NEW t, t = [s EXCEPT !.data = Append(@, c)], ReplyOK(t)
  PROVE  ReplyOK(Heard(s, c)) /\ KeepsBody(t, Heard(s, c))
<1>1. Heard(s, c) = IF c = leaveAt THEN LeftBy(t) ELSE t
  BY DEF Heard
<1>2. ReplyOK(LeftBy(t)) /\ KeepsBody(t, LeftBy(t))
  BY LeftByKeeps
<1>3. KeepsBody(t, t)
  BY DEF KeepsBody
<1> QED BY <1>1, <1>2, <1>3

\* push(null)
LEMMA EndKeeps ==
  ASSUME NEW s, ReplyOK(s), s.given = total, ending # "error"
  PROVE  ReplyOK(PushedEnd(s))
<1> DEFINE t == [s EXCEPT !.complete = TRUE, !.ended = TRUE, !.reading = FALSE, !.pump = "idle"]
<1>1. s \in Replies
  BY DEF ReplyOK
<1>2. t \in Replies
  BY <1>1 DEF Replies
<1>3. /\ t.buffer = s.buffer /\ t.data = s.data /\ t.given = s.given /\ t.pump = "idle"
      /\ t.complete /\ t.ended /\ (t.endEmitted <=> s.endEmitted) /\ (t.left <=> s.left)
      /\ (t.closed <=> s.closed) /\ (t.closing <=> s.closing) /\ (t.destroyed <=> s.destroyed)
      /\ t.error = s.error
  BY <1>1 DEF Replies
<1> HIDE DEF t
<1>4. EndOK(t) /\ AwaitOK(t) /\ GoneOK(t)
  BY <1>3 DEF ReplyOK, EndOK, AwaitOK, GoneOK
<1>5. ReplyOK(t)
  BY <1>2, <1>3, <1>4 DEF ReplyOK
<1> QED BY <1>5 DEF PushedEnd, t

\* A turn of the pump, when nothing is read and there is room
LEMMA TurnKeeps ==
  ASSUME NEW s, ReplyOK(s), s.pump = "idle", s.consuming, Len(s.buffer) < BodyMark, ~s.complete
  PROVE  ReplyOK(PumpTurn(s))
<1>1. s \in Replies
  BY DEF ReplyOK
<1>2. CASE s.destroyed
  <2> DEFINE t == [s EXCEPT !.discarded = TRUE, !.pump = "idle"]
  <2>1. t \in Replies
    BY <1>1 DEF Replies
  <2>2. /\ KeepsBody(s, t)
        /\ (t.ended <=> s.ended) /\ (t.endEmitted <=> s.endEmitted) /\ (t.left <=> s.left)
        /\ (t.closed <=> s.closed) /\ (t.closing <=> s.closing) /\ t.destroyed
        /\ t.error = s.error /\ t.discarded
    BY <1>1, <1>2 DEF Replies, KeepsBody
  <2> HIDE DEF t
  <2>3. EndOK(t) /\ AwaitOK(t) /\ GoneOK(t)
    BY <2>2 DEF ReplyOK, EndOK, AwaitOK, GoneOK, KeepsBody
  <2>4. ReplyOK(t)
    BY <2>1, <2>2, <2>3 DEF ReplyOK, KeepsBody
  <2> QED BY <2>4, <1>2 DEF PumpTurn, t
<1>3. CASE ~s.destroyed
  <2> DEFINE t == [s EXCEPT !.pump = "await"]
  <2>1. t \in Replies
    BY <1>1 DEF Replies
  <2>2. /\ t.buffer = s.buffer /\ t.data = s.data /\ t.given = s.given /\ t.pump = "await"
        /\ (t.consuming <=> s.consuming) /\ (t.complete <=> s.complete)
        /\ (t.ended <=> s.ended) /\ (t.endEmitted <=> s.endEmitted) /\ (t.left <=> s.left)
        /\ (t.closed <=> s.closed) /\ (t.closing <=> s.closing) /\ (t.destroyed <=> s.destroyed)
        /\ t.error = s.error
    BY <1>1 DEF Replies
  <2> HIDE DEF t
  <2>3. EndOK(t) /\ AwaitOK(t) /\ GoneOK(t)
    BY <2>2, <1>3 DEF ReplyOK, EndOK, AwaitOK, GoneOK
  <2>4. ReplyOK(t)
    BY <2>1, <2>2, <2>3 DEF ReplyOK
  <2>5. PumpTurn(s) = t
    BY <1>3 DEF PumpTurn, t
  <2> QED BY <2>4, <2>5
<1> QED BY <1>2, <1>3

\* Only the flags of the Readable, and what was discarded
Aside(s, t) ==
    /\ t \in Replies /\ KeepsBody(s, t)
    /\ (t.ended <=> s.ended) /\ (t.endEmitted <=> s.endEmitted) /\ (t.left <=> s.left)
    /\ (t.closed \/ t.closing <=> s.closed \/ s.closing) /\ (s.destroyed => t.destroyed)
    /\ t.error = s.error /\ (s.discarded => t.discarded)

\* The flags of the Readable are no part of what is promised.
LEMMA Asides ==
  ASSUME NEW s \in Replies
  PROVE  /\ Aside(s, [s EXCEPT !.asked = TRUE]) /\ Aside(s, [s EXCEPT !.flowing = TRUE, !.asked = TRUE])
         /\ Aside(s, [s EXCEPT !.flowing = FALSE]) /\ Aside(s, [s EXCEPT !.reqGone = TRUE])
         /\ Aside(s, [s EXCEPT !.reqGone = TRUE, !.destroyed = TRUE])
         /\ s.closing => Aside(s, [s EXCEPT !.closing = FALSE, !.closed = TRUE])
<1>1. Aside(s, [s EXCEPT !.asked = TRUE])
  <2> DEFINE t == [s EXCEPT !.asked = TRUE]
  <2>1. t \in Replies
    BY DEF Replies
  <2>2. /\ t.buffer = s.buffer /\ t.data = s.data /\ t.given = s.given /\ t.pump = s.pump
        /\ (t.consuming <=> s.consuming) /\ (t.complete <=> s.complete)
        /\ (t.ended <=> s.ended) /\ (t.endEmitted <=> s.endEmitted) /\ (t.left <=> s.left)
        /\ (t.closed <=> s.closed) /\ (t.closing <=> s.closing) /\ (s.destroyed => t.destroyed)
        /\ t.error = s.error /\ (s.discarded => t.discarded)
    BY DEF Replies
  <2> HIDE DEF t
  <2> QED BY <2>1, <2>2 DEF Aside, KeepsBody, t
<1>2. Aside(s, [s EXCEPT !.flowing = TRUE, !.asked = TRUE])
  <2> DEFINE t == [s EXCEPT !.flowing = TRUE, !.asked = TRUE]
  <2>1. t \in Replies
    BY DEF Replies
  <2>2. /\ t.buffer = s.buffer /\ t.data = s.data /\ t.given = s.given /\ t.pump = s.pump
        /\ (t.consuming <=> s.consuming) /\ (t.complete <=> s.complete)
        /\ (t.ended <=> s.ended) /\ (t.endEmitted <=> s.endEmitted) /\ (t.left <=> s.left)
        /\ (t.closed <=> s.closed) /\ (t.closing <=> s.closing) /\ (s.destroyed => t.destroyed)
        /\ t.error = s.error /\ (s.discarded => t.discarded)
    BY DEF Replies
  <2> HIDE DEF t
  <2> QED BY <2>1, <2>2 DEF Aside, KeepsBody, t
<1>3. Aside(s, [s EXCEPT !.flowing = FALSE])
  <2> DEFINE t == [s EXCEPT !.flowing = FALSE]
  <2>1. t \in Replies
    BY DEF Replies
  <2>2. /\ t.buffer = s.buffer /\ t.data = s.data /\ t.given = s.given /\ t.pump = s.pump
        /\ (t.consuming <=> s.consuming) /\ (t.complete <=> s.complete)
        /\ (t.ended <=> s.ended) /\ (t.endEmitted <=> s.endEmitted) /\ (t.left <=> s.left)
        /\ (t.closed <=> s.closed) /\ (t.closing <=> s.closing) /\ (s.destroyed => t.destroyed)
        /\ t.error = s.error /\ (s.discarded => t.discarded)
    BY DEF Replies
  <2> HIDE DEF t
  <2> QED BY <2>1, <2>2 DEF Aside, KeepsBody, t
<1>4. Aside(s, [s EXCEPT !.reqGone = TRUE])
  <2> DEFINE t == [s EXCEPT !.reqGone = TRUE]
  <2>1. t \in Replies
    BY DEF Replies
  <2>2. /\ t.buffer = s.buffer /\ t.data = s.data /\ t.given = s.given /\ t.pump = s.pump
        /\ (t.consuming <=> s.consuming) /\ (t.complete <=> s.complete)
        /\ (t.ended <=> s.ended) /\ (t.endEmitted <=> s.endEmitted) /\ (t.left <=> s.left)
        /\ (t.closed <=> s.closed) /\ (t.closing <=> s.closing) /\ (s.destroyed => t.destroyed)
        /\ t.error = s.error /\ (s.discarded => t.discarded)
    BY DEF Replies
  <2> HIDE DEF t
  <2> QED BY <2>1, <2>2 DEF Aside, KeepsBody, t
<1>5. Aside(s, [s EXCEPT !.reqGone = TRUE, !.destroyed = TRUE])
  <2> DEFINE t == [s EXCEPT !.reqGone = TRUE, !.destroyed = TRUE]
  <2>1. t \in Replies
    BY DEF Replies
  <2>2. /\ t.buffer = s.buffer /\ t.data = s.data /\ t.given = s.given /\ t.pump = s.pump
        /\ (t.consuming <=> s.consuming) /\ (t.complete <=> s.complete)
        /\ (t.ended <=> s.ended) /\ (t.endEmitted <=> s.endEmitted) /\ (t.left <=> s.left)
        /\ (t.closed <=> s.closed) /\ (t.closing <=> s.closing) /\ (s.destroyed => t.destroyed)
        /\ t.error = s.error /\ (s.discarded => t.discarded)
    BY DEF Replies
  <2> HIDE DEF t
  <2> QED BY <2>1, <2>2 DEF Aside, KeepsBody, t
<1>6. s.closing => Aside(s, [s EXCEPT !.closing = FALSE, !.closed = TRUE])
  BY DEF Aside, Replies, KeepsBody
<1> QED BY <1>1, <1>2, <1>3, <1>4, <1>5, <1>6

\* A step on the flags of the Readable keeps what is promised.
LEMMA AsideKeeps == ASSUME NEW s, NEW t, ReplyOK(s), Aside(s, t) PROVE ReplyOK(t)
<1>1. EndOK(t) /\ AwaitOK(t) /\ GoneOK(t)
  BY DEF Aside, ReplyOK, EndOK, AwaitOK, GoneOK, KeepsBody
<1> QED BY <1>1 DEF Aside, ReplyOK, KeepsBody

\* _read() asks the pump for more.
LEMMA AsksMoreStep == ASSUME ReplyIInv, AsksMore PROVE ReplyIInv'
<1> DEFINE s == incoming
           reads == [s EXCEPT !.reading = TRUE]
           on == [reads EXCEPT !.consuming = TRUE]
<1>1. /\ ~s.ended /\ Len(s.buffer) < BodyMark /\ incoming' = Asked(s)
      /\ UNCHANGED <<total, ending, leaveAt>>
  BY DEF AsksMore, Job
<1>2. ReplyOK(s) /\ s \in Replies /\ ServerOK /\ ~s.complete
  BY <1>1 DEF ReplyIInv, ReplyOK, EndOK
<1> HIDE DEF s
<1>3. Aside(s, reads)
  BY <1>2 DEF Aside, Replies, KeepsBody
<1>4. ReplyOK(reads) /\ reads \in Replies
  BY <1>2, <1>3, AsideKeeps DEF Aside
<1>5. CASE s.consuming
  <2>1. Asked(s) = reads
    BY <1>5 DEF Asked
  <2> QED BY <2>1, <1>1, <1>2, <1>4 DEF ReplyIInv, ReplyOK, ServerOK, EndOK, AwaitOK, GoneOK
<1>6. CASE ~s.consuming
  <2>1. Asked(s) = PumpStarts(on)
    BY <1>6 DEF Asked
  <2>2. s.pump = "idle"
    BY <1>2, <1>6 DEF ReplyOK, AwaitOK, Replies
  <2>3. reads.buffer = s.buffer /\ reads.pump = "idle" /\ ~reads.complete /\ reads.given = s.given
    BY <1>3, <1>2, <2>2 DEF Aside, KeepsBody
  <2> HIDE DEF reads
  <2>4. on \in Replies
    BY <1>4 DEF Replies
  <2>5. /\ on.buffer = reads.buffer /\ on.data = reads.data /\ on.given = reads.given /\ on.pump = reads.pump
        /\ on.consuming /\ (on.complete <=> reads.complete)
        /\ (on.ended <=> reads.ended) /\ (on.endEmitted <=> reads.endEmitted) /\ (on.left <=> reads.left)
        /\ (on.closed <=> reads.closed) /\ (on.closing <=> reads.closing) /\ (on.destroyed <=> reads.destroyed)
        /\ on.error = reads.error /\ (on.discarded <=> reads.discarded)
    BY <1>4 DEF Replies
  <2> HIDE DEF on
  <2>6. ReplyOK(on)
    <3>1. EndOK(on) /\ AwaitOK(on) /\ GoneOK(on)
      BY <2>3, <2>5, <1>4 DEF ReplyOK, EndOK, AwaitOK, GoneOK
    <3> QED BY <3>1, <2>4, <2>5, <1>4 DEF ReplyOK
  <2>7. CASE ending = "empty"
    <3> DEFINE d == [on EXCEPT !.discarded = TRUE]
    <3>1. Aside(on, d)
      BY <2>4 DEF Aside, Replies, KeepsBody
    <3>2. ReplyOK(d) /\ d.given = on.given
      BY <3>1, <2>6, AsideKeeps DEF Aside, KeepsBody
    <3> HIDE DEF d
    <3>3. d.given = total
      <4>1. d.given \in 0..total
        BY <3>2 DEF ReplyOK, LineOK
      <4>2. total = 0
        BY <2>7, <1>2 DEF ServerOK
      <4> HIDE DEF d
      <4> QED BY <4>1, <4>2
    <3>4. ReplyOK(PushedEnd(d))
      BY <3>2, <3>3, <2>7, EndKeeps
    <3>5. PumpStarts(on) = PushedEnd(d)
      BY <2>7 DEF PumpStarts, d
    <3>6. ReplyOK(incoming')
      BY <3>4, <3>5, <2>1, <1>1
    <3> QED BY <3>6, <1>1, <1>2 DEF ReplyIInv, ReplyOK, ServerOK, EndOK, AwaitOK, GoneOK
  <2>8. CASE ending # "empty"
    <3>1. PumpStarts(on) = PumpTurn(on)
      BY <2>8 DEF PumpStarts
    <3>2. ReplyOK(PumpTurn(on))
      BY <2>3, <2>5, <2>6, <1>1, TurnKeeps DEF s
    <3>3. ReplyOK(incoming')
      BY <3>1, <3>2, <2>1, <1>1
    <3> QED BY <3>3, <1>1, <1>2 DEF ReplyIInv, ReplyOK, ServerOK, EndOK, AwaitOK, GoneOK
  <2> QED BY <2>7, <2>8
<1> QED BY <1>5, <1>6

\* The server's part is the same in the next state.
LEMMA Lifted ==
  ASSUME ReplyIInv, UNCHANGED <<total, ending, leaveAt>>, NEW t, ReplyOK(t), incoming' = t
  PROVE  ReplyIInv'
BY DEF ReplyIInv, ReplyOK, ServerOK, EndOK, AwaitOK, GoneOK

\* A chunk leaves the buffer for the listener.
LEMMA OutKeeps ==
  ASSUME ReplyIInv, incoming.buffer # <<>>
  PROVE  ReplyOK(Out)
<1> DEFINE s == incoming
           rest == Tail(s.buffer)
           head == Head(s.buffer)
           more == Append(s.data, head)
           u == [s EXCEPT !.buffer = rest]
           t == [u EXCEPT !.data = more]
<1>1. ReplyOK(s) /\ s \in Replies /\ LineOK(s.data, s.buffer, s.given, total) /\ total \in Nat
  BY ResponseAssumption DEF ReplyIInv, ReplyOK, ServerOK
<1>2. LineOK(more, rest, s.given, total) /\ rest \in Seq(Nat) /\ more \in Seq(Nat)
  <2>1. LineOK(more, rest, s.given, total)
    BY <1>1, LineDelivered
  <2> QED BY <2>1 DEF LineOK
<1>3. Len(rest) < Len(s.buffer) /\ Len(rest) \in Nat /\ Len(s.buffer) \in Nat
  BY <1>1 DEF LineOK
<1>4. Out = Heard(u, head)
  BY DEF Out
<1>5. ~s.endEmitted
  BY <1>1 DEF ReplyOK, EndOK
<1> HIDE DEF s, rest, more
<1>6. u \in Replies /\ u.data = s.data
  BY <1>1, <1>2 DEF Replies
<1>7. t \in Replies
  <2> HIDE DEF u
  <2> QED BY <1>2, <1>6 DEF Replies
<1>8. /\ t.buffer = rest /\ t.data = more /\ t.given = s.given /\ t.pump = s.pump
      /\ (t.consuming <=> s.consuming) /\ (t.complete <=> s.complete)
      /\ (t.ended <=> s.ended) /\ (t.endEmitted <=> s.endEmitted) /\ (t.left <=> s.left)
      /\ (t.closed <=> s.closed) /\ (t.closing <=> s.closing) /\ (t.destroyed <=> s.destroyed)
      /\ t.error = s.error /\ (t.discarded <=> s.discarded)
  BY <1>1 DEF Replies
<1>9. t = [u EXCEPT !.data = Append(@, head)]
  BY <1>6 DEF more
<1> HIDE DEF t, u
<1>10. AwaitOK(t)
  <2>1. AwaitOK(s) /\ BodyMark \in Nat
    BY <1>1, ResponseAssumption DEF ReplyOK
  <2> DEFINE a == Len(rest)
             b == Len(s.buffer)
  <2>2. a \in Nat /\ b \in Nat /\ a < b /\ Len(t.buffer) = a
    BY <1>3, <1>8
  <2>3. (s.pump = "await" => s.consuming /\ b < BodyMark) /\ b <= BodyMark
    BY <2>1 DEF AwaitOK
  <2> HIDE DEF a, b
  <2> QED BY <2>1, <2>2, <2>3, <1>8 DEF AwaitOK
<1>11. EndOK(t) /\ GoneOK(t)
  BY <1>1, <1>5, <1>8 DEF ReplyOK, EndOK, GoneOK
<1>12. ReplyOK(t)
  BY <1>2, <1>7, <1>8, <1>10, <1>11 DEF ReplyOK
<1>13. ReplyOK(Heard(u, head))
  BY <1>9, <1>12, HeardKeeps
<1> QED BY <1>4, <1>13

\* A chunk is read out of the buffer.
LEMMA ReadStep == ASSUME ReplyIInv, HandsOut \/ ReadPiece PROVE ReplyIInv'
<1>1. UNCHANGED <<total, ending, leaveAt>>
  BY DEF HandsOut, ReadPiece, Job
<1>2. ReplyOK(incoming) /\ incoming \in Replies
  BY DEF ReplyIInv, ReplyOK
<1>3. CASE HandsOut
  <2>1. incoming.buffer # <<>> /\ incoming' = Out
    BY <1>3 DEF HandsOut
  <2> QED BY <2>1, <1>1, OutKeeps, Lifted
<1>4. CASE ReadPiece /\ incoming.buffer = <<>>
  <2> DEFINE t == [incoming EXCEPT !.asked = TRUE]
  <2>1. incoming' = t
    BY <1>4 DEF ReadPiece
  <2>2. Aside(incoming, t)
    BY <1>2, Asides
  <2>3. ReplyOK(t)
    BY <2>2, <1>2, AsideKeeps
  <2> QED BY <2>1, <2>3, <1>1, Lifted
<1>5. CASE ReadPiece /\ incoming.buffer # <<>>
  <2> DEFINE s == Out
             t == [s EXCEPT !.asked = TRUE]
  <2>1. incoming' = t
    BY <1>5 DEF ReadPiece
  <2>2. ReplyOK(s) /\ s \in Replies
    BY <1>5, OutKeeps DEF ReplyOK
  <2> HIDE DEF s
  <2>3. Aside(s, t)
    BY <2>2, Asides
  <2>4. ReplyOK(t)
    BY <2>2, <2>3, AsideKeeps
  <2> QED BY <2>1, <2>4, <1>1, Lifted
<1> QED BY <1>3, <1>4, <1>5

\* A piece of the body arrives: it is handed out or kept, and the pump goes on if there is room.
LEMMA PieceArrivesStep == ASSUME ReplyIInv, PieceArrives PROVE ReplyIInv'
<1> DEFINE s == incoming
           idle == [s EXCEPT !.pump = "idle"]
           c == s.given + 1
<1>1. s.pump = "await" /\ UNCHANGED <<total, ending, leaveAt>>
  BY DEF PieceArrives, Job
<1>2. /\ ReplyOK(s) /\ s \in Replies /\ LineOK(s.data, s.buffer, s.given, total) /\ total \in Nat
      /\ AwaitOK(s) /\ EndOK(s) /\ GoneOK(s)
  BY ResponseAssumption DEF ReplyIInv, ReplyOK, ServerOK
<1>3. s.consuming /\ Len(s.buffer) < BodyMark /\ ~s.complete
  BY <1>1, <1>2 DEF AwaitOK, EndOK
<1>4. s.given \in Nat /\ s.given <= total
  BY <1>2, LineParts
<1>5. idle \in Replies
  BY <1>2 DEF Replies
<1>6. /\ idle.buffer = s.buffer /\ idle.data = s.data /\ idle.given = s.given /\ idle.pump = "idle"
      /\ (idle.consuming <=> s.consuming) /\ (idle.complete <=> s.complete)
      /\ (idle.ended <=> s.ended) /\ (idle.endEmitted <=> s.endEmitted) /\ (idle.left <=> s.left)
      /\ (idle.closed <=> s.closed) /\ (idle.closing <=> s.closing) /\ (idle.destroyed <=> s.destroyed)
      /\ idle.error = s.error /\ (idle.discarded <=> s.discarded) /\ (idle.flowing <=> s.flowing)
  BY <1>2 DEF Replies
<1>7. CASE s.destroyed
  <2> DEFINE t == [idle EXCEPT !.discarded = TRUE]
  <2>1. incoming' = t
    BY <1>7 DEF PieceArrives
  <2> HIDE DEF idle
  <2>2. t \in Replies
    BY <1>5 DEF Replies
  <2>3. /\ t.buffer = s.buffer /\ t.data = s.data /\ t.given = s.given /\ t.pump = "idle"
        /\ (t.complete <=> s.complete) /\ (t.ended <=> s.ended) /\ (t.endEmitted <=> s.endEmitted)
        /\ (t.left <=> s.left) /\ t.destroyed /\ t.error = s.error /\ t.discarded
    BY <1>5, <1>6, <1>7 DEF Replies
  <2> HIDE DEF t
  <2>4. EndOK(t) /\ AwaitOK(t) /\ GoneOK(t)
    BY <2>3, <1>2 DEF EndOK, AwaitOK, GoneOK
  <2>5. ReplyOK(t)
    BY <2>2, <2>3, <2>4, <1>2 DEF ReplyOK
  <2> QED BY <2>1, <2>5, <1>1, Lifted
<1>8. ASSUME ~s.destroyed PROVE ReplyOK(idle)
  <2> HIDE DEF idle, s
  <2>1. EndOK(idle) /\ AwaitOK(idle) /\ GoneOK(idle)
    BY <1>2, <1>6, <1>8 DEF EndOK, AwaitOK, GoneOK
  <2> QED BY <2>1, <1>2, <1>5, <1>6 DEF ReplyOK
<1>9. CASE ~s.destroyed /\ s.given < total
  <2> DEFINE counted == [idle EXCEPT !.given = c]
             pushed == Pushed(counted, c)
  <2>1. incoming' = IF Len(pushed.buffer) < BodyMark THEN PumpTurn(pushed) ELSE Stopped(pushed)
    <3>1. [idle EXCEPT !.given = @ + 1] = counted
      BY <1>5, <1>6
    <3> QED BY <3>1, <1>9 DEF PieceArrives
  <2>2. c \in Nat
    BY <1>4
  <2>3. ReplyOK(idle)
    BY <1>8, <1>9
  <2> DEFINE handed == [counted EXCEPT !.reading = FALSE]
  <2> HIDE DEF idle
  <2>4. counted \in Replies /\ counted.buffer = s.buffer /\ (counted.flowing <=> s.flowing)
    BY <2>2, <1>5, <1>6 DEF Replies
  <2>5. handed \in Replies
    <3> HIDE DEF counted
    <3> QED BY <2>4 DEF Replies
  <2>6. /\ handed.buffer = s.buffer /\ handed.data = s.data /\ handed.given = c /\ handed.pump = "idle"
        /\ handed.consuming /\ ~handed.complete /\ (handed.ended <=> s.ended) /\ (handed.endEmitted <=> s.endEmitted)
        /\ (handed.left <=> s.left) /\ (handed.closed <=> s.closed) /\ (handed.closing <=> s.closing)
        /\ ~handed.destroyed /\ handed.error = s.error
    BY <1>3, <1>5, <1>6, <1>9 DEF Replies
  <2>7. ReplyOK(pushed) /\ pushed.pump = "idle" /\ pushed.consuming /\ ~pushed.complete
    <3>1. CASE s.flowing /\ s.buffer = <<>>
      <4> DEFINE d == Append(handed.data, c)
                 t == [handed EXCEPT !.data = d]
      <4>1. t = [handed EXCEPT !.data = Append(@, c)]
        BY <2>5
      <4>2. pushed = Heard(handed, c)
        BY <3>1, <2>4 DEF Pushed
      <4> HIDE DEF handed, s, counted, pushed
      <4>3. LineOK(d, <<>>, c, total) /\ d \in Seq(Nat)
        <5>1. LineOK(handed.data, <<>>, s.given, total)
          BY <3>1, <2>6, <1>2
        <5>2. LineOK(d, <<>>, c, total)
          BY <5>1, <1>2, <1>9, LineTaken
        <5> QED BY <5>2 DEF LineOK
      <4> HIDE DEF d, c
      <4>4. t \in Replies
        BY <4>3, <2>5 DEF Replies
      <4>5. /\ t.buffer = s.buffer /\ t.data = d /\ t.given = c /\ t.pump = "idle"
            /\ t.consuming /\ ~t.complete /\ (t.ended <=> s.ended) /\ (t.endEmitted <=> s.endEmitted)
            /\ (t.left <=> s.left) /\ (t.closed <=> s.closed) /\ (t.closing <=> s.closing)
            /\ ~t.destroyed /\ t.error = s.error
        BY <2>5, <2>6 DEF Replies
      <4> HIDE DEF t
      <4>6. EndOK(t) /\ AwaitOK(t) /\ GoneOK(t)
        BY <4>5, <1>2, <1>3, <1>9 DEF EndOK, AwaitOK, GoneOK
      <4>7. ReplyOK(t)
        BY <4>3, <4>4, <4>5, <4>6, <3>1 DEF ReplyOK
      <4>8. ReplyOK(Heard(handed, c)) /\ KeepsBody(t, Heard(handed, c))
        BY <4>1, <4>7, HeardKeeps DEF t
      <4> QED BY <4>2, <4>5, <4>8 DEF KeepsBody
    <3>2. CASE ~(s.flowing /\ s.buffer = <<>>)
      <4> DEFINE b == Append(handed.buffer, c)
                 t == [handed EXCEPT !.buffer = b]
      <4>1. pushed = t
        <5>1. t = [handed EXCEPT !.buffer = Append(@, c)]
          BY <2>5
        <5> QED BY <5>1, <3>2, <2>4 DEF Pushed
      <4> HIDE DEF handed, s, counted, pushed
      <4>2. LineOK(handed.data, b, c, total) /\ b \in Seq(Nat)
        <5>1. LineOK(handed.data, b, c, total)
          BY <2>6, <1>2, <1>9, LinePosted
        <5> QED BY <5>1 DEF LineOK
      <4>3. Len(b) <= BodyMark /\ Len(b) \in Nat
        <5>1. s.buffer \in Seq(Nat)
          BY <1>2 DEF LineOK
        <5>2. Len(b) = Len(s.buffer) + 1 /\ Len(s.buffer) \in Nat
          BY <5>1, <2>6, <2>2
        <5> DEFINE k == Len(s.buffer)
        <5>3. k \in Nat /\ k < BodyMark /\ Len(b) = k + 1 /\ BodyMark \in Nat
          BY <5>2, <1>3, ResponseAssumption
        <5> HIDE DEF k, b
        <5> QED BY <5>3
      <4> HIDE DEF b, c
      <4>4. t \in Replies
        BY <4>2, <2>5 DEF Replies
      <4>5. /\ t.buffer = b /\ t.data = handed.data /\ t.given = c /\ t.pump = "idle"
            /\ t.consuming /\ ~t.complete /\ (t.ended <=> s.ended) /\ (t.endEmitted <=> s.endEmitted)
            /\ (t.left <=> s.left) /\ (t.closed <=> s.closed) /\ (t.closing <=> s.closing)
            /\ ~t.destroyed /\ t.error = s.error
        BY <2>5, <2>6 DEF Replies
      <4> HIDE DEF t
      <4>6. EndOK(t) /\ AwaitOK(t) /\ GoneOK(t)
        BY <4>3, <4>5, <1>2, <1>9, <1>3 DEF EndOK, AwaitOK, GoneOK
      <4>7. ReplyOK(t)
        BY <4>2, <4>4, <4>5, <4>6 DEF ReplyOK
      <4> QED BY <4>1, <4>5, <4>7
    <3> QED BY <3>1, <3>2
  <2> HIDE DEF pushed
  <2>8. CASE Len(pushed.buffer) < BodyMark
    <3>1. ReplyOK(PumpTurn(pushed))
      BY <2>7, <2>8, TurnKeeps
    <3> QED BY <3>1, <2>1, <2>8, <1>1, Lifted
  <2>9. CASE ~(Len(pushed.buffer) < BodyMark)
    <3> DEFINE t == [pushed EXCEPT !.consuming = FALSE]
    <3>1. incoming' = t
      BY <2>1, <2>9 DEF Stopped
    <3>2. pushed \in Replies
      BY <2>7 DEF ReplyOK
    <3>3. t \in Replies
      BY <3>2 DEF Replies
    <3>4. /\ t.buffer = pushed.buffer /\ t.data = pushed.data /\ t.given = pushed.given /\ t.pump = "idle"
          /\ (t.complete <=> pushed.complete) /\ (t.ended <=> pushed.ended)
          /\ (t.endEmitted <=> pushed.endEmitted) /\ (t.left <=> pushed.left)
          /\ (t.closed <=> pushed.closed) /\ (t.closing <=> pushed.closing)
          /\ (t.destroyed <=> pushed.destroyed) /\ t.error = pushed.error
          /\ (t.discarded <=> pushed.discarded)
      BY <3>2, <2>7 DEF Replies
    <3> HIDE DEF t
    <3>5. EndOK(t) /\ AwaitOK(t) /\ GoneOK(t)
      BY <3>4, <2>7 DEF ReplyOK, EndOK, AwaitOK, GoneOK
    <3>6. ReplyOK(t)
      BY <3>3, <3>4, <3>5, <2>7 DEF ReplyOK
    <3> QED BY <3>1, <3>6, <1>1, Lifted
  <2> QED BY <2>8, <2>9
<1>10. CASE ~s.destroyed /\ ~(s.given < total)
  <2>1. incoming' = IF ending = "error" THEN Gone(idle, "host") ELSE PushedEnd(idle)
    BY <1>10 DEF PieceArrives
  <2>2. ReplyOK(idle) /\ idle.given = total
    BY <1>4, <1>6, <1>8, <1>10, <1>2
  <2> HIDE DEF idle, s
  <2>3. CASE ending = "error"
    <3>1. ReplyOK(Gone(idle, "host"))
      BY <2>2, <1>6, GoneKeeps
    <3> QED BY <3>1, <2>1, <2>3, <1>1, Lifted
  <2>4. CASE ending # "error"
    <3>1. ReplyOK(PushedEnd(idle))
      BY <2>2, <2>4, EndKeeps
    <3> QED BY <3>1, <2>1, <2>4, <1>1, Lifted
  <2> QED BY <2>3, <2>4
<1> QED BY <1>7, <1>9, <1>10

\* The body ends: the end is pushed, or the error destroys the response.
LEMMA ReplyEndsStep == ASSUME ReplyIInv, ReplyEnds PROVE ReplyIInv'
<1> DEFINE s == incoming
           t == [s EXCEPT !.endEmitted = TRUE]
<1>1. s.ended /\ s.buffer = <<>> /\ incoming' = Gone(t, "none") /\ UNCHANGED <<total, ending, leaveAt>>
  BY DEF ReplyEnds, Job
<1>2. ReplyOK(s) /\ s \in Replies
  BY DEF ReplyIInv, ReplyOK
<1>3. s.complete /\ s.pump = "idle"
  BY <1>1, <1>2 DEF ReplyOK, EndOK
<1> HIDE DEF s
<1>4. t \in Replies
  BY <1>2 DEF Replies
<1>5. /\ KeepsBody(s, t) /\ (t.ended <=> s.ended) /\ (t.left <=> s.left)
      /\ (t.closed <=> s.closed) /\ (t.closing <=> s.closing) /\ (t.destroyed <=> s.destroyed)
      /\ t.error = s.error /\ (t.discarded <=> s.discarded)
  BY <1>2 DEF Replies, KeepsBody
<1> HIDE DEF t
<1>6. EndOK(t) /\ AwaitOK(t) /\ GoneOK(t)
  BY <1>1, <1>2, <1>3, <1>5 DEF ReplyOK, EndOK, AwaitOK, GoneOK, KeepsBody
<1>7. ReplyOK(t) /\ t.pump = "idle"
  BY <1>2, <1>3, <1>4, <1>5, <1>6 DEF ReplyOK, KeepsBody
<1>8. ReplyOK(Gone(t, "none"))
  BY <1>7, GoneKeeps
<1> QED BY <1>1, <1>8, Lifted

\* The steps that leave the body alone
LEMMA ReplyAsideStep ==
  ASSUME ReplyIInv, ReplyCloses \/ Flows \/ Holds \/ DestroyReply \/ RequestAborted PROVE ReplyIInv'
<1> DEFINE s == incoming
<1>1. UNCHANGED <<total, ending, leaveAt>>
  BY DEF ReplyCloses, Flows, Holds, DestroyReply, RequestAborted, Job
<1>2. ReplyOK(s) /\ s \in Replies
  BY DEF ReplyIInv, ReplyOK
<1>3. CASE DestroyReply
  <2>1. incoming' = LeftBy(s)
    BY <1>3 DEF DestroyReply
  <2>2. ReplyOK(LeftBy(s))
    BY <1>2, LeftByKeeps
  <2> QED BY <2>1, <2>2, <1>1, Lifted
<1>4. CASE ReplyCloses \/ Flows \/ Holds \/ RequestAborted
  <2>1. PICK t : incoming' = t /\ Aside(s, t)
    <3> DEFINE c == [s EXCEPT !.closing = FALSE, !.closed = TRUE]
               f == [s EXCEPT !.flowing = TRUE, !.asked = TRUE]
               h == [s EXCEPT !.flowing = FALSE]
               a == [s EXCEPT !.reqGone = TRUE, !.destroyed = TRUE]
               g == [s EXCEPT !.reqGone = TRUE]
    <3>1. ReplyCloses => Aside(s, c)
      <4>1. ReplyCloses => s.closing
        BY DEF ReplyCloses
      <4> QED BY <4>1, <1>2, Asides
    <3>2. Aside(s, f)
      BY <1>2, Asides
    <3>3. Aside(s, h)
      BY <1>2, Asides
    <3>4. Aside(s, a)
      BY <1>2, Asides
    <3>5. Aside(s, g)
      BY <1>2, Asides
    <3>6. (ReplyCloses /\ incoming' = c) \/ incoming' \in {f, h, a, g}
      BY <1>4 DEF ReplyCloses, Flows, Holds, RequestAborted
    <3> HIDE DEF c, f, h, a, g
    <3> QED BY <3>1, <3>2, <3>3, <3>4, <3>5, <3>6
  <2>2. ReplyOK(t)
    BY <2>1, <1>2, AsideKeeps
  <2> QED BY <2>1, <2>2, <1>1, Lifted
<1> QED BY <1>3, <1>4

\* Every step of a response keeps the inductive invariant.
LEMMA ReplyStep == ReplyIInv /\ [ReplyNext]_ReplyVars => ReplyIInv'
<1> SUFFICES ASSUME ReplyIInv, [ReplyNext]_ReplyVars PROVE ReplyIInv'
  OBVIOUS
<1>1. CASE UNCHANGED ReplyVars
  <2>1. UNCHANGED <<total, ending, leaveAt>> /\ incoming' = incoming
    BY <1>1 DEF ReplyVars
  <2> QED BY <2>1, Lifted DEF ReplyIInv
<1>2. CASE ReplyNext
  BY <1>2, PieceArrivesStep, AsksMoreStep, ReadStep, ReplyEndsStep, ReplyAsideStep DEF ReplyNext
<1> QED BY <1>1, <1>2

\* A response that comes satisfies the inductive invariant.
LEMMA ReplyStarts == ReplyInit => ReplyIInv
<1> SUFFICES ASSUME ReplyInit PROVE ReplyIInv
  OBVIOUS
<1>1. ServerOK
  BY ResponseAssumption DEF ReplyInit, ServerOK
<1>2. incoming \in Replies
  BY DEF ReplyInit, Replies, ReplyErrors
<1>3. /\ incoming.buffer = <<>> /\ incoming.data = <<>> /\ incoming.given = 0 /\ incoming.pump = "idle"
      /\ incoming.complete = FALSE /\ incoming.ended = FALSE /\ incoming.endEmitted = FALSE
      /\ incoming.error = "none" /\ incoming.closing = FALSE /\ incoming.closed = FALSE
  BY DEF ReplyInit
<1>4. total \in Nat
  BY <1>1, ResponseAssumption DEF ServerOK
<1>5. LineOK(<<>>, <<>>, 0, total)
  BY <1>4 DEF LineOK
<1>6. EndOK(incoming) /\ GoneOK(incoming)
  BY <1>3 DEF EndOK, GoneOK
<1>7. AwaitOK(incoming)
  BY <1>3, ResponseAssumption DEF AwaitOK
<1> QED BY <1>1, <1>2, <1>3, <1>5, <1>6, <1>7 DEF ReplyIInv, ReplyOK

\* The inductive invariant implies what the runs check.
LEMMA ReplyImplied == ReplyIInv => ReplyInv
<1> SUFFICES ASSUME ReplyIInv PROVE ReplyInv
  OBVIOUS
<1> DEFINE s == incoming
<1>1. /\ ServerOK /\ s \in Replies /\ LineOK(s.data, s.buffer, s.given, total)
      /\ EndOK(s) /\ AwaitOK(s) /\ GoneOK(s) /\ total \in Nat /\ total <= BodyPieces /\ BodyPieces \in Nat
  BY ResponseAssumption DEF ReplyIInv, ReplyOK, ServerOK
<1> HIDE DEF s
<1>2. LineOK(s.data, s.buffer, s.given, BodyPieces)
  <2> DEFINE n == s.given
  <2>1. n \in Nat /\ n <= total
    BY <1>1, LineParts
  <2> HIDE DEF n
  <2>2. n \in 0..BodyPieces
    BY <2>1, <1>1
  <2> QED BY <2>2, <1>1 DEF n, LineOK
<1>3. s.data \in Seq(1..BodyPieces) /\ s.buffer \in Seq(1..BodyPieces) /\ s.given \in 0..BodyPieces
  <2>1. s.data \in Seq(1..BodyPieces) /\ s.buffer \in Seq(1..BodyPieces)
    BY <1>1, <1>2, LineInBounds
  <2> QED BY <2>1, <1>2 DEF LineOK
<1>4. ReplyTypeOK
  <2> DEFINE S == Seq(1..BodyPieces)
             G == 0..BodyPieces
  <2>1. s.data \in S /\ s.buffer \in S /\ s.given \in G
    BY <1>3
  <2> HIDE DEF S, G
  <2>2. s \in [asked : BOOLEAN, flowing : BOOLEAN, reading : BOOLEAN,
                     buffer : S, consuming : BOOLEAN, pump : {"idle", "await"},
                     given : G, complete : BOOLEAN, ended : BOOLEAN,
                     endEmitted : BOOLEAN, destroyed : BOOLEAN, left : BOOLEAN,
                     error : {"none", "host", "borrow"}, closing : BOOLEAN, closed : BOOLEAN,
                     discarded : BOOLEAN, reqGone : BOOLEAN, data : S]
    BY <2>1, <1>1 DEF Replies, ReplyErrors
  <2> QED BY <2>2, <1>1 DEF S, G, ReplyTypeOK, ServerOK, s
<1>5. BodyInOrder
  <2> DEFINE d == s.data
             b == s.buffer
             n == s.given
             m == Len(d)
             w == Len(b)
  <2>1. /\ d \in Seq(Nat) /\ b \in Seq(Nat) /\ n = m + w /\ m \in Nat /\ w \in Nat /\ n \in Nat
        /\ (\A k \in 1..m : d[k] = k) /\ \A k \in 1..w : b[k] = m + k
    BY <1>1, LineParts
  <2>2. (d \o b) = [i \in 1..n |-> i]
    <3> HIDE DEF d, b, n
    <3>1. d \o b \in Seq(Nat) /\ Len(d \o b) = m + w
      BY <2>1
    <3>2. /\ \A i \in 1..m : (d \o b)[i] = d[i]
          /\ \A i \in (m + 1)..(m + w) : (d \o b)[i] = b[i - m]
      BY <2>1
    <3>3. ASSUME NEW i \in 1..n PROVE (d \o b)[i] = i
      <4>1. CASE i \in 1..m
        BY <4>1, <3>2, <2>1
      <4>2. CASE i \in (m + 1)..(m + w)
        <5>1. i - m \in 1..w
          BY <4>2, <2>1
        <5> QED BY <5>1, <4>2, <3>2, <2>1
      <4>3. i \in 1..m \/ i \in (m + 1)..(m + w)
        BY <2>1
      <4> QED BY <4>1, <4>2, <4>3
    <3> DEFINE q == d \o b
    <3>4. q \in Seq(Nat) /\ Len(q) = n /\ \A i \in 1..n : q[i] = i
      BY <3>1, <3>3, <2>1
    <3> HIDE DEF q
    <3>5. q = [i \in 1..Len(q) |-> q[i]]
      BY <3>4
    <3>6. [i \in 1..n |-> q[i]] = [i \in 1..n |-> i]
      BY <3>4
    <3>7. q = [i \in 1..n |-> i]
      BY <3>4, <3>5, <3>6
    <3> QED BY <3>7 DEF q
  <2>3. s.endEmitted => Len(s.data) = total /\ ending # "error"
    <3>1. SUFFICES ASSUME s.endEmitted PROVE m = total /\ ending # "error"
      OBVIOUS
    <3>2. n = total /\ ending # "error" /\ b = <<>>
      BY <3>1, <1>1 DEF EndOK
    <3>3. w = 0
      BY <3>2
    <3> HIDE DEF m, n, w
    <3> QED BY <3>2, <3>3, <2>1
  <2> QED BY <2>2, <2>3 DEF BodyInOrder, s
<1>6. OneReadAtATime
  BY <1>1 DEF OneReadAtATime, GoneOK, s
<1>7. PumpStopsAtMark
  BY <1>1 DEF PumpStopsAtMark, AwaitOK, s
<1>8. NoBodyForgotten
  BY <1>1 DEF NoBodyForgotten, GoneOK, s
<1> QED BY <1>4, <1>5, <1>6, <1>7, <1>8 DEF ReplyInv

\* For bodies of any length and however the program pauses, reads or leaves: the chunks of a
\* response are handed out in order, each once, and 'end' comes after all of them; two reads
\* of the native body meet only if it is left, and a body that is not read goes back.
THEOREM RepliesAreSafe == ReplySpec => []ReplyInv
<1>1. ReplyInit => ReplyIInv
  BY ReplyStarts
<1>2. ReplyIInv /\ [ReplyNext]_ReplyVars => ReplyIInv'
  BY ReplyStep
<1>3. ReplyIInv => ReplyInv
  BY ReplyImplied
<1> QED BY <1>1, <1>2, <1>3, PTL DEF ReplySpec

-----------------------------------------------------------------------------
(* The request of node:http's client: the inductive invariant *)

Stages == {"none", "turn", "chain", "flush", "flushed", "finish", "wait", "lookup", "over"}
Natives == {"building", "sending", "failed", "ready", "consumed", "aborted"}
Sent == {"sending", "failed", "ready", "consumed"}
Loops == {"idle", "start", "write"}
Ticks == {"reject", "error", "quiet", "abort"}
Requests ==
    [written : Int, pending : Seq(Int), buffered : Int, needDrain : BOOLEAN, acked : Seq(Int),
     ended : BOOLEAN, late : BOOLEAN, length : Int, destroyed : BOOLEAN, deferred : BOOLEAN,
     started : BOOLEAN, chain : Int, loop : [Flushers -> Loops], chunk : [Flushers -> Int],
     sendAt : Stages, awaits : Int, ticks : Seq(Ticks), events : Seq(Events), body : Seq(Int),
     native : Natives]

\* A chunk that writeStream holds
Writes(s) == s.loop["chain"] = "write" \/ s.loop["send"] = "write"
Held(s) == IF Writes(s) THEN 1 ELSE 0

CountsOK(s) ==
    /\ 0 <= s.written /\ s.written <= RequestChunks /\ 0 <= s.length /\ s.length <= RequestChunks
    /\ 0 <= s.chain /\ s.chain <= s.written /\ 0 <= s.awaits /\ s.awaits <= RequestChunks
    /\ Len(s.pending) + Held(s) <= s.buffered /\ s.buffered <= s.written
    /\ \A f \in Flushers : 0 <= s.chunk[f] /\ s.chunk[f] <= RequestChunks

\* One call of the native request at a time, and none before end()
CallsOK(s) ==
    /\ s.loop["send"] # "idle" => s.sendAt = "flush" /\ s.loop["chain"] = "idle"
    /\ s.loop["chain"] # "idle" => s.chain > 0 /\ s.sendAt \notin {"finish", "wait"}
    /\ ~s.ended => /\ s.loop["chain"] = "idle" /\ ~s.started /\ ~s.late
                   /\ s.sendAt = "none" /\ s.body = <<>>
    /\ s.native \in Sent => s.sendAt \in {"flushed", "wait", "over"}
    /\ s.native = "aborted" => s.destroyed
    /\ special = "rejected" =>
          /\ s.pending = <<>> /\ s.chain = 0 /\ s.sendAt \in {"none", "turn", "over"}
          /\ s.native \notin Sent

\* Chunks are taken in order, each by one of the two flushers.
OrderOK(s) ==
    /\ \A k \in 1..Len(s.pending) : s.pending[k] = s.written - Len(s.pending) + k
    /\ s.acked = s.body
    /\ \A i, j \in 1..Len(s.body) : i < j => s.body[i] < s.body[j]
    /\ \A i \in 1..Len(s.body) : s.body[i] > 0 /\ s.body[i] <= s.written - Len(s.pending)
    /\ \A f \in Flushers : s.loop[f] = "write" =>
          /\ 0 < s.chunk[f] /\ s.chunk[f] <= s.written - Len(s.pending)
          /\ \A i \in 1..Len(s.body) : s.body[i] < s.chunk[f]

\* The body is all that was written
Full(s) == Len(s.body) = s.written /\ \A k \in 1..Len(s.body) : s.body[k] = k

\* Without a write after end(), _doSend waits for the chain of the writes, and nothing is
\* lost of a request that is not destroyed.
CleanOK(s) == ~s.late =>
    /\ s.ended => s.length = s.written
    /\ s.sendAt = "chain" => s.awaits = s.chain
    /\ s.sendAt \notin {"none", "turn", "chain"} => s.chain = 0
    /\ ~s.destroyed /\ special # "rejected" =>
          /\ \A k \in 1..Len(s.body) : s.body[k] = k
          /\ Len(s.body) + Held(s) + Len(s.pending) = s.written
          /\ \A f \in Flushers : s.loop[f] = "write" => s.chunk[f] = Len(s.body) + 1
    /\ ~s.destroyed /\ s.sendAt = "flushed" => s.pending = <<>>
    /\ s.sendAt \in {"finish", "wait"} \/ s.native \in Sent => s.pending = <<>> /\ Full(s)

TicksOK(s) == \A k \in 1..Len(s.ticks) :
    IF s.ticks[k] = "reject" THEN special = "rejected" ELSE s.destroyed

Core(s) == s \in Requests /\ CountsOK(s) /\ CallsOK(s) /\ OrderOK(s) /\ CleanOK(s) /\ TicksOK(s)

HasClosed(ev) == \E i \in 1..Len(ev) : ev[i] = "close"
Outcome(ev, i) == ev[i] = "response" \/ ev[i] = "error"
SilentOK(ev) == \A i, j \in 1..Len(ev) : i < j /\ ev[i] = "close" => ev[j] \notin {"response", "close"}
Plain(s) == special = "plain" /\ ~s.late /\ ~s.destroyed
\* A request of whom the host decides: one outcome, at the end of _doSend
PlainOK(s) ==
    /\ \A i, j \in 1..Len(s.events) : Outcome(s.events, i) /\ Outcome(s.events, j) => i = j
    /\ HasClosed(s.events) => \E i \in 1..Len(s.events) : Outcome(s.events, i)
    /\ (\E i \in 1..Len(s.events) : s.events[i] = "error") => s.native = "failed"
    /\ s.sendAt # "over" => ~HasClosed(s.events) /\ \A i \in 1..Len(s.events) : ~Outcome(s.events, i)
EventsOK(s) ==
    /\ SilentOK(s.events)
    /\ HasClosed(s.events) => s.destroyed \/ s.sendAt = "over"
    /\ Plain(s) => PlainOK(s)

RestOK(s) == s.sendAt = "flushed" => s.native \notin Sent
RequestIInv == special \in Specials /\ reacts \subseteq Events /\ Core(client) /\ EventsOK(client) /\ RestOK(client)

\* What holds between two jobs, and of what a job leaves
Good(s) == Core(s) /\ EventsOK(s) /\ RestOK(s)

-----------------------------------------------------------------------------
(* The fields that a step leaves alone *)

SameBody(s, t) ==
    /\ t.written = s.written /\ t.pending = s.pending /\ t.buffered = s.buffered
    /\ t.acked = s.acked /\ t.body = s.body
SameEnd(s, t) == (t.ended <=> s.ended) /\ (t.late <=> s.late) /\ t.length = s.length
SameCalls(s, t) == t.loop = s.loop /\ t.chunk = s.chunk /\ t.chain = s.chain /\ (t.started <=> s.started)
SameSend(s, t) == t.sendAt = s.sendAt /\ t.awaits = s.awaits
SameFate(s, t) ==
    (t.destroyed <=> s.destroyed) /\ t.ticks = s.ticks /\ t.events = s.events /\ t.native = s.native

\* What destroy() and the listeners may change
Touched(s, t) ==
    /\ t \in Requests /\ SameBody(s, t) /\ SameEnd(s, t) /\ SameCalls(s, t) /\ SameSend(s, t)
    /\ s.destroyed => t.destroyed
    /\ t.native = s.native \/ (t.native = "aborted" /\ t.destroyed)

\* What a request is made of
LEMMA RequestFields ==
  ASSUME NEW s \in Requests
  PROVE  /\ s.written \in Int /\ s.pending \in Seq(Int) /\ s.buffered \in Int /\ s.needDrain \in BOOLEAN
         /\ s.acked \in Seq(Int) /\ s.ended \in BOOLEAN /\ s.late \in BOOLEAN /\ s.length \in Int
         /\ s.destroyed \in BOOLEAN /\ s.deferred \in BOOLEAN /\ s.started \in BOOLEAN
         /\ s.chain \in Int /\ s.loop \in [Flushers -> Loops] /\ s.chunk \in [Flushers -> Int]
         /\ s.sendAt \in Stages /\ s.awaits \in Int /\ s.ticks \in Seq(Ticks)
         /\ s.events \in Seq(Events) /\ s.body \in Seq(Int) /\ s.native \in Natives
BY DEF Requests

\* A step that only queues a tick or destroys the request keeps its counts and its order.
LEMMA TouchedCore ==
  ASSUME NEW s, NEW t, Core(s), Touched(s, t), TicksOK(t)
  PROVE  Core(t)
<1>1. CountsOK(t)
  BY DEF Core, Touched, CountsOK, SameBody, SameEnd, SameCalls, SameSend, Held, Writes
<1>2. CallsOK(t)
  BY DEF Core, Touched, CallsOK, SameBody, SameEnd, SameCalls, SameSend, Sent
<1>3. OrderOK(t)
  BY DEF Core, Touched, OrderOK, SameBody, SameCalls
<1>4. CleanOK(t)
  <2>1. /\ t.written = s.written /\ t.pending = s.pending /\ t.body = s.body /\ t.length = s.length
        /\ t.loop = s.loop /\ t.chunk = s.chunk /\ t.chain = s.chain /\ t.sendAt = s.sendAt
        /\ t.awaits = s.awaits /\ (t.late <=> s.late) /\ (t.ended <=> s.ended)
        /\ (~t.destroyed => ~s.destroyed) /\ (t.native \in Sent => s.native \in Sent)
    BY DEF Touched, SameBody, SameEnd, SameCalls, SameSend, Sent
  <2>2. Held(t) = Held(s) /\ (Full(t) <=> Full(s))
    BY <2>1 DEF Held, Writes, Full
  <2>3. CleanOK(s)
    BY DEF Core
  <2> QED BY <2>1, <2>2, <2>3 DEF CleanOK
<1> QED BY <1>1, <1>2, <1>3, <1>4 DEF Core, Touched

\* Two steps that only queue a tick or destroy the request are one such step.
LEMMA TouchedTwice ==
  ASSUME NEW s, NEW t, NEW u, Touched(s, t), Touched(t, u)
  PROVE  Touched(s, u)
BY DEF Touched, SameBody, SameEnd, SameCalls, SameSend

\* _abortNativeRequest of a request that counts as destroyed
LEMMA AbortKeeps ==
  ASSUME NEW s \in Requests, s.destroyed
  PROVE  Touched(s, AbortNative(s)) /\ AbortNative(s).events = s.events
         /\ AbortNative(s).ticks = s.ticks
<1>1. CASE InCall(s)
  <2> DEFINE t == [s EXCEPT !.deferred = TRUE]
  <2>1. t \in Requests
    BY DEF Requests
  <2>2. SameBody(s, t) /\ SameEnd(s, t) /\ SameCalls(s, t) /\ SameSend(s, t) /\ SameFate(s, t)
    BY DEF Requests, SameBody, SameEnd, SameCalls, SameSend, SameFate
  <2>3. AbortNative(s) = t
    BY <1>1 DEF AbortNative
  <2> HIDE DEF t
  <2> QED BY <2>1, <2>2, <2>3 DEF Touched, SameFate
<1>2. CASE ~InCall(s)
  <2> DEFINE t == [s EXCEPT !.native = "aborted", !.deferred = FALSE]
  <2>1. t \in Requests
    BY DEF Requests, Natives
  <2>2. /\ SameBody(s, t) /\ SameEnd(s, t) /\ SameCalls(s, t) /\ SameSend(s, t)
        /\ (t.destroyed <=> s.destroyed) /\ t.ticks = s.ticks /\ t.events = s.events
        /\ t.native = "aborted"
    BY DEF Requests, SameBody, SameEnd, SameCalls, SameSend
  <2>3. AbortNative(s) = t
    BY <1>2 DEF AbortNative
  <2> HIDE DEF t
  <2> QED BY <2>1, <2>2, <2>3 DEF Touched
<1> QED BY <1>1, <1>2

\* One more tick of a request that is destroyed
LEMMA TickAdded ==
  ASSUME NEW s \in Requests, TicksOK(s), NEW k \in Ticks \ {"reject"}
  PROVE  LET t == [s EXCEPT !.destroyed = TRUE, !.ticks = Append(@, k)]
         IN  Touched(s, t) /\ TicksOK(t) /\ t.destroyed /\ t.events = s.events /\ t.native = s.native
<1> DEFINE q == Append(s.ticks, k)
           t == [s EXCEPT !.destroyed = TRUE, !.ticks = q]
<1>1. s.ticks \in Seq(Ticks) /\ q \in Seq(Ticks) /\ Len(q) = Len(s.ticks) + 1 /\ Len(s.ticks) \in Nat
      /\ q[Len(s.ticks) + 1] = k /\ \A i \in 1..Len(s.ticks) : q[i] = s.ticks[i]
  BY DEF Requests
<1> HIDE DEF q
<1>2. t \in Requests
  BY <1>1 DEF Requests
<1>3. /\ SameBody(s, t) /\ SameEnd(s, t) /\ SameCalls(s, t) /\ SameSend(s, t)
      /\ t.destroyed /\ t.ticks = q /\ t.events = s.events /\ t.native = s.native
  BY DEF Requests, SameBody, SameEnd, SameCalls, SameSend
<1> HIDE DEF t
<1>4. TicksOK(t)
  <2>1. SUFFICES ASSUME NEW i \in 1..Len(q)
                 PROVE  IF q[i] = "reject" THEN special = "rejected" ELSE t.destroyed
    BY <1>3 DEF TicksOK
  <2>2. i \in 1..Len(s.ticks) \/ i = Len(s.ticks) + 1
    BY <1>1
  <2>3. CASE i \in 1..Len(s.ticks)
    <3>1. q[i] = s.ticks[i]
      BY <1>1, <2>3
    <3> QED BY <3>1, <2>3, <1>3 DEF TicksOK
  <2> QED BY <1>1, <1>3, <2>2, <2>3
<1> QED BY <1>2, <1>3, <1>4 DEF Touched, t, q

\* destroy() queues the tick that tells of it and aborts the native request.
LEMMA DestroyKeeps ==
  ASSUME NEW s, Core(s), NEW given \in BOOLEAN
  PROVE  LET t == DestroyedRequest(s, given)
         IN  Touched(s, t) /\ Core(t) /\ t.destroyed /\ t.events = s.events
<1>1. s \in Requests /\ TicksOK(s)
  BY DEF Core
<1>2. CASE s.destroyed
  BY <1>2, <1>1 DEF DestroyedRequest, Touched, SameBody, SameEnd, SameCalls, SameSend
<1>3. CASE ~s.destroyed
  <2> DEFINE k == IF given \/ ~(Happened(s, "response") \/ special = "rejected") THEN "error" ELSE "quiet"
             d == [s EXCEPT !.destroyed = TRUE, !.ticks = Append(@, k)]
  <2>1. k \in Ticks \ {"reject"}
    BY DEF Ticks
  <2>2. DestroyedRequest(s, given) = AbortNative(d)
    BY <1>3 DEF DestroyedRequest
  <2> HIDE DEF k
  <2>3. Touched(s, d) /\ TicksOK(d) /\ d.destroyed /\ d.events = s.events
    BY <1>1, <2>1, TickAdded
  <2> HIDE DEF d
  <2>4. d \in Requests
    BY <2>3 DEF Touched
  <2>5. Touched(d, AbortNative(d)) /\ AbortNative(d).events = d.events /\ AbortNative(d).ticks = d.ticks
    BY <2>3, <2>4, AbortKeeps
  <2> DEFINE a == AbortNative(d)
  <2>6. Touched(s, a)
    BY <2>3, <2>5, TouchedTwice
  <2>7. TicksOK(a) /\ a.destroyed /\ a.events = s.events
    BY <2>3, <2>5 DEF TicksOK, Touched
  <2>8. Core(a)
    BY <2>6, <2>7, TouchedCore
  <2> HIDE DEF a
  <2> QED BY <2>2, <2>6, <2>7, <2>8 DEF a
<1> QED BY <1>2, <1>3

\* A listener that destroys the request inside an event leaves its body alone.
LEMMA EmitKeeps ==
  ASSUME NEW s, Core(s), NEW e \in Events
  PROVE  LET t == Emitted(s, e)
         IN  /\ Touched(s, t) /\ Core(t) /\ t.events = Append(s.events, e)
             /\ ~t.destroyed => ~s.destroyed /\ t.native = s.native
<1> DEFINE ev == Append(s.events, e)
           after == [s EXCEPT !.events = ev]
<1>1. s \in Requests /\ TicksOK(s) /\ ev \in Seq(Events)
  BY DEF Core, Requests
<1> HIDE DEF ev
<1>2. after \in Requests
  BY <1>1 DEF Requests
<1>3. /\ SameBody(s, after) /\ SameEnd(s, after) /\ SameCalls(s, after) /\ SameSend(s, after)
      /\ (after.destroyed <=> s.destroyed) /\ after.ticks = s.ticks /\ after.events = ev
      /\ after.native = s.native
  BY <1>1 DEF Requests, SameBody, SameEnd, SameCalls, SameSend
<1>4. Emitted(s, e) = IF e \in reacts THEN DestroyedRequest(after, FALSE) ELSE after
  BY DEF Emitted, ev
<1> HIDE DEF after
<1>5. Touched(s, after) /\ TicksOK(after)
  <2>1. TicksOK(after)
    BY <1>1, <1>3 DEF TicksOK
  <2> QED BY <2>1, <1>2, <1>3 DEF Touched
<1>6. Core(after)
  BY <1>5, TouchedCore
<1>7. CASE e \in reacts
  <2> DEFINE t == DestroyedRequest(after, FALSE)
  <2>1. Touched(after, t) /\ Core(t) /\ t.destroyed /\ t.events = after.events
    BY <1>6, DestroyKeeps
  <2> HIDE DEF t
  <2>2. Touched(s, t)
    BY <1>5, <2>1, TouchedTwice
  <2> QED BY <1>3, <1>4, <1>7, <2>1, <2>2 DEF ev, t
<1>8. CASE e \notin reacts
  BY <1>3, <1>4, <1>5, <1>6, <1>8 DEF ev
<1> QED BY <1>7, <1>8

-----------------------------------------------------------------------------
(* The events *)

\* An event that is told: silent after 'close', and one outcome at most.
LEMMA EventAdded ==
  ASSUME NEW ev \in Seq(Events), NEW e \in Events, SilentOK(ev),
         e \in {"response", "close"} => ~HasClosed(ev)
  PROVE  LET a == Append(ev, e)
         IN  /\ SilentOK(a) /\ (HasClosed(a) <=> HasClosed(ev) \/ e = "close")
             /\ \A i \in 1..Len(a) : Outcome(a, i) =>
                   (i \in 1..Len(ev) /\ Outcome(ev, i)) \/ (i = Len(ev) + 1 /\ e \in {"response", "error"})
             /\ \A i \in 1..Len(ev) : i \in 1..Len(a) /\ a[i] = ev[i]
             /\ Len(ev) + 1 \in 1..Len(a) /\ a[Len(ev) + 1] = e
             /\ \A i \in 1..Len(a) : i \in 1..Len(ev) \/ i = Len(ev) + 1
<1> DEFINE a == Append(ev, e)
           n == Len(ev)
<1>1. n \in Nat /\ Len(a) = n + 1 /\ a[n + 1] = e /\ \A i \in 1..n : a[i] = ev[i]
  OBVIOUS
<1> HIDE DEF a, n
<1>2. /\ \A i \in 1..n : i \in 1..Len(a) /\ a[i] = ev[i]
      /\ n + 1 \in 1..Len(a) /\ \A i \in 1..Len(a) : i \in 1..n \/ i = n + 1
  BY <1>1
<1>3. SilentOK(a)
  <2>1. SUFFICES ASSUME NEW i \in 1..Len(a), NEW j \in 1..Len(a), i < j, a[i] = "close"
                 PROVE  a[j] \notin {"response", "close"}
    BY DEF SilentOK
  <2>2. i \in 1..n
    BY <2>1, <1>1
  <2>3. ev[i] = "close" /\ HasClosed(ev)
    BY <2>1, <2>2, <1>1 DEF HasClosed, n
  <2>4. CASE j \in 1..n
    BY <2>1, <2>2, <2>3, <2>4, <1>1 DEF SilentOK, n
  <2> QED BY <2>3, <2>4, <1>1, <1>2
<1>4. HasClosed(a) <=> HasClosed(ev) \/ e = "close"
  BY <1>1, <1>2 DEF HasClosed, n
<1>5. \A i \in 1..Len(a) : Outcome(a, i) =>
          (i \in 1..n /\ Outcome(ev, i)) \/ (i = n + 1 /\ e \in {"response", "error"})
  BY <1>1, <1>2 DEF Outcome
<1> QED BY <1>1, <1>2, <1>3, <1>4, <1>5 DEF a, n

\* What is still to be told is kept by a step that only queues a tick.
LEMMA RestKept == ASSUME NEW s, NEW t, RestOK(s), Touched(s, t) PROVE RestOK(t)
BY DEF RestOK, Touched, SameSend, Sent

\* What a step that says nothing leaves of the promises about the events
LEMMA QuietKeeps ==
  ASSUME NEW s, NEW t, EventsOK(s), Touched(s, t), t.events = s.events
  PROVE  EventsOK(t)
<1>1. Plain(t) => Plain(s) /\ t.native = s.native
  BY DEF Plain, Touched, SameEnd
<1>2. t.sendAt = s.sendAt /\ (s.destroyed => t.destroyed)
  BY DEF Touched, SameSend
<1> QED BY <1>1, <1>2 DEF EventsOK, PlainOK

\* An event that settles nothing
LEMMA AsideSaid ==
  ASSUME NEW s, Core(s), EventsOK(s), NEW e \in Events \ {"response", "error", "close"}
  PROVE  EventsOK(Emitted(s, e))
<1> DEFINE t == Emitted(s, e)
           a == Append(s.events, e)
<1>1. /\ Touched(s, t) /\ Core(t) /\ t.events = a /\ (~t.destroyed => ~s.destroyed /\ t.native = s.native)
  BY EmitKeeps
<1>2. s.events \in Seq(Events) /\ SilentOK(s.events)
  BY DEF Core, Requests, EventsOK
<1>3. /\ SilentOK(a) /\ (HasClosed(a) <=> HasClosed(s.events))
      /\ \A i \in 1..Len(a) : Outcome(a, i) => i \in 1..Len(s.events) /\ Outcome(s.events, i)
      /\ \A i \in 1..Len(s.events) : i \in 1..Len(a) /\ a[i] = s.events[i]
      /\ \A i \in 1..Len(a) : a[i] = "error" => i \in 1..Len(s.events) /\ s.events[i] = "error"
  BY <1>2, EventAdded
<1> HIDE DEF t, a
<1>4. t.sendAt = s.sendAt /\ (s.destroyed => t.destroyed) /\ (Plain(t) => Plain(s) /\ t.native = s.native)
  BY <1>1 DEF Touched, SameSend, SameEnd, Plain
<1>5. Plain(t) => PlainOK(t)
  <2>1. SUFFICES ASSUME PlainOK(s), t.native = s.native PROVE PlainOK(t)
    BY <1>4 DEF EventsOK
  <2>2. \A i, j \in 1..Len(a) : Outcome(a, i) /\ Outcome(a, j) => i = j
    BY <2>1, <1>3 DEF PlainOK
  <2>3. HasClosed(a) => \E i \in 1..Len(a) : Outcome(a, i)
    BY <2>1, <1>3 DEF PlainOK, Outcome
  <2>4. (\E i \in 1..Len(a) : a[i] = "error") => t.native = "failed"
    BY <2>1, <1>3 DEF PlainOK
  <2>5. t.sendAt # "over" => ~HasClosed(a) /\ \A i \in 1..Len(a) : ~Outcome(a, i)
    BY <2>1, <1>3, <1>4 DEF PlainOK
  <2> QED BY <2>2, <2>3, <2>4, <2>5, <1>1 DEF PlainOK
<1>6. EventsOK(t)
  BY <1>1, <1>3, <1>4, <1>5 DEF EventsOK
<1> QED BY <1>6 DEF t

\* An event that is no outcome
LEMMA AsideEvents ==
  ASSUME NEW s, Core(s), EventsOK(s), RestOK(s), NEW e \in Events \ {"response", "error", "close"}
  PROVE  Good(Emitted(s, e))
<1>1. Touched(s, Emitted(s, e)) /\ Core(Emitted(s, e))
  BY EmitKeeps
<1>2. RestOK(Emitted(s, e))
  BY <1>1, RestKept
<1> QED BY <1>1, <1>2, AsideSaid DEF Good

\* A request whose outcome is there, at the end of _doSend
OutcomeTold(s) ==
    /\ \A i, j \in 1..Len(s.events) : Outcome(s.events, i) /\ Outcome(s.events, j) => i = j
    /\ \E i \in 1..Len(s.events) : Outcome(s.events, i)
    /\ (\E i \in 1..Len(s.events) : s.events[i] = "error") => s.native = "failed"
    /\ s.sendAt = "over"

\* 'close' comes once, after the outcome.
LEMMA ClosesRight ==
  ASSUME NEW s, Core(s), SilentOK(s.events), RestOK(s), s.destroyed \/ s.sendAt = "over",
         Plain(s) => OutcomeTold(s)
  PROVE  Good(CloseOnce(s)) /\ Touched(s, CloseOnce(s)) /\ HasClosed(CloseOnce(s).events)
<1>1. Happened(s, "close") <=> HasClosed(s.events)
  BY DEF Happened, Contains, HasClosed
<1>2. CASE HasClosed(s.events)
  <2>1. CloseOnce(s) = s
    BY <1>1, <1>2 DEF CloseOnce
  <2>2. EventsOK(s)
    BY <1>2 DEF EventsOK, PlainOK, OutcomeTold
  <2>3. Touched(s, s)
    BY DEF Touched, Core, SameBody, SameEnd, SameCalls, SameSend
  <2> QED BY <2>1, <2>2, <2>3, <1>2 DEF Good
<1>3. CASE ~HasClosed(s.events)
  <2> DEFINE t == Emitted(s, "close")
             a == Append(s.events, "close")
  <2>1. CloseOnce(s) = t
    BY <1>1, <1>3 DEF CloseOnce
  <2>2. "close" \in Events
    BY DEF Events
  <2>3. Touched(s, t) /\ Core(t) /\ t.events = a /\ (~t.destroyed => ~s.destroyed /\ t.native = s.native)
    BY <2>2, EmitKeeps
  <2>4. s.events \in Seq(Events)
    BY DEF Core, Requests
  <2>5. /\ SilentOK(a) /\ HasClosed(a)
        /\ \A i \in 1..Len(a) : Outcome(a, i) => i \in 1..Len(s.events) /\ Outcome(s.events, i)
        /\ \A i \in 1..Len(s.events) : i \in 1..Len(a) /\ a[i] = s.events[i]
        /\ \A i \in 1..Len(a) : a[i] = "error" => i \in 1..Len(s.events) /\ s.events[i] = "error"
    BY <2>2, <2>4, <1>3, EventAdded
  <2> HIDE DEF t, a
  <2>6. t.sendAt = s.sendAt /\ (s.destroyed => t.destroyed) /\ (Plain(t) => Plain(s) /\ t.native = s.native)
    BY <2>3 DEF Touched, SameSend, SameEnd, Plain
  <2>7. Plain(t) => PlainOK(t)
    <3>1. SUFFICES ASSUME OutcomeTold(s), t.native = s.native PROVE PlainOK(t)
      BY <2>6
    <3>2. \A i, j \in 1..Len(a) : Outcome(a, i) /\ Outcome(a, j) => i = j
      BY <3>1, <2>5 DEF OutcomeTold
    <3>3. \E i \in 1..Len(a) : Outcome(a, i)
      BY <3>1, <2>5 DEF OutcomeTold, Outcome
    <3>4. (\E i \in 1..Len(a) : a[i] = "error") => t.native = "failed"
      BY <3>1, <2>5 DEF OutcomeTold
    <3> QED BY <3>1, <3>2, <3>3, <3>4, <2>3, <2>6 DEF PlainOK, OutcomeTold
  <2>8. EventsOK(t)
    BY <2>3, <2>5, <2>6, <2>7 DEF EventsOK
  <2>9. RestOK(t)
    BY <2>3, RestKept
  <2> QED BY <2>1, <2>3, <2>5, <2>8, <2>9 DEF Good
<1> QED BY <1>2, <1>3

\* The end of _doSend
LEMMA OverKeeps ==
  ASSUME NEW s, Core(s), s.loop["send"] = "idle", s.ended, ~s.late => s.chain = 0
  PROVE  LET t == SendOver(s)
         IN  /\ Core(t) /\ SameBody(s, t) /\ SameEnd(s, t) /\ SameCalls(s, t) /\ SameFate(s, t)
             /\ t.sendAt = "over"
<1> DEFINE t == [s EXCEPT !.sendAt = "over"]
<1>1. s \in Requests
  BY DEF Core
<1>2. t \in Requests
  BY <1>1 DEF Requests, Stages
<1>3. /\ SameBody(s, t) /\ SameEnd(s, t) /\ SameCalls(s, t) /\ SameFate(s, t)
      /\ t.sendAt = "over" /\ t.awaits = s.awaits
  BY <1>1 DEF Requests, SameBody, SameEnd, SameCalls, SameFate
<1>4. SendOver(s) = t
  BY DEF SendOver
<1> HIDE DEF t
<1>5. CountsOK(t)
  BY <1>3 DEF Core, CountsOK, SameBody, SameEnd, SameCalls, Held, Writes
<1>6. CallsOK(t)
  BY <1>3 DEF Core, CallsOK, SameBody, SameEnd, SameCalls, SameFate
<1>7. OrderOK(t)
  BY <1>3 DEF Core, OrderOK, SameBody, SameCalls
<1>8. CleanOK(t)
  <2>1. /\ t.written = s.written /\ t.pending = s.pending /\ t.body = s.body /\ t.length = s.length
        /\ t.loop = s.loop /\ t.chunk = s.chunk /\ t.chain = s.chain /\ t.sendAt = "over"
        /\ t.awaits = s.awaits /\ (t.late <=> s.late) /\ (t.ended <=> s.ended)
        /\ (t.destroyed <=> s.destroyed) /\ t.native = s.native
    BY <1>3 DEF SameBody, SameEnd, SameCalls, SameFate
  <2>2. Held(t) = Held(s) /\ (Full(t) <=> Full(s))
    BY <2>1 DEF Held, Writes, Full
  <2>3. CleanOK(s)
    BY DEF Core
  <2> QED BY <2>1, <2>2, <2>3 DEF CleanOK
<1>9. TicksOK(t)
  BY <1>3 DEF Core, TicksOK, SameFate
<1> QED BY <1>2, <1>3, <1>4, <1>5, <1>6, <1>7, <1>8, <1>9 DEF Core

\* A send that fails destroys the request, which is told of it.
LEMMA SendFailsKeeps ==
  ASSUME NEW s, Core(s), SilentOK(s.events), HasClosed(s.events) => s.destroyed,
         s.loop["send"] = "idle", s.ended, ~s.late => s.chain = 0,
         Plain(s) => s.native = "failed" /\ \A i \in 1..Len(s.events) : ~Outcome(s.events, i)
  PROVE  Good(SendFails(s))
<1>1. CASE s.destroyed
  <2> DEFINE t == SendOver(s)
  <2>1. /\ Core(t) /\ SameFate(s, t) /\ t.sendAt = "over"
    BY OverKeeps
  <2>2. SendFails(s) = t
    BY <1>1 DEF SendFails
  <2> HIDE DEF t
  <2> QED BY <2>1, <2>2, <1>1 DEF Good, EventsOK, RestOK, SameFate, Plain
<1>2. CASE ~s.destroyed
  <2> DEFINE a == Emitted(s, "error")
             t == SendOver(a)
             ev == Append(s.events, "error")
  <2>1. "error" \in Events /\ s.events \in Seq(Events)
    BY DEF Events, Core, Requests
  <2>2. Touched(s, a) /\ Core(a) /\ a.events = ev /\ (~a.destroyed => a.native = s.native)
    BY <2>1, EmitKeeps
  <2>3. /\ SilentOK(ev) /\ ~HasClosed(ev)
        /\ \A i \in 1..Len(ev) : Outcome(ev, i) =>
              (i \in 1..Len(s.events) /\ Outcome(s.events, i)) \/ i = Len(s.events) + 1
        /\ Len(s.events) + 1 \in 1..Len(ev) /\ ev[Len(s.events) + 1] = "error"
    BY <2>1, <1>2, EventAdded
  <2>4. a.loop["send"] = "idle" /\ a.ended /\ (~a.late => a.chain = 0)
    BY <2>2 DEF Touched, SameCalls, SameEnd
  <2>5. SendFails(s) = CloseOnce(t)
    BY <1>2 DEF SendFails
  <2> HIDE DEF a, ev
  <2>6. /\ Core(t) /\ SameEnd(a, t) /\ SameFate(a, t) /\ t.sendAt = "over"
    BY <2>2, <2>4, OverKeeps
  <2> HIDE DEF t
  <2>7. Plain(t) => OutcomeTold(t)
    <3>1. SUFFICES ASSUME Plain(t) PROVE OutcomeTold(t)
      OBVIOUS
    <3>2. Plain(s) /\ t.native = s.native /\ t.events = ev
      BY <3>1, <2>2, <2>6, <1>2 DEF Plain, SameEnd, SameFate, Touched
    <3>3. \A i, j \in 1..Len(ev) : Outcome(ev, i) /\ Outcome(ev, j) => i = j
      BY <3>2, <2>3
    <3>4. \E i \in 1..Len(ev) : Outcome(ev, i)
      BY <2>3 DEF Outcome
    <3> QED BY <3>2, <3>3, <3>4, <2>6 DEF OutcomeTold
  <2>8. SilentOK(t.events) /\ RestOK(t)
    BY <2>2, <2>3, <2>6 DEF SameFate, RestOK
  <2> QED BY <2>5, <2>6, <2>7, <2>8, ClosesRight
<1> QED BY <1>1, <1>2

-----------------------------------------------------------------------------
(* _flushLoop *)

\* A flusher whose call is settled
Idle(s, f) == [s EXCEPT !.loop[f] = "idle", !.chunk[f] = 0]

\* A flusher that stops leaves the rest in order.
LEMMA IdleKeeps ==
  ASSUME NEW s, Core(s), NEW f \in Flushers, s.loop[f] = "write" => s.late \/ s.destroyed
  PROVE  LET t == Idle(s, f)
         IN  /\ Core(t) /\ SameBody(s, t) /\ SameEnd(s, t) /\ SameSend(s, t) /\ SameFate(s, t)
             /\ t.chain = s.chain /\ (t.started <=> s.started) /\ t.loop[f] = "idle"
             /\ \A g \in Flushers \ {f} : t.loop[g] = s.loop[g]
<1> DEFINE l == [s.loop EXCEPT ![f] = "idle"]
           c == [s.chunk EXCEPT ![f] = 0]
           t == [s EXCEPT !.loop = l, !.chunk = c]
<1>1. s \in Requests /\ CountsOK(s) /\ CallsOK(s) /\ OrderOK(s) /\ CleanOK(s) /\ TicksOK(s)
  BY DEF Core
<1>2. /\ l \in [Flushers -> Loops] /\ c \in [Flushers -> Int] /\ l[f] = "idle"
      /\ \A g \in Flushers \ {f} : l[g] = s.loop[g] /\ c[g] = s.chunk[g]
  BY <1>1 DEF Requests, Loops
<1>3. Idle(s, f) = t
  BY DEF Idle
<1> HIDE DEF l, c
<1>4. t \in Requests
  BY <1>1, <1>2 DEF Requests
<1>5. /\ SameBody(s, t) /\ SameEnd(s, t) /\ SameSend(s, t) /\ SameFate(s, t)
      /\ t.chain = s.chain /\ (t.started <=> s.started) /\ t.loop = l /\ t.chunk = c
  BY <1>1 DEF Requests, SameBody, SameEnd, SameSend, SameFate
<1> HIDE DEF t
<1>6. "chain" \in Flushers /\ "send" \in Flushers /\ \A g \in Flushers : g = "chain" \/ g = "send"
  BY DEF Flushers
<1>7. Writes(t) => Writes(s)
  BY <1>2, <1>5, <1>6 DEF Writes
<1>8. Held(t) <= Held(s) /\ (~s.late /\ ~s.destroyed => Held(t) = Held(s))
  <2>1. s.loop[f] # "write" => (Writes(s) <=> Writes(t))
    BY <1>2, <1>5, <1>6 DEF Writes
  <2> QED BY <2>1, <1>7 DEF Held
<1>9. CountsOK(t)
  <2> DEFINE p == Len(s.pending)
             h == Held(s)
             k == Held(t)
  <2>1. p \in Nat /\ h \in Nat /\ k \in Nat /\ k <= h /\ p + h <= s.buffered /\ s.buffered \in Int
    BY <1>1, <1>8 DEF CountsOK, Requests, Held
  <2> HIDE DEF p, h, k
  <2>2. p + k <= s.buffered
    BY <2>1
  <2>3. \A g \in Flushers : 0 <= t.chunk[g] /\ t.chunk[g] <= RequestChunks
    <3>1. t.chunk = c /\ c[f] = 0 /\ 0 <= RequestChunks
      BY <1>1, <1>5, RequestAssumption DEF Requests, c
    <3> QED BY <3>1, <1>1, <1>2 DEF CountsOK
  <2> QED BY <2>2, <2>3, <1>1, <1>5 DEF CountsOK, SameBody, SameEnd, SameSend, p, k
<1>10. CallsOK(t)
  BY <1>1, <1>2, <1>5, <1>6 DEF CallsOK, SameBody, SameEnd, SameSend, SameFate
<1>11. OrderOK(t)
  <2>1. \A g \in Flushers : t.loop[g] = "write" => s.loop[g] = "write" /\ t.chunk[g] = s.chunk[g]
    BY <1>2, <1>5
  <2> QED BY <2>1, <1>1, <1>5 DEF OrderOK, SameBody
<1>12. CleanOK(t)
  <2>1. /\ t.written = s.written /\ t.pending = s.pending /\ t.body = s.body /\ t.length = s.length
        /\ t.chain = s.chain /\ t.sendAt = s.sendAt
        /\ t.awaits = s.awaits /\ (t.late <=> s.late) /\ (t.ended <=> s.ended)
        /\ (t.destroyed <=> s.destroyed) /\ t.native = s.native
    BY <1>5 DEF SameBody, SameEnd, SameSend, SameFate
  <2>2. Full(t) <=> Full(s)
    BY <2>1 DEF Full
  <2>3. \A g \in Flushers : t.loop[g] = "write" => s.loop[g] = "write" /\ t.chunk[g] = s.chunk[g]
    BY <1>2, <1>5
  <2> QED BY <2>1, <2>2, <2>3, <1>1, <1>8 DEF CleanOK
<1>13. TicksOK(t)
  BY <1>1, <1>5 DEF TicksOK, SameFate
<1> QED BY <1>2, <1>3, <1>4, <1>5, <1>9, <1>10, <1>11, <1>12, <1>13 DEF Core

\* A job of a flusher, between two of its calls
Between(s, f) ==
    /\ Core(s) /\ s.loop[f] = "idle" /\ (f = "chain" => s.chain > 0)
    /\ f = "send" => s.sendAt = "flush"

\* Idle once more
LEMMA IdleBetween ==
  ASSUME NEW s, NEW f \in Flushers, Between(s, f)
  PROVE  Between(Idle(s, f), f) /\ SameFate(s, Idle(s, f)) /\ SameBody(s, Idle(s, f))
         /\ SameEnd(s, Idle(s, f)) /\ SameSend(s, Idle(s, f))
BY IdleKeeps DEF Between, SameSend

\* A flusher that returns lets the chain or the send go on.
LEMMA ReturnsKeeps ==
  ASSUME NEW s, NEW f \in Flushers, Between(s, f), EventsOK(s), RestOK(s),
         f = "send" => s.late \/ s.destroyed \/ s.pending = <<>>
  PROVE  Good(LoopReturns(s, f))
<1> DEFINE u == Idle(s, f)
<1>1. Between(u, f) /\ SameFate(s, u) /\ SameBody(s, u) /\ SameEnd(s, u) /\ SameSend(s, u)
  BY IdleBetween
<1>2. LoopReturns(s, f) = IF f = "send" THEN [u EXCEPT !.sendAt = "flushed"]
                          ELSE [u EXCEPT !.chain = @ - 1, !.awaits = IF @ = 0 THEN 0 ELSE @ - 1]
  BY DEF LoopReturns, Idle
<1> HIDE DEF u
<1>3. u \in Requests /\ CountsOK(u) /\ CallsOK(u) /\ OrderOK(u) /\ CleanOK(u) /\ TicksOK(u)
      /\ u.loop[f] = "idle"
  BY <1>1 DEF Between, Core
<1>4. CASE f = "send"
  <2> DEFINE t == [u EXCEPT !.sendAt = "flushed"]
  <2>1. t \in Requests
    BY <1>3 DEF Requests, Stages
  <2>2. SameBody(u, t) /\ SameEnd(u, t) /\ SameCalls(u, t) /\ SameFate(u, t) /\ t.sendAt = "flushed"
        /\ t.awaits = u.awaits
    BY <1>3 DEF Requests, SameBody, SameEnd, SameCalls, SameFate
  <2>3. LoopReturns(s, f) = t
    BY <1>2, <1>4
  <2>4. u.sendAt = "flush" /\ u.native \notin Sent /\ s.sendAt = "flush"
    BY <1>1, <1>3, <1>4 DEF Between, CallsOK, SameSend
  <2> HIDE DEF t
  <2>5. CountsOK(t)
    BY <1>3, <2>2 DEF CountsOK, SameBody, SameEnd, SameCalls, Held, Writes
  <2>6. CallsOK(t)
    BY <1>3, <1>4, <2>2, <2>4 DEF CallsOK, SameBody, SameEnd, SameCalls, SameFate
  <2>7. OrderOK(t)
    BY <1>3, <2>2 DEF OrderOK, SameBody, SameCalls
  <2>8. CleanOK(t)
    <3>1. /\ t.written = u.written /\ t.pending = u.pending /\ t.body = u.body /\ t.length = u.length
          /\ t.loop = u.loop /\ t.chunk = u.chunk /\ t.chain = u.chain /\ t.sendAt = "flushed"
          /\ t.awaits = u.awaits /\ (t.late <=> u.late) /\ (t.ended <=> u.ended)
          /\ (t.destroyed <=> u.destroyed) /\ t.native = u.native
      BY <2>2 DEF SameBody, SameEnd, SameCalls, SameFate
    <3>2. Held(t) = Held(u) /\ (Full(t) <=> Full(u))
      BY <3>1 DEF Held, Writes, Full
    <3>3. u.late \/ u.destroyed \/ u.pending = <<>>
      BY <1>1, <1>4 DEF SameBody, SameFate, SameEnd
    <3> QED BY <3>1, <3>2, <3>3, <2>4, <1>3 DEF CleanOK
  <2>9. TicksOK(t)
    BY <1>3, <2>2 DEF TicksOK, SameFate
  <2>10. EventsOK(t) /\ RestOK(t)
    <3>1. /\ t.events = s.events /\ (t.destroyed <=> s.destroyed) /\ (t.late <=> s.late)
          /\ t.native = s.native /\ t.native \notin Sent
      BY <1>1, <2>2, <2>4 DEF SameFate, SameEnd
    <3>2. Plain(t) => PlainOK(t)
      BY <3>1, <2>2, <2>4 DEF EventsOK, Plain, PlainOK
    <3> QED BY <3>1, <3>2, <2>2, <2>4 DEF EventsOK, RestOK
  <2> QED BY <2>1, <2>3, <2>5, <2>6, <2>7, <2>8, <2>9, <2>10 DEF Good, Core
<1>5. CASE f = "chain"
  <2> DEFINE n == IF u.awaits = 0 THEN 0 ELSE u.awaits - 1
             m == u.chain - 1
             t == [u EXCEPT !.chain = m, !.awaits = n]
  <2>1. u.chain > 0 /\ u.chain \in Int /\ u.awaits \in Int /\ 0 <= u.awaits
    BY <1>1, <1>3, <1>5 DEF Between, Requests, CountsOK
  <2>2. m \in Int /\ n \in Int /\ 0 <= m /\ m < u.chain /\ 0 <= n /\ n <= u.awaits
        /\ (u.awaits = u.chain => n = m)
    BY <2>1
  <2>3. LoopReturns(s, f) = t
    BY <1>2, <1>5
  <2> HIDE DEF n, m
  <2>4. t \in Requests
    BY <1>3, <2>2 DEF Requests
  <2>5. SameBody(u, t) /\ SameEnd(u, t) /\ SameFate(u, t) /\ t.sendAt = u.sendAt /\ t.awaits = n
        /\ t.chain = m /\ t.loop = u.loop /\ t.chunk = u.chunk /\ (t.started <=> u.started)
    BY <1>3 DEF Requests, SameBody, SameEnd, SameFate
  <2> HIDE DEF t
  <2>6. CountsOK(t)
    <3>1. Held(t) = Held(u)
      BY <2>5 DEF Held, Writes
    <3>2. m <= u.written /\ n <= RequestChunks
      BY <1>3, <2>1, <2>2, RequestAssumption DEF CountsOK, Requests
    <3> QED BY <3>1, <3>2, <1>3, <2>2, <2>5 DEF CountsOK, SameBody, SameEnd
  <2>7. CallsOK(t)
    <3>1. u.loop["chain"] = "idle" /\ t.loop = u.loop
      BY <1>3, <1>5, <2>5
    <3>2. special # "rejected"
      BY <1>3, <2>1 DEF CallsOK
    <3> QED BY <3>1, <3>2, <1>3, <2>5 DEF CallsOK, SameBody, SameEnd, SameFate
  <2>8. OrderOK(t)
    BY <1>3, <2>5 DEF OrderOK, SameBody
  <2>9. CleanOK(t)
    <3>1. /\ t.written = u.written /\ t.pending = u.pending /\ t.body = u.body /\ t.length = u.length
          /\ t.loop = u.loop /\ t.chunk = u.chunk /\ t.sendAt = u.sendAt
          /\ (t.late <=> u.late) /\ (t.ended <=> u.ended)
          /\ (t.destroyed <=> u.destroyed) /\ t.native = u.native
      BY <2>5 DEF SameBody, SameEnd, SameFate
    <3>2. Held(t) = Held(u) /\ (Full(t) <=> Full(u))
      BY <3>1 DEF Held, Writes, Full
    <3>3. ~u.late => u.sendAt \in {"none", "turn", "chain"}
      BY <1>3, <2>1 DEF CleanOK
    <3> QED BY <3>1, <3>2, <3>3, <2>2, <2>5, <1>3 DEF CleanOK
  <2>10. TicksOK(t)
    BY <1>3, <2>5 DEF TicksOK, SameFate
  <2>11. EventsOK(t) /\ RestOK(t)
    <3>1. /\ t.events = s.events /\ (t.destroyed <=> s.destroyed) /\ (t.late <=> s.late)
          /\ t.native = s.native /\ t.sendAt = s.sendAt
      BY <1>1, <2>5 DEF SameFate, SameEnd, SameSend
    <3>2. Plain(t) => PlainOK(t)
      BY <3>1 DEF EventsOK, Plain, PlainOK
    <3> QED BY <3>1, <3>2 DEF EventsOK, RestOK
  <2> QED BY <2>3, <2>4, <2>6, <2>7, <2>8, <2>9, <2>10, <2>11 DEF Good, Core
<1> QED BY <1>4, <1>5 DEF Flushers

\* The rejection of a flusher's call: a request of whom the host decides has none.
LEMMA FailsKeeps ==
  ASSUME NEW s, NEW f \in Flushers, Core(s), EventsOK(s), RestOK(s), ~Plain(s),
         s.loop[f] = "write" => s.late \/ s.destroyed,
         f = "chain" => s.chain > 0, f = "send" => s.sendAt = "flush"
  PROVE  Good(LoopFails(s, f))
<1> DEFINE u == Idle(s, f)
<1>1. /\ Core(u) /\ SameBody(s, u) /\ SameEnd(s, u) /\ SameSend(s, u) /\ SameFate(s, u)
      /\ u.chain = s.chain /\ u.loop[f] = "idle"
  BY IdleKeeps
<1>2. LoopFails(s, f) = IF f = "send" THEN SendFails(u)
                        ELSE LoopReturns(IF s.destroyed THEN u ELSE Emitted(u, "error"), f)
  BY DEF LoopFails, Idle
<1> HIDE DEF u
<1>3. ~Plain(u) /\ EventsOK(u) /\ RestOK(u)
  BY <1>1 DEF SameEnd, SameFate, SameSend, EventsOK, RestOK, Plain
<1>4. CASE f = "send"
  <2>1. u.sendAt = "flush"
    BY <1>1, <1>4 DEF SameSend
  <2>2. u.ended /\ (~u.late => u.chain = 0)
    BY <1>1, <2>1 DEF Core, CallsOK, CleanOK
  <2>3. SilentOK(u.events) /\ (HasClosed(u.events) => u.destroyed)
    BY <1>3, <2>1 DEF EventsOK
  <2> QED BY <1>1, <1>2, <1>3, <1>4, <2>2, <2>3, SendFailsKeeps
<1>5. CASE f = "chain"
  <2>1. CASE s.destroyed
    <3>1. Between(u, f)
      BY <1>1, <1>5 DEF Between
    <3> QED BY <3>1, <2>1, <1>2, <1>3, <1>5, ReturnsKeeps
  <2>2. CASE ~s.destroyed
    <3> DEFINE t == Emitted(u, "error")
               ev == Append(u.events, "error")
    <3>1. "error" \in Events /\ u.events \in Seq(Events) /\ SilentOK(u.events)
      BY <1>1, <1>3 DEF Events, Core, Requests, EventsOK
    <3>2. Touched(u, t) /\ Core(t) /\ t.events = ev
      BY <1>1, <3>1, EmitKeeps
    <3>3. SilentOK(ev) /\ (HasClosed(ev) <=> HasClosed(u.events))
      BY <3>1, EventAdded
    <3> HIDE DEF t, ev
    <3>4. ~Plain(t) /\ EventsOK(t)
      BY <3>2, <3>3, <1>3 DEF Touched, SameEnd, SameSend, Plain, EventsOK
    <3>5. RestOK(t)
      BY <3>2, <1>3, RestKept
    <3>6. Between(t, f)
      BY <3>2, <1>1, <1>5 DEF Between, Touched, SameCalls
    <3>7. LoopFails(s, f) = LoopReturns(t, f)
      BY <1>2, <1>5, <2>2 DEF t
    <3> QED BY <3>4, <3>5, <3>6, <3>7, <1>5, ReturnsKeeps
  <2> QED BY <2>1, <2>2
<1> QED BY <1>4, <1>5 DEF Flushers

\* A step that tells nothing keeps what was told.
LEMMA SameEvents ==
  ASSUME NEW s, NEW t, EventsOK(s), RestOK(s), SameFate(s, t), SameEnd(s, t), t.sendAt = s.sendAt
  PROVE  EventsOK(t) /\ RestOK(t)
<1>1. Plain(t) => PlainOK(t)
  BY DEF EventsOK, Plain, PlainOK, SameFate, SameEnd
<1> QED BY <1>1 DEF EventsOK, RestOK, SameFate

\* Without a write after end(), the two flushers and _doSend take turns.
LEMMA TakesTurns ==
  ASSUME NEW s, NEW f \in Flushers, Between(s, f), InCall(s)
  PROVE  s.late
<1>1. CallsOK(s) /\ CleanOK(s)
  BY DEF Between, Core
<1>2. CASE f = "send"
  <2>1. s.sendAt = "flush" /\ s.loop["send"] = "idle"
    BY <1>2 DEF Between
  <2>2. s.loop["chain"] # "idle"
    BY <2>1 DEF InCall, Flushers
  <2> QED BY <1>1, <2>1, <2>2 DEF CallsOK, CleanOK, Between, Core, Requests
<1>3. CASE f = "chain"
  <2>1. s.chain > 0 /\ s.loop["chain"] = "idle" /\ s.chain \in Int
    BY <1>3 DEF Between, Core, Requests
  <2>2. CASE s.loop["send"] # "idle"
    BY <2>1, <2>2, <1>1 DEF CallsOK, CleanOK
  <2>3. CASE s.sendAt \in {"finish", "wait"}
    BY <2>1, <2>3, <1>1 DEF CallsOK, CleanOK
  <2> QED BY <2>1, <2>2, <2>3 DEF InCall, Flushers
<1> QED BY <1>2, <1>3 DEF Flushers

\* The chunks after the first
LEMMA ChunkTaken ==
  ASSUME NEW s, Core(s), s.pending # <<>>
  PROVE  LET q == Tail(s.pending)
         IN  /\ q \in Seq(Int) /\ Len(q) + 1 = Len(s.pending) /\ Len(q) \in Nat
             /\ \A k \in 1..Len(q) : q[k] = s.written - Len(q) + k
             /\ Head(s.pending) = s.written - Len(q) /\ Head(s.pending) > 0
<1> DEFINE p == s.pending
           q == Tail(p)
           n == Len(p)
           w == s.written
<1>1. p \in Seq(Int) /\ n \in Nat /\ n > 0 /\ w \in Int /\ n <= w
  <2>1. p \in Seq(Int) /\ n \in Nat /\ n > 0 /\ w \in Int /\ s.buffered \in Int /\ Held(s) \in {0, 1}
    BY DEF Core, Requests, Held
  <2>2. n + Held(s) <= s.buffered /\ s.buffered <= w
    BY DEF Core, CountsOK
  <2> HIDE DEF p, n, w
  <2> QED BY <2>1, <2>2
<1>2. q \in Seq(Int) /\ Len(q) = n - 1 /\ Head(p) = p[1] /\ \A k \in 1..n - 1 : q[k] = p[k + 1]
  BY <1>1
<1>3. \A k \in 1..n : p[k] = w - n + k
  BY DEF Core, OrderOK
<1> HIDE DEF p, q, n, w
<1>4. \A k \in 1..n - 1 : q[k] = w - (n - 1) + k
  <2>1. TAKE k \in 1..n - 1
  <2>2. k + 1 \in 1..n
    BY <1>1
  <2>3. p[k + 1] = w - n + (k + 1)
    BY <2>2, <1>3
  <2> QED BY <2>3, <1>1, <1>2
<1>5. p[1] = w - (n - 1) /\ p[1] > 0
  <2>1. p[1] = w - n + 1
    BY <1>1, <1>3
  <2> QED BY <2>1, <1>1
<1> QED BY <1>1, <1>2, <1>4, <1>5 DEF p, q, n, w

\* A chunk that no call took is lost, and the request with it.
LEMMA ChunkLost ==
  ASSUME NEW s, Core(s), s.pending # <<>>, s.late
  PROVE  LET t == [s EXCEPT !.pending = Tail(@)]
         IN  Core(t) /\ SameCalls(s, t) /\ SameSend(s, t) /\ SameEnd(s, t) /\ SameFate(s, t)
<1> DEFINE q == Tail(s.pending)
           t == [s EXCEPT !.pending = q]
<1>1. /\ q \in Seq(Int) /\ Len(q) + 1 = Len(s.pending) /\ Len(q) \in Nat
      /\ \A k \in 1..Len(q) : q[k] = s.written - Len(q) + k
  BY ChunkTaken
<1>2. s \in Requests /\ CountsOK(s) /\ CallsOK(s) /\ OrderOK(s) /\ TicksOK(s)
  BY DEF Core
<1> HIDE DEF q
<1>3. t \in Requests
  BY <1>1, <1>2 DEF Requests
<1>4. /\ SameCalls(s, t) /\ SameSend(s, t) /\ SameEnd(s, t) /\ SameFate(s, t) /\ t.pending = q
      /\ t.written = s.written /\ t.buffered = s.buffered /\ t.acked = s.acked /\ t.body = s.body
  BY <1>2 DEF Requests, SameCalls, SameSend, SameEnd, SameFate
<1> HIDE DEF t
<1>5. CountsOK(t)
  <2>1. Held(t) = Held(s) /\ Held(s) \in {0, 1}
    BY <1>4 DEF Held, Writes, SameCalls
  <2>2. Len(q) + Held(s) <= s.buffered
    <3> DEFINE a == Len(q)
               b == Len(s.pending)
               h == Held(s)
    <3>1. a \in Nat /\ a + 1 = b /\ h \in Int /\ b + h <= s.buffered /\ s.buffered \in Int
      BY <1>1, <1>2, <2>1 DEF CountsOK, Requests
    <3> HIDE DEF a, b, h
    <3>2. a + h <= s.buffered
      BY <3>1
    <3> QED BY <3>2 DEF a, h
  <2> QED BY <2>1, <2>2, <1>2, <1>4 DEF CountsOK, SameCalls, SameSend, SameEnd
<1>6. CallsOK(t)
  <2>1. special # "rejected"
    BY <1>2 DEF CallsOK
  <2> QED BY <2>1, <1>2, <1>4 DEF CallsOK, SameCalls, SameSend, SameEnd, SameFate
<1>7. OrderOK(t)
  <2> DEFINE a == Len(q)
             b == Len(s.pending)
  <2>1. a \in Nat /\ a + 1 = b /\ b \in Nat /\ s.written \in Int
    BY <1>1, <1>2 DEF Requests
  <2>2. \A i \in 1..Len(s.body) : s.body[i] > 0 /\ s.body[i] <= s.written - b /\ s.body[i] \in Int
    BY <1>2 DEF OrderOK, Requests
  <2>3. \A f \in Flushers : s.loop[f] = "write" =>
          /\ 0 < s.chunk[f] /\ s.chunk[f] <= s.written - b /\ s.chunk[f] \in Int
          /\ \A i \in 1..Len(s.body) : s.body[i] < s.chunk[f]
    BY <1>2 DEF OrderOK, Requests
  <2> HIDE DEF a, b
  <2>4. \A i \in 1..Len(s.body) : s.body[i] > 0 /\ s.body[i] <= s.written - a
    BY <2>1, <2>2
  <2>5. \A f \in Flushers : s.loop[f] = "write" =>
          /\ 0 < s.chunk[f] /\ s.chunk[f] <= s.written - a
          /\ \A i \in 1..Len(s.body) : s.body[i] < s.chunk[f]
    BY <2>1, <2>3
  <2> QED BY <2>4, <2>5, <1>1, <1>2, <1>4 DEF OrderOK, SameCalls, a
<1>8. CleanOK(t) /\ TicksOK(t)
  BY <1>2, <1>4 DEF CleanOK, SameEnd, TicksOK, SameFate
<1> QED BY <1>3, <1>4, <1>5, <1>6, <1>7, <1>8 DEF Core, t, q

\* The next chunk goes to writeStream.
LEMMA WritesKeeps ==
  ASSUME NEW s, NEW f \in Flushers, Between(s, f), s.ended, EventsOK(s), RestOK(s),
         s.pending # <<>>, ~s.destroyed, ~InCall(s)
  PROVE  Good([s EXCEPT !.pending = Tail(@), !.loop[f] = "write", !.chunk[f] = Head(s.pending)])
<1> DEFINE q == Tail(s.pending)
           c == Head(s.pending)
           l == [s.loop EXCEPT ![f] = "write"]
           d == [s.chunk EXCEPT ![f] = c]
           t == [s EXCEPT !.pending = q, !.loop = l, !.chunk = d]
<1>1. s \in Requests /\ CountsOK(s) /\ CallsOK(s) /\ OrderOK(s) /\ CleanOK(s) /\ TicksOK(s) /\ Core(s)
  BY DEF Between, Core
<1>2. /\ q \in Seq(Int) /\ Len(q) + 1 = Len(s.pending) /\ Len(q) \in Nat
      /\ \A k \in 1..Len(q) : q[k] = s.written - Len(q) + k
      /\ c = s.written - Len(q) /\ c > 0
  BY <1>1, ChunkTaken
<1>3. c \in Int
  <2> DEFINE n == Len(q)
  <2>1. c = s.written - n /\ n \in Nat /\ s.written \in Int
    BY <1>1, <1>2 DEF Requests
  <2> HIDE DEF n, c
  <2> QED BY <2>1
<1> HIDE DEF q, c
<1>4. /\ l \in [Flushers -> Loops] /\ d \in [Flushers -> Int] /\ l[f] = "write" /\ d[f] = c
      /\ \A g \in Flushers \ {f} : l[g] = "idle" /\ d[g] = s.chunk[g]
  BY <1>1, <1>3 DEF Requests, Loops, InCall
<1> HIDE DEF l, d
<1>5. t \in Requests
  BY <1>1, <1>2, <1>4 DEF Requests
<1>6. /\ SameSend(s, t) /\ SameEnd(s, t) /\ SameFate(s, t) /\ t.pending = q /\ t.loop = l /\ t.chunk = d
      /\ t.written = s.written /\ t.buffered = s.buffered /\ t.acked = s.acked /\ t.body = s.body
      /\ t.chain = s.chain /\ (t.started <=> s.started)
  BY <1>1 DEF Requests, SameSend, SameEnd, SameFate
<1>7. t = [s EXCEPT !.pending = Tail(@), !.loop[f] = "write", !.chunk[f] = Head(s.pending)]
  BY DEF q, c, l, d
<1> HIDE DEF t
<1>8. "chain" \in Flushers /\ "send" \in Flushers /\ \A g \in Flushers : g = "chain" \/ g = "send"
  BY DEF Flushers
<1>9. Held(t) = 1 /\ Held(s) = 0
  BY <1>4, <1>6, <1>8 DEF Held, Writes, InCall
<1>10. CountsOK(t)
  <2> DEFINE a == Len(q)
             b == Len(s.pending)
  <2>1. a + 1 = b /\ a \in Nat /\ b + 0 <= s.buffered /\ b \in Nat /\ s.buffered \in Int
    BY <1>1, <1>2, <1>9 DEF CountsOK, Requests
  <2> HIDE DEF a, b
  <2>2. a + 1 <= s.buffered
    BY <2>1
  <2>3. 0 <= c /\ c <= RequestChunks
    <3>1. c = s.written - a /\ a \in Nat /\ s.written \in Int /\ s.written <= RequestChunks /\ c > 0
      BY <1>1, <1>2 DEF CountsOK, Requests, a
    <3> QED BY <3>1, RequestAssumption, <1>3
  <2>4. \A g \in Flushers : 0 <= t.chunk[g] /\ t.chunk[g] <= RequestChunks
    BY <2>3, <1>1, <1>4, <1>6 DEF CountsOK
  <2> QED BY <2>2, <2>4, <1>1, <1>6, <1>9 DEF CountsOK, SameSend, SameEnd, a
<1>11. CallsOK(t)
  <2>1. special # "rejected"
    BY <1>1 DEF CallsOK
  <2>2. s.sendAt \notin {"finish", "wait"}
    BY DEF InCall
  <2> QED BY <2>1, <2>2, <1>1, <1>4, <1>6, <1>8 DEF CallsOK, SameSend, SameEnd, SameFate, Between
<1>12. OrderOK(t)
  <2> DEFINE a == Len(q)
             b == Len(s.pending)
  <2>1. a \in Nat /\ a + 1 = b /\ b \in Nat /\ s.written \in Int /\ c = s.written - a
    BY <1>1, <1>2 DEF Requests
  <2>2. \A i \in 1..Len(s.body) : s.body[i] > 0 /\ s.body[i] <= s.written - b /\ s.body[i] \in Int
    BY <1>1 DEF OrderOK, Requests
  <2> HIDE DEF a, b
  <2>3. \A i \in 1..Len(s.body) : s.body[i] > 0 /\ s.body[i] <= s.written - a /\ s.body[i] < c
    BY <2>1, <2>2
  <2>4. c <= s.written - a
    BY <2>1
  <2>5. \A g \in Flushers : t.loop[g] = "write" => t.chunk[g] = c
    BY <1>4, <1>6
  <2> QED BY <2>3, <2>4, <2>5, <1>1, <1>2, <1>6 DEF OrderOK, a
<1>13. CleanOK(t)
  <2>1. SUFFICES ASSUME ~s.late PROVE CleanOK(t)
    BY <1>6 DEF CleanOK, SameEnd
  <2>2. /\ t.body = s.body /\ t.written = s.written /\ t.length = s.length /\ t.chain = s.chain
        /\ t.sendAt = s.sendAt /\ t.awaits = s.awaits /\ (t.ended <=> s.ended)
        /\ (t.destroyed <=> s.destroyed) /\ t.native = s.native
    BY <1>6 DEF SameEnd, SameSend, SameFate
  <2>3. s.sendAt \notin {"finish", "wait", "flushed"} /\ s.native \notin Sent
    BY <2>1, <1>1 DEF CleanOK
  <2>4. special # "rejected"
    BY <1>1 DEF CallsOK
  <2>5. /\ \A k \in 1..Len(s.body) : s.body[k] = k
        /\ Len(s.body) + Held(s) + Len(s.pending) = s.written
    BY <2>1, <2>4, <1>1 DEF CleanOK
  <2>6. Len(s.body) + 1 + Len(q) = s.written /\ c = Len(s.body) + 1
    <3> DEFINE a == Len(q)
               b == Len(s.pending)
               n == Len(s.body)
    <3>0. b \in Nat /\ n \in Nat /\ s.written \in Int
      BY <1>1 DEF Requests
    <3>1. a \in Nat /\ a + 1 = b /\ c = s.written - a /\ n + 0 + b = s.written
      BY <1>2, <1>9, <2>5
    <3> HIDE DEF a, b, n
    <3>2. n + 1 + a = s.written /\ c = n + 1
      BY <3>0, <3>1
    <3> QED BY <3>2 DEF a, n
  <2>7. \A g \in Flushers : t.loop[g] = "write" => t.chunk[g] = c
    BY <1>4, <1>6
  <2> QED BY <2>1, <2>2, <2>3, <2>5, <2>6, <2>7, <1>1, <1>6, <1>9 DEF CleanOK
<1>14. TicksOK(t)
  BY <1>1, <1>6 DEF TicksOK, SameFate
<1>15. EventsOK(t) /\ RestOK(t)
  BY <1>6, SameEvents DEF SameSend
<1> QED BY <1>5, <1>7, <1>10, <1>11, <1>12, <1>13, <1>14, <1>15 DEF Good, Core

\* The flusher takes the first of the pending chunks.
LEMMA NextChunkKeeps ==
  ASSUME NEW s, NEW f \in Flushers, Between(s, f), s.ended, EventsOK(s), RestOK(s)
  PROVE  Good(NextChunk(s, f))
<1> DEFINE taken == [s EXCEPT !.pending = Tail(@)]
<1>1. CASE s.pending = <<>> \/ s.destroyed
  <2>1. NextChunk(s, f) = LoopReturns(s, f)
    BY <1>1 DEF NextChunk
  <2> QED BY <2>1, <1>1, ReturnsKeeps
<1>2. CASE s.pending # <<>> /\ ~s.destroyed /\ InCall(s)
  <2>1. NextChunk(s, f) = LoopFails(taken, f)
    BY <1>2 DEF NextChunk
  <2>2. s.late
    BY <1>2, TakesTurns
  <2>3. Core(taken) /\ SameCalls(s, taken) /\ SameSend(s, taken) /\ SameEnd(s, taken) /\ SameFate(s, taken)
    BY <1>2, <2>2, ChunkLost DEF Between
  <2> HIDE DEF taken
  <2>4. EventsOK(taken) /\ RestOK(taken)
    BY <2>3, SameEvents DEF SameSend
  <2>5. ~Plain(taken) /\ (taken.loop[f] = "write" => taken.late)
        /\ (f = "chain" => taken.chain > 0) /\ (f = "send" => taken.sendAt = "flush")
    BY <2>2, <2>3 DEF Plain, SameEnd, SameCalls, SameSend, Between
  <2> QED BY <2>1, <2>3, <2>4, <2>5, FailsKeeps
<1>3. CASE s.pending # <<>> /\ ~s.destroyed /\ ~InCall(s)
  <2> DEFINE t == [s EXCEPT !.pending = Tail(@), !.loop[f] = "write", !.chunk[f] = Head(s.pending)]
  <2>1. NextChunk(s, f) = [taken EXCEPT !.loop[f] = "write", !.chunk[f] = Head(s.pending)]
    BY <1>3 DEF NextChunk
  <2>2. [taken EXCEPT !.loop[f] = "write", !.chunk[f] = Head(s.pending)] = t
    BY DEF Between, Core, Requests
  <2>3. Good(t)
    BY <1>3, WritesKeeps
  <2> HIDE DEF t, taken
  <2> QED BY <2>1, <2>2, <2>3
<1> QED BY <1>1, <1>2, <1>3

\* The headers are sent
LEMMA StartsKeeps ==
  ASSUME NEW s, NEW f \in Flushers, Between(s, f), s.ended, EventsOK(s), RestOK(s),
         ~InCall(s)
  PROVE  Good([s EXCEPT !.loop[f] = "start"])
<1> DEFINE l == [s.loop EXCEPT ![f] = "start"]
           t == [s EXCEPT !.loop = l]
<1>1. s \in Requests /\ CountsOK(s) /\ CallsOK(s) /\ OrderOK(s) /\ CleanOK(s) /\ TicksOK(s)
  BY DEF Between, Core
<1>2. l \in [Flushers -> Loops] /\ l[f] = "start" /\ \A g \in Flushers \ {f} : l[g] = "idle"
  BY <1>1 DEF Requests, Loops, InCall
<1> HIDE DEF l
<1>3. t \in Requests
  BY <1>1, <1>2 DEF Requests
<1>4. /\ SameBody(s, t) /\ SameSend(s, t) /\ SameEnd(s, t) /\ SameFate(s, t) /\ t.loop = l
      /\ t.chunk = s.chunk /\ t.chain = s.chain /\ (t.started <=> s.started)
  BY <1>1 DEF Requests, SameBody, SameSend, SameEnd, SameFate
<1>5. t = [s EXCEPT !.loop[f] = "start"]
  BY DEF l
<1> HIDE DEF t
<1>6. "chain" \in Flushers /\ "send" \in Flushers /\ \A g \in Flushers : g = "chain" \/ g = "send"
  BY DEF Flushers
<1>7. Held(t) = 0 /\ Held(s) = 0 /\ \A g \in Flushers : t.loop[g] # "write"
  BY <1>2, <1>4, <1>6 DEF Held, Writes, InCall
<1>8. CountsOK(t)
  BY <1>1, <1>4, <1>7 DEF CountsOK, SameBody, SameSend, SameEnd
<1>9. CallsOK(t)
  <2>1. s.sendAt \notin {"finish", "wait"}
    BY DEF InCall
  <2> QED BY <2>1, <1>1, <1>2, <1>4, <1>6 DEF CallsOK, SameBody, SameSend, SameEnd, SameFate, Between
<1>10. OrderOK(t)
  BY <1>1, <1>4, <1>7 DEF OrderOK, SameBody
<1>11. CleanOK(t)
  <2>1. /\ t.written = s.written /\ t.pending = s.pending /\ t.body = s.body /\ t.length = s.length
        /\ t.chain = s.chain /\ t.sendAt = s.sendAt
        /\ t.awaits = s.awaits /\ (t.late <=> s.late) /\ (t.ended <=> s.ended)
        /\ (t.destroyed <=> s.destroyed) /\ t.native = s.native
    BY <1>4 DEF SameBody, SameEnd, SameSend, SameFate
  <2>2. Full(t) <=> Full(s)
    BY <2>1 DEF Full
  <2> QED BY <2>1, <2>2, <1>1, <1>7 DEF CleanOK
<1>12. TicksOK(t)
  BY <1>1, <1>4 DEF TicksOK, SameFate
<1>13. EventsOK(t) /\ RestOK(t)
  BY <1>4, SameEvents DEF SameSend
<1> QED BY <1>3, <1>5, <1>8, <1>9, <1>10, <1>11, <1>12, <1>13 DEF Good, Core

\* A flusher starts, goes on or returns.
LEMMA FlushKeeps ==
  ASSUME NEW s, NEW f \in Flushers, Between(s, f), EventsOK(s), RestOK(s)
  PROVE  Good(FlushLoop(s, f))
<1>1. CallsOK(s) /\ Core(s) /\ (f = "send" => s.sendAt = "flush") /\ (f = "chain" => s.chain > 0)
      /\ s.loop[f] = "idle"
  BY DEF Between, Core
<1>2. CASE s.destroyed \/ special = "rejected" \/ ~(s.started \/ s.ended)
  <2>1. FlushLoop(s, f) = LoopReturns(s, f)
    BY <1>2 DEF FlushLoop
  <2>2. f = "send" => s.late \/ s.destroyed \/ s.pending = <<>>
    BY <1>1, <1>2 DEF CallsOK
  <2> QED BY <2>1, <2>2, ReturnsKeeps
<1>3. CASE ~(s.destroyed \/ special = "rejected") /\ s.started
  <2>1. FlushLoop(s, f) = NextChunk(s, f) /\ s.ended
    BY <1>1, <1>3 DEF FlushLoop, CallsOK
  <2> QED BY <2>1, NextChunkKeeps
<1>4. CASE ~(s.destroyed \/ special = "rejected") /\ ~s.started /\ s.ended /\ InCall(s)
  <2>1. FlushLoop(s, f) = LoopFails(s, f) /\ s.late
    BY <1>4, TakesTurns DEF FlushLoop
  <2> QED BY <2>1, <1>1, FailsKeeps DEF Plain
<1>5. CASE ~(s.destroyed \/ special = "rejected") /\ ~s.started /\ s.ended /\ ~InCall(s)
  <2>1. FlushLoop(s, f) = [s EXCEPT !.loop[f] = "start"]
    BY <1>5 DEF FlushLoop
  <2> QED BY <2>1, <1>5, StartsKeeps
<1> QED BY <1>2, <1>3, <1>4, <1>5

\* The next state, from the record of the job
LEMMA RequestLifted ==
  ASSUME RequestIInv, UNCHANGED <<special, reacts>>, NEW t, Good(t), client' = t
  PROVE  RequestIInv'
<1>1. CountsOK(client)' /\ CallsOK(client)' /\ OrderOK(client)'
  BY DEF Good, Core, CountsOK, CallsOK, OrderOK, Held, Writes
<1>2. CleanOK(client)' /\ TicksOK(client)'
  BY DEF Good, Core, CleanOK, TicksOK, Held, Writes, Full
<1>3. EventsOK(client)' /\ RestOK(client)'
  BY DEF Good, EventsOK, RestOK, SilentOK, HasClosed, Outcome, Plain, PlainOK
<1>4. (client \in Requests)'
  BY DEF Good, Core
<1>5. (special \in Specials /\ reacts \subseteq Events)'
  BY DEF RequestIInv
<1> QED BY <1>1, <1>2, <1>3, <1>4, <1>5 DEF RequestIInv, Core

\* The native request has the chunk.
LEMMA CountedKeeps ==
  ASSUME NEW s, NEW f \in Flushers, Core(s), EventsOK(s), RestOK(s), s.loop[f] = "write",
         s.native = "building"
  PROVE  LET t == Counted(s, f)
         IN  Between(t, f) /\ t.ended /\ EventsOK(t) /\ RestOK(t)
<1> DEFINE c == s.chunk[f]
           b == Append(s.body, c)
           l == [s.loop EXCEPT ![f] = "idle"]
           n == s.buffered - 1
           t == [s EXCEPT !.body = b, !.acked = b, !.buffered = n, !.loop = l]
<1>1. s \in Requests /\ CountsOK(s) /\ CallsOK(s) /\ OrderOK(s) /\ CleanOK(s) /\ TicksOK(s)
  BY DEF Core
<1>2. "chain" \in Flushers /\ "send" \in Flushers /\ \A g \in Flushers : g = "chain" \/ g = "send"
  BY DEF Flushers
<1>3. /\ c \in Int /\ b \in Seq(Int) /\ Len(b) = Len(s.body) + 1 /\ Len(s.body) \in Nat
      /\ b[Len(s.body) + 1] = c /\ \A i \in 1..Len(s.body) : b[i] = s.body[i]
      /\ s.body \in Seq(Int)
  BY <1>1 DEF Requests
<1>4. l \in [Flushers -> Loops] /\ l[f] = "idle" /\ \A g \in Flushers : l[g] = "idle"
  <2>1. \A g \in Flushers : g # f => s.loop[g] = "idle"
    BY <1>1, <1>2 DEF CallsOK
  <2> QED BY <2>1, <1>1 DEF Requests, Loops
<1>5. n \in Int /\ s.buffered \in Int /\ n + 1 = s.buffered
  BY <1>1 DEF Requests
<1>6. Counted(s, f) = t
  BY <1>1 DEF Counted, OrderOK
<1> HIDE DEF b, l, n, c
<1>7. t \in Requests
  BY <1>1, <1>3, <1>4, <1>5 DEF Requests
<1>8. /\ SameSend(s, t) /\ SameEnd(s, t) /\ SameFate(s, t) /\ t.loop = l /\ t.body = b /\ t.acked = b
      /\ t.buffered = n /\ t.chunk = s.chunk /\ t.chain = s.chain /\ (t.started <=> s.started)
      /\ t.pending = s.pending /\ t.written = s.written
  BY <1>1 DEF Requests, SameSend, SameEnd, SameFate
<1> HIDE DEF t
<1>9. Held(t) = 0 /\ Held(s) = 1 /\ \A g \in Flushers : t.loop[g] # "write"
  BY <1>2, <1>4, <1>8 DEF Held, Writes
<1>10. CountsOK(t)
  <2> DEFINE p == Len(s.pending)
  <2>1. p \in Nat /\ p + 1 <= s.buffered /\ s.buffered <= s.written /\ s.written \in Int
    BY <1>1, <1>9 DEF CountsOK, Requests
  <2> HIDE DEF p
  <2>2. p + 0 <= n /\ n <= s.written
    BY <2>1, <1>5
  <2> QED BY <2>2, <1>1, <1>8, <1>9 DEF CountsOK, SameSend, SameEnd, p
<1>11. s.ended /\ (f = "chain" => s.chain > 0) /\ (f = "send" => s.sendAt = "flush")
       /\ s.sendAt \notin {"finish", "wait"}
  BY <1>1, <1>2 DEF CallsOK
<1>12. CallsOK(t)
  BY <1>1, <1>2, <1>4, <1>8, <1>11 DEF CallsOK, SameSend, SameEnd, SameFate
<1>13. OrderOK(t)
  <2> DEFINE p == Len(s.pending)
             m == Len(s.body)
  <2>1. /\ 0 < c /\ c <= s.written - p /\ \A i \in 1..m : s.body[i] < c
        /\ \A i, j \in 1..m : i < j => s.body[i] < s.body[j]
        /\ \A i \in 1..m : s.body[i] > 0 /\ s.body[i] <= s.written - p
    BY <1>1 DEF OrderOK, c
  <2>2. m \in Nat /\ Len(b) = m + 1 /\ b[m + 1] = c /\ \A i \in 1..m : b[i] = s.body[i]
    BY <1>3
  <2> HIDE DEF p, m
  <2>3. \A i, j \in 1..Len(b) : i < j => b[i] < b[j]
    <3>1. TAKE i, j \in 1..Len(b)
    <3>2. HAVE i < j
    <3>3. i \in 1..m
      BY <3>2, <2>2
    <3>4. j \in 1..m \/ j = m + 1
      BY <2>2
    <3> QED BY <3>2, <3>3, <3>4, <2>1, <2>2
  <2>4. \A i \in 1..Len(b) : b[i] > 0 /\ b[i] <= s.written - p
    <3>1. TAKE i \in 1..Len(b)
    <3>2. i \in 1..m \/ i = m + 1
      BY <2>2
    <3> QED BY <3>2, <2>1, <2>2
  <2> QED BY <2>3, <2>4, <1>1, <1>8, <1>9 DEF OrderOK, p
<1>14. CleanOK(t)
  <2>1. SUFFICES ASSUME ~s.late PROVE CleanOK(t)
    BY <1>8 DEF CleanOK, SameEnd
  <2>2. /\ t.written = s.written /\ t.length = s.length /\ t.chain = s.chain /\ t.pending = s.pending
        /\ t.sendAt = s.sendAt /\ t.awaits = s.awaits /\ (t.ended <=> s.ended)
        /\ (t.destroyed <=> s.destroyed) /\ t.native = "building"
    BY <1>8 DEF SameEnd, SameSend, SameFate
  <2>3. ~s.destroyed /\ special # "rejected" =>
          /\ \A k \in 1..Len(b) : b[k] = k
          /\ Len(b) + 0 + Len(s.pending) = s.written
    <3>1. SUFFICES ASSUME ~s.destroyed, special # "rejected"
                   PROVE  /\ \A k \in 1..Len(b) : b[k] = k
                          /\ Len(b) + 0 + Len(s.pending) = s.written
      OBVIOUS
    <3> DEFINE p == Len(s.pending)
               m == Len(s.body)
    <3>2. /\ \A k \in 1..m : s.body[k] = k
          /\ m + 1 + p = s.written /\ c = m + 1
      BY <3>1, <2>1, <1>1, <1>9 DEF CleanOK, c
    <3>3. m \in Nat /\ Len(b) = m + 1 /\ b[m + 1] = c /\ \A i \in 1..m : b[i] = s.body[i]
      BY <1>3
    <3>4. p \in Nat
      BY <1>1 DEF Requests
    <3> HIDE DEF p, m
    <3>5. \A k \in 1..Len(b) : b[k] = k
      <4>1. TAKE k \in 1..Len(b)
      <4>2. k \in 1..m \/ k = m + 1
        BY <3>3
      <4> QED BY <4>2, <3>2, <3>3
    <3>6. Len(b) + 0 + p = s.written
      BY <3>2, <3>3, <3>4
    <3> QED BY <3>5, <3>6 DEF p
  <2>4. "building" \notin Sent
    BY DEF Sent
  <2> QED BY <2>1, <2>2, <2>3, <2>4, <1>1, <1>8, <1>9, <1>11 DEF CleanOK
<1>15. TicksOK(t)
  BY <1>1, <1>8 DEF TicksOK, SameFate
<1>16. EventsOK(t) /\ RestOK(t)
  BY <1>8, SameEvents DEF SameSend
<1>17. Between(t, f) /\ t.ended
  BY <1>4, <1>7, <1>8, <1>10, <1>11, <1>12, <1>13, <1>14, <1>15 DEF Between, Core, SameSend, SameEnd
<1> QED BY <1>6, <1>16, <1>17

\* 'drain' is told once the buffer is empty.
LEMMA DrainToldKeeps ==
  ASSUME NEW s, NEW f \in Flushers, Between(s, f), s.ended, EventsOK(s), RestOK(s)
  PROVE  LET t == DrainTold(s)
         IN  Between(t, f) /\ t.ended /\ EventsOK(t) /\ RestOK(t)
<1>1. CASE s.needDrain /\ s.buffered < DrainMark
  <2> DEFINE n == [s EXCEPT !.needDrain = FALSE]
             t == Emitted(n, "drain")
  <2>1. s \in Requests /\ TicksOK(s) /\ Core(s)
    BY DEF Between, Core
  <2>2. n \in Requests
    BY <2>1 DEF Requests
  <2>3. SameBody(s, n) /\ SameEnd(s, n) /\ SameCalls(s, n) /\ SameSend(s, n) /\ SameFate(s, n)
    BY <2>1 DEF Requests, SameBody, SameEnd, SameCalls, SameSend, SameFate
  <2>4. DrainTold(s) = t
    BY <1>1 DEF DrainTold
  <2> HIDE DEF n
  <2>5. Touched(s, n) /\ TicksOK(n) /\ n.events = s.events
    BY <2>1, <2>2, <2>3 DEF Touched, TicksOK, SameFate
  <2>6. Core(n) /\ EventsOK(n) /\ RestOK(n)
    BY <2>1, <2>5, TouchedCore, QuietKeeps, RestKept
  <2>7. "drain" \in Events \ {"response", "error", "close"}
    BY DEF Events
  <2>8. Good(t) /\ Touched(n, t)
    BY <2>6, <2>7, AsideEvents, EmitKeeps
  <2> HIDE DEF t
  <2>9. Touched(s, t)
    BY <2>5, <2>8, TouchedTwice
  <2> QED BY <2>4, <2>8, <2>9 DEF Good, Between, Touched, SameCalls, SameSend, SameEnd
<1>2. CASE ~(s.needDrain /\ s.buffered < DrainMark)
  BY <1>2 DEF DrainTold
<1> QED BY <1>1, <1>2

\* The native request took a chunk, or refused it.
LEMMA WriteSettlesStep ==
  ASSUME RequestIInv, NEW f \in Flushers, WriteSettles(f)
  PROVE  RequestIInv'
<1> DEFINE s == client
<1>1. /\ s.loop[f] = "write" /\ UNCHANGED <<special, reacts>>
      /\ client' = IF s.native = "building" THEN NextChunk(DrainTold(Counted(s, f)), f)
                   ELSE LoopFails(s, f)
  BY DEF WriteSettles
<1>2. Core(s) /\ EventsOK(s) /\ RestOK(s)
  BY DEF RequestIInv
<1> HIDE DEF s
<1>3. CASE s.native = "building"
  <2> DEFINE t == Counted(s, f)
             u == DrainTold(t)
  <2>1. Between(t, f) /\ t.ended /\ EventsOK(t) /\ RestOK(t)
    BY <1>1, <1>2, <1>3, CountedKeeps
  <2> HIDE DEF t
  <2>2. Between(u, f) /\ u.ended /\ EventsOK(u) /\ RestOK(u)
    BY <2>1, DrainToldKeeps
  <2> HIDE DEF u
  <2>3. Good(NextChunk(u, f))
    BY <2>2, NextChunkKeeps
  <2> QED BY <2>3, <1>1, <1>3, RequestLifted DEF t, u
<1>4. CASE s.native # "building"
  <2>1. CallsOK(s) /\ CleanOK(s) /\ s \in Requests
    BY <1>2 DEF Core
  <2>2. (f = "chain" => s.chain > 0) /\ (f = "send" => s.sendAt = "flush") /\ s.sendAt \notin {"finish", "wait"}
    BY <2>1, <1>1 DEF CallsOK, Flushers
  <2>3. s.late \/ s.destroyed
    <3>1. SUFFICES ASSUME ~s.destroyed PROVE s.late
      OBVIOUS
    <3>2. s.native \in Sent
      BY <3>1, <2>1, <1>4 DEF CallsOK, Requests, Natives, Sent
    <3>3. s.sendAt \in {"flushed", "wait", "over"}
      BY <3>2, <2>1 DEF CallsOK
    <3>4. s.chain > 0 /\ s.chain # 0
      BY <2>1, <2>2, <3>3 DEF Requests, Flushers
    <3> QED BY <3>3, <3>4, <2>1 DEF CleanOK
  <2>4. Good(LoopFails(s, f))
    BY <1>1, <1>2, <2>2, <2>3, FailsKeeps DEF Plain
  <2> QED BY <2>4, <1>1, <1>4, RequestLifted
<1> QED BY <1>3, <1>4

\* The body was opened, or the request was refused.
LEMMA StartSettlesStep ==
  ASSUME RequestIInv, NEW f \in Flushers, StartSettles(f)
  PROVE  RequestIInv'
<1> DEFINE s == client
           l == [s.loop EXCEPT ![f] = "idle"]
           idle == [s EXCEPT !.loop = l]
           on == [idle EXCEPT !.started = TRUE]
<1>1. /\ s.loop[f] = "start" /\ UNCHANGED <<special, reacts>>
      /\ client' = IF special = "malformed" THEN LoopFails(idle, f) ELSE NextChunk(on, f)
  BY DEF StartSettles
<1>2. Core(s) /\ EventsOK(s) /\ RestOK(s)
  BY DEF RequestIInv
<1> HIDE DEF s
<1>3. s \in Requests /\ CountsOK(s) /\ CallsOK(s) /\ OrderOK(s) /\ CleanOK(s) /\ TicksOK(s)
  BY <1>2 DEF Core
<1>4. "chain" \in Flushers /\ "send" \in Flushers /\ \A g \in Flushers : g = "chain" \/ g = "send"
  BY DEF Flushers
<1>5. l \in [Flushers -> Loops] /\ \A g \in Flushers : l[g] = "idle" /\ s.loop[g] # "write"
  <2>1. \A g \in Flushers : g # f => s.loop[g] = "idle"
    BY <1>1, <1>3, <1>4 DEF CallsOK
  <2> QED BY <2>1, <1>1, <1>3 DEF Requests, Loops
<1> HIDE DEF l
<1>6. idle \in Requests /\ on \in Requests
  <2>1. idle \in Requests
    BY <1>3, <1>5 DEF Requests
  <2> HIDE DEF idle
  <2> QED BY <2>1 DEF Requests
<1>7. /\ SameBody(s, idle) /\ SameEnd(s, idle) /\ SameSend(s, idle) /\ SameFate(s, idle)
      /\ idle.loop = l /\ idle.chunk = s.chunk /\ idle.chain = s.chain /\ (idle.started <=> s.started)
  BY <1>3 DEF Requests, SameBody, SameEnd, SameSend, SameFate
<1>8. /\ SameBody(idle, on) /\ SameEnd(idle, on) /\ SameSend(idle, on) /\ SameFate(idle, on)
      /\ on.loop = idle.loop /\ on.chunk = idle.chunk /\ on.chain = idle.chain
  <2> HIDE DEF idle
  <2> QED BY <1>6 DEF Requests, SameBody, SameEnd, SameSend, SameFate
<1> HIDE DEF idle, on
<1>9. s.ended /\ (f = "chain" => s.chain > 0) /\ (f = "send" => s.sendAt = "flush")
  BY <1>1, <1>3, <1>4 DEF CallsOK
<1>10. ASSUME NEW t \in {idle, on} PROVE Between(t, f) /\ t.ended /\ EventsOK(t) /\ RestOK(t)
  <2>1. /\ t \in Requests /\ SameBody(s, t) /\ SameEnd(s, t) /\ SameSend(s, t) /\ SameFate(s, t)
        /\ t.loop = l /\ t.chunk = s.chunk /\ t.chain = s.chain
    BY <1>6, <1>7, <1>8 DEF SameBody, SameEnd, SameSend, SameFate
  <2>2. Held(t) = 0 /\ Held(s) = 0 /\ \A g \in Flushers : t.loop[g] # "write" /\ t.loop[g] = "idle"
    BY <2>1, <1>4, <1>5 DEF Held, Writes
  <2>3. CountsOK(t)
    BY <2>1, <2>2, <1>3 DEF CountsOK, SameBody, SameSend, SameEnd
  <2>4. CallsOK(t)
    BY <2>1, <2>2, <1>3, <1>4, <1>9 DEF CallsOK, SameBody, SameSend, SameEnd, SameFate
  <2>5. OrderOK(t)
    BY <2>1, <2>2, <1>3 DEF OrderOK, SameBody
  <2>6. CleanOK(t)
    <3>1. /\ t.written = s.written /\ t.pending = s.pending /\ t.body = s.body /\ t.length = s.length
          /\ t.chain = s.chain /\ t.sendAt = s.sendAt
          /\ t.awaits = s.awaits /\ (t.late <=> s.late) /\ (t.ended <=> s.ended)
          /\ (t.destroyed <=> s.destroyed) /\ t.native = s.native
      BY <2>1 DEF SameBody, SameEnd, SameSend, SameFate
    <3>2. Full(t) <=> Full(s)
      BY <3>1 DEF Full
    <3> QED BY <3>1, <3>2, <2>2, <1>3 DEF CleanOK
  <2>7. TicksOK(t)
    BY <2>1, <1>3 DEF TicksOK, SameFate
  <2>8. EventsOK(t) /\ RestOK(t)
    BY <2>1, <1>2, SameEvents DEF SameSend
  <2> QED BY <2>1, <2>2, <2>3, <2>4, <2>5, <2>6, <2>7, <2>8, <1>9 DEF Between, Core, SameEnd, SameSend
<1>11. CASE special = "malformed"
  <2>1. Between(idle, f) /\ idle.ended /\ EventsOK(idle) /\ RestOK(idle)
    BY <1>10
  <2>2. Good(LoopFails(idle, f))
    BY <2>1, <1>11, FailsKeeps DEF Plain, Between
  <2> QED BY <2>2, <1>1, <1>11, RequestLifted
<1>12. CASE special # "malformed"
  <2>1. Between(on, f) /\ on.ended /\ EventsOK(on) /\ RestOK(on)
    BY <1>10
  <2>2. Good(NextChunk(on, f))
    BY <2>1, NextChunkKeeps
  <2> QED BY <2>2, <1>1, <1>12, RequestLifted
<1> QED BY <1>11, <1>12

-----------------------------------------------------------------------------
(* write(), end() and _doSend *)

\* A chunk that write() takes is the last of the pending ones.
LEMMA ChunkWritten ==
  ASSUME NEW s, Good(s), s.written < RequestChunks
  PROVE  LET t == WithChunk(s)
         IN  /\ Good(t) /\ SameSend(s, t) /\ SameFate(s, t) /\ (t.ended <=> s.ended)
             /\ (t.late <=> s.ended)
<1> DEFINE w == s.written + 1
           m == s.ended
           more == [s EXCEPT !.written = w, !.late = m]
<1>1. s \in Requests /\ CountsOK(s) /\ CallsOK(s) /\ OrderOK(s) /\ CleanOK(s) /\ TicksOK(s)
      /\ EventsOK(s) /\ RestOK(s)
  BY DEF Good, Core
<1>2. w \in Int /\ s.written \in Int /\ m \in BOOLEAN /\ w = s.written + 1 /\ (m <=> s.ended)
      /\ 0 <= w /\ w <= RequestChunks
  BY <1>1, RequestAssumption DEF Requests, CountsOK
<1>3. ~s.ended => /\ ~s.late /\ s.sendAt = "none" /\ s.body = <<>> /\ s.native \notin Sent
                  /\ Held(s) = 0
  BY <1>1 DEF CallsOK, Held, Writes
<1> HIDE DEF w, m
<1>4. CASE special = "rejected"
  <2>1. WithChunk(s) = more
    BY <1>4 DEF WithChunk, w, m
  <2> DEFINE t == more
  <2>2. t \in Requests
    BY <1>1, <1>2 DEF Requests
  <2>3. /\ SameSend(s, t) /\ SameFate(s, t) /\ SameCalls(s, t) /\ (t.ended <=> s.ended) /\ (t.late <=> m)
        /\ t.written = w /\ t.pending = s.pending /\ t.buffered = s.buffered /\ t.acked = s.acked
        /\ t.body = s.body /\ t.length = s.length
    BY <1>1, <1>2 DEF Requests, SameSend, SameFate, SameCalls
  <2> HIDE DEF more
  <2>4. s.pending = <<>> /\ s.chain = 0
    BY <1>1, <1>4 DEF CallsOK
  <2>5. CountsOK(t)
    <3>1. Held(t) = Held(s)
      BY <2>3 DEF Held, Writes, SameCalls
    <3>2. s.chain <= w /\ s.buffered <= w
      BY <1>1, <1>2 DEF CountsOK, Requests
    <3> QED BY <3>1, <3>2, <1>1, <1>2, <2>3 DEF CountsOK, SameCalls, SameSend
  <2>6. CallsOK(t)
    BY <1>1, <1>2, <2>3 DEF CallsOK, SameCalls, SameSend, SameFate
  <2>7. OrderOK(t)
    <3>1. Len(s.pending) = 0
      BY <2>4
    <3>2. \A i \in 1..Len(s.body) : s.body[i] > 0 /\ s.body[i] <= w - 0
      BY <3>1, <1>1, <1>2 DEF OrderOK, Requests
    <3>3. \A f \in Flushers : s.loop[f] = "write" =>
            /\ 0 < s.chunk[f] /\ s.chunk[f] <= w - 0
            /\ \A i \in 1..Len(s.body) : s.body[i] < s.chunk[f]
      BY <3>1, <1>1, <1>2 DEF OrderOK, Requests
    <3> QED BY <3>1, <3>2, <3>3, <1>1, <2>3 DEF OrderOK, SameCalls
  <2>8. CleanOK(t)
    BY <1>1, <1>2, <1>3, <1>4, <2>3, <2>4 DEF CleanOK, CallsOK, SameCalls, SameSend, SameFate
  <2>9. TicksOK(t)
    BY <1>1, <2>3 DEF TicksOK, SameFate
  <2>10. EventsOK(t) /\ RestOK(t)
    BY <1>1, <1>4, <2>3 DEF EventsOK, RestOK, SameFate, SameSend, Plain
  <2> QED BY <2>1, <2>2, <2>3, <2>5, <2>6, <2>7, <2>8, <2>9, <2>10, <1>2 DEF Good, Core
<1>5. CASE special # "rejected"
  <2> DEFINE q == Append(s.pending, w)
             b == s.buffered + 1
             c == s.chain + 1
             d == s.needDrain \/ s.buffered + 1 >= DrainMark
             t == [s EXCEPT !.written = w, !.late = m, !.pending = q, !.buffered = b,
                            !.chain = c, !.needDrain = d]
  <2>1. WithChunk(s) = t
    <3>1. more.written = w /\ more.pending = s.pending /\ more.buffered = s.buffered
          /\ more.chain = s.chain /\ more.needDrain = s.needDrain
      BY <1>1 DEF Requests
    <3>2. WithChunk(s) = [more EXCEPT !.pending = Append(@, more.written), !.buffered = @ + 1,
                                      !.chain = @ + 1, !.needDrain = @ \/ s.buffered + 1 >= DrainMark]
      BY <1>5 DEF WithChunk, w, m
    <3>3. WithChunk(s) = [more EXCEPT !.pending = q, !.buffered = b, !.chain = c, !.needDrain = d]
      BY <3>1, <3>2
    <3> HIDE DEF q, b, c, d
    <3> QED BY <3>3
  <2>2. /\ q \in Seq(Int) /\ Len(q) = Len(s.pending) + 1 /\ Len(s.pending) \in Nat
        /\ q[Len(s.pending) + 1] = w /\ \A k \in 1..Len(s.pending) : q[k] = s.pending[k]
    BY <1>1, <1>2 DEF Requests
  <2>3. b \in Int /\ c \in Int /\ d \in BOOLEAN /\ b = s.buffered + 1 /\ c = s.chain + 1
        /\ s.buffered \in Int /\ s.chain \in Int
    BY <1>1 DEF Requests
  <2> HIDE DEF q, b, c, d, more
  <2>4. t \in Requests
    <3> DEFINE u == [s EXCEPT !.written = w, !.pending = q, !.buffered = b, !.chain = c]
    <3>1. u \in Requests
      BY <1>1, <1>2, <2>2, <2>3 DEF Requests
    <3>2. t = [u EXCEPT !.late = m, !.needDrain = d]
      BY <1>1 DEF Requests
    <3> HIDE DEF u, t
    <3>3. [u EXCEPT !.late = m, !.needDrain = d] \in Requests
      BY <3>1, <1>2, <2>3 DEF Requests
    <3> QED BY <3>2, <3>3
  <2>5. /\ SameSend(s, t) /\ SameFate(s, t) /\ (t.ended <=> s.ended) /\ (t.late <=> m)
        /\ t.written = w /\ t.pending = q /\ t.buffered = b /\ t.acked = s.acked /\ t.chain = c
        /\ t.body = s.body /\ t.length = s.length /\ t.loop = s.loop /\ t.chunk = s.chunk
        /\ (t.started <=> s.started)
    BY <1>1, <1>2, <2>3 DEF Requests, SameSend, SameFate
  <2> HIDE DEF t
  <2>6. CountsOK(t)
    <3> DEFINE p == Len(s.pending)
               h == Held(s)
               r == Len(q)
    <3>1. Held(t) = h /\ h \in {0, 1}
      BY <2>5 DEF Held, Writes
    <3>2. p \in Nat /\ r = p + 1 /\ p + h <= s.buffered /\ s.buffered <= s.written
          /\ 0 <= s.chain /\ s.chain <= s.written
      BY <1>1, <2>2 DEF CountsOK
    <3> HIDE DEF p, h, r
    <3>3. r + h <= b /\ b <= w /\ 0 <= c /\ c <= w
      BY <3>1, <3>2, <1>2, <2>3
    <3> QED BY <3>1, <3>3, <1>1, <1>2, <2>5 DEF CountsOK, SameSend, h, r
  <2>7. CallsOK(t)
    <3>1. s.chain > 0 => c > 0
      BY <2>3
    <3> QED BY <3>1, <1>1, <1>2, <1>5, <2>5 DEF CallsOK, SameSend, SameFate
  <2>8. OrderOK(t)
    <3> DEFINE p == Len(s.pending)
               r == Len(q)
    <3>1. /\ p \in Nat /\ r = p + 1 /\ q[p + 1] = w /\ \A k \in 1..p : q[k] = s.pending[k]
          /\ \A k \in 1..p : s.pending[k] = s.written - p + k
      BY <1>1, <2>2 DEF OrderOK
    <3>2. \A i \in 1..Len(s.body) : s.body[i] > 0 /\ s.body[i] <= s.written - p
      BY <1>1 DEF OrderOK
    <3>3. \A f \in Flushers : s.loop[f] = "write" =>
            /\ 0 < s.chunk[f] /\ s.chunk[f] <= s.written - p
            /\ \A i \in 1..Len(s.body) : s.body[i] < s.chunk[f]
      BY <1>1 DEF OrderOK
    <3> HIDE DEF p, r
    <3>4. w - r = s.written - p
      BY <3>1, <1>2
    <3>5. \A k \in 1..r : q[k] = w - r + k
      <4>1. TAKE k \in 1..r
      <4>2. k \in 1..p \/ k = p + 1
        BY <3>1
      <4> QED BY <4>2, <3>1, <1>2
    <3> QED BY <3>2, <3>3, <3>4, <3>5, <1>1, <2>5 DEF OrderOK, r
  <2>9. CleanOK(t)
    <3>1. SUFFICES ASSUME ~s.ended PROVE CleanOK(t)
      BY <1>2, <2>5 DEF CleanOK
    <3>2. ~s.late /\ s.sendAt = "none" /\ s.body = <<>> /\ s.native \notin Sent /\ Held(s) = 0
      BY <3>1, <1>3
    <3>3. Held(t) = 0 /\ \A f \in Flushers : t.loop[f] # "write"
      BY <3>1, <3>2, <1>1, <2>5 DEF Held, Writes, CallsOK, Flushers
    <3>4. ~s.destroyed => Len(s.body) + 0 + Len(q) = w /\ \A k \in 1..Len(s.body) : s.body[k] = k
      <4> DEFINE p == Len(s.pending)
                 r == Len(q)
                 n == Len(s.body)
      <4>1. ~s.destroyed => n + 0 + p = s.written /\ \A k \in 1..n : s.body[k] = k
        BY <3>2, <1>1, <1>5 DEF CleanOK
      <4>2. p \in Nat /\ r = p + 1 /\ n \in Nat
        BY <1>1, <2>2 DEF Requests
      <4> HIDE DEF p, r, n
      <4>3. ~s.destroyed => n + 0 + r = w
        BY <4>1, <4>2, <1>2
      <4> QED BY <4>1, <4>3 DEF r, n
    <3> QED BY <3>1, <3>2, <3>3, <3>4, <2>5 DEF CleanOK, SameSend, SameFate
  <2>10. TicksOK(t)
    BY <1>1, <2>5 DEF TicksOK, SameFate
  <2>11. EventsOK(t) /\ RestOK(t)
    <3>1. Plain(t) => Plain(s)
      BY <1>2, <1>3, <2>5 DEF Plain, SameFate
    <3>2. Plain(t) => PlainOK(t)
      BY <3>1, <1>1, <2>5 DEF EventsOK, PlainOK, SameFate, SameSend
    <3> QED BY <3>2, <1>1, <2>5 DEF EventsOK, RestOK, SameFate, SameSend
  <2> QED BY <2>1, <2>4, <2>5, <2>6, <2>7, <2>8, <2>9, <2>10, <2>11, <1>2 DEF Good, Core
<1> QED BY <1>4, <1>5

\* _doSend at another stage, awaiting a of the writes
AtStage(s, v, a) == [s EXCEPT !.sendAt = v, !.awaits = a]

\* What _doSend has to have for its next stage
StageOK(s, v, a) ==
    /\ s.ended /\ s.loop["send"] = "idle" /\ a \in Int /\ 0 <= a /\ a <= RequestChunks
    /\ v \in Stages \ {"none", "over"} /\ (special = "rejected" => v = "turn")
    /\ s.native \in Sent => v \in {"flushed", "wait"}
    /\ v \in {"finish", "wait"} => s.loop["chain"] = "idle"
    /\ ~s.late => /\ v = "chain" => a = s.chain
                  /\ v \notin {"turn", "chain"} => s.chain = 0
                  /\ v = "flushed" => s.destroyed \/ s.pending = <<>>
                  /\ v \in {"finish", "wait"} => s.pending = <<>> /\ Full(s)

\* _doSend moves on.
LEMMA StageKeeps ==
  ASSUME NEW s, Core(s), NEW v, NEW a, StageOK(s, v, a)
  PROVE  LET t == AtStage(s, v, a)
         IN  /\ Core(t) /\ SameBody(s, t) /\ SameEnd(s, t) /\ SameCalls(s, t) /\ SameFate(s, t)
             /\ t.sendAt = v
<1> DEFINE t == [s EXCEPT !.sendAt = v, !.awaits = a]
<1>0. AtStage(s, v, a) = t
  BY DEF AtStage
<1> USE DEF StageOK
<1>1. s \in Requests /\ CountsOK(s) /\ CallsOK(s) /\ OrderOK(s) /\ CleanOK(s) /\ TicksOK(s)
  BY DEF Core
<1>2. t \in Requests
  BY <1>1 DEF Requests
<1>3. /\ SameBody(s, t) /\ SameEnd(s, t) /\ SameCalls(s, t) /\ SameFate(s, t)
      /\ t.sendAt = v /\ t.awaits = a
  BY <1>1 DEF Requests, SameBody, SameEnd, SameCalls, SameFate
<1> HIDE DEF t
<1>4. CountsOK(t)
  BY <1>1, <1>3 DEF CountsOK, SameBody, SameEnd, SameCalls, Held, Writes
<1>5. CallsOK(t)
  BY <1>1, <1>3 DEF CallsOK, SameBody, SameEnd, SameCalls, SameFate
<1>6. OrderOK(t)
  BY <1>1, <1>3 DEF OrderOK, SameBody, SameCalls
<1>7. CleanOK(t)
  <2>1. /\ t.written = s.written /\ t.pending = s.pending /\ t.body = s.body /\ t.length = s.length
        /\ t.loop = s.loop /\ t.chunk = s.chunk /\ t.chain = s.chain
        /\ (t.late <=> s.late) /\ (t.ended <=> s.ended)
        /\ (t.destroyed <=> s.destroyed) /\ t.native = s.native
    BY <1>3 DEF SameBody, SameEnd, SameCalls, SameFate
  <2>2. Held(t) = Held(s) /\ (Full(t) <=> Full(s))
    BY <2>1 DEF Held, Writes, Full
  <2> QED BY <2>1, <2>2, <1>1, <1>3 DEF CleanOK
<1>8. TicksOK(t)
  BY <1>1, <1>3 DEF TicksOK, SameFate
<1> QED BY <1>0, <1>2, <1>3, <1>4, <1>5, <1>6, <1>7, <1>8 DEF Core

\* Nothing is said by it.
LEMMA StageEvents ==
  ASSUME NEW s, NEW t, EventsOK(s), s.sendAt # "over", SameEnd(s, t), SameFate(s, t)
  PROVE  EventsOK(t)
<1>1. Plain(t) => PlainOK(t)
  BY DEF EventsOK, Plain, PlainOK, SameEnd, SameFate
<1> QED BY <1>1 DEF EventsOK, SameFate

\* write(): the chunk waits, and a flusher is asked for when the body is open.
LEMMA WriteRequestStep == ASSUME RequestIInv, WriteRequest PROVE RequestIInv'
<1>1. client.written < RequestChunks /\ client' = WithChunk(client) /\ UNCHANGED <<special, reacts>>
  BY DEF WriteRequest
<1>2. Good(client)
  BY DEF RequestIInv, Good
<1>3. Good(WithChunk(client))
  BY <1>1, <1>2, ChunkWritten
<1> QED BY <1>1, <1>3, RequestLifted

\* _doSend, up to its first await
LEMMA SendNowKeeps ==
  ASSUME NEW s, Good(s), s.ended, s.sendAt \in {"none", "turn"}
  PROVE  Good(SendNow(s))
<1>1. Core(s) /\ s \in Requests /\ CallsOK(s) /\ CountsOK(s) /\ EventsOK(s) /\ RestOK(s)
  BY DEF Good, Core
<1>2. s.loop["send"] = "idle" /\ s.native \notin Sent /\ s.sendAt # "over"
  BY <1>1 DEF CallsOK
<1>3. CASE special = "rejected"
  <2> DEFINE t == SendOver(s)
  <2>1. ~s.late => s.chain = 0
    BY <1>1, <1>3 DEF CallsOK
  <2>2. Core(t) /\ SameEnd(s, t) /\ SameFate(s, t) /\ t.sendAt = "over"
    BY <1>1, <1>2, <2>1, OverKeeps
  <2>3. SendNow(s) = t
    BY <1>3 DEF SendNow
  <2> HIDE DEF t
  <2>4. EventsOK(t)
    BY <1>1, <1>2, <2>2, StageEvents
  <2> QED BY <2>2, <2>3, <2>4 DEF Good, RestOK
<1>4. CASE special # "rejected"
  <2> DEFINE a == s.chain
             t == AtStage(s, "chain", a)
  <2>1. SendNow(s) = t
    BY <1>4 DEF SendNow, Waits, AtStage
  <2>2. a \in Int /\ 0 <= a /\ a <= RequestChunks
    <3>1. s.chain \in Int /\ s.written \in Int /\ 0 <= s.chain /\ s.chain <= s.written /\ s.written <= RequestChunks
      BY <1>1 DEF CountsOK, Requests
    <3> QED BY <3>1, RequestAssumption
  <2>3. "chain" \in Stages \ {"none", "over"}
    BY DEF Stages
  <2>4. /\ Core(t) /\ SameEnd(s, t) /\ SameFate(s, t) /\ t.sendAt = "chain"
    <3>1. StageOK(s, "chain", a)
      BY <1>1, <1>2, <1>4, <2>2, <2>3 DEF StageOK
    <3> HIDE DEF a
    <3> QED BY <3>1, <1>1, StageKeeps
  <2> HIDE DEF t, a
  <2>5. EventsOK(t)
    BY <1>1, <1>2, <2>4, StageEvents
  <2> QED BY <2>1, <2>4, <2>5 DEF Good, RestOK
<1> QED BY <1>3, <1>4

\* The turn after end(): the send begins.
LEMMA RequestTurnStep == ASSUME RequestIInv, RequestTurn PROVE RequestIInv'
<1>1. client.sendAt = "turn" /\ client' = SendNow(client) /\ UNCHANGED <<special, reacts>>
  BY DEF RequestTurn
<1>2. Good(client) /\ client.ended
  BY <1>1 DEF RequestIInv, Good, Core, CallsOK
<1>3. Good(SendNow(client))
  BY <1>1, <1>2, SendNowKeeps
<1> QED BY <1>1, <1>3, RequestLifted

\* end() counts what was written.
LEMMA EndedKeeps ==
  ASSUME NEW s, Good(s), ~s.ended, ~s.late
  PROVE  LET t == [s EXCEPT !.ended = TRUE, !.length = s.written]
         IN  Good(t) /\ t.ended /\ t.sendAt = s.sendAt
<1> DEFINE w == s.written
           t == [s EXCEPT !.ended = TRUE, !.length = w]
<1>1. s \in Requests /\ CountsOK(s) /\ CallsOK(s) /\ OrderOK(s) /\ CleanOK(s) /\ TicksOK(s)
      /\ EventsOK(s) /\ RestOK(s) /\ w \in Int
  BY DEF Good, Core, Requests
<1>2. w = s.written
  OBVIOUS
<1> HIDE DEF w
<1>3. t \in Requests
  BY <1>1 DEF Requests
<1>4. /\ SameBody(s, t) /\ SameCalls(s, t) /\ SameSend(s, t) /\ SameFate(s, t)
      /\ t.ended /\ (t.late <=> s.late) /\ t.length = w
  BY <1>1 DEF Requests, SameBody, SameCalls, SameSend, SameFate
<1>5. t = [s EXCEPT !.ended = TRUE, !.length = s.written]
  BY DEF w
<1> HIDE DEF t
<1>6. CountsOK(t)
  <2>1. Held(t) = Held(s)
    BY <1>4 DEF Held, Writes, SameCalls
  <2>2. 0 <= w
    BY <1>1, <1>2 DEF CountsOK, Requests
  <2> QED BY <2>1, <2>2, <1>1, <1>2, <1>4 DEF CountsOK, SameBody, SameCalls, SameSend
<1>7. CallsOK(t)
  BY <1>1, <1>4 DEF CallsOK, SameBody, SameCalls, SameSend, SameFate
<1>8. OrderOK(t)
  BY <1>1, <1>4 DEF OrderOK, SameBody, SameCalls
<1>9. CleanOK(t)
  <2>1. /\ t.written = s.written /\ t.pending = s.pending /\ t.body = s.body /\ t.length = s.written
        /\ t.loop = s.loop /\ t.chunk = s.chunk /\ t.chain = s.chain /\ t.sendAt = s.sendAt
        /\ t.awaits = s.awaits /\ (t.late <=> s.late)
        /\ (t.destroyed <=> s.destroyed) /\ t.native = s.native
    BY <1>2, <1>4 DEF SameBody, SameCalls, SameSend, SameFate
  <2>2. Held(t) = Held(s) /\ (Full(t) <=> Full(s))
    BY <2>1 DEF Held, Writes, Full
  <2> QED BY <2>1, <2>2, <1>1 DEF CleanOK
<1>10. TicksOK(t)
  BY <1>1, <1>4 DEF TicksOK, SameFate
<1>11. EventsOK(t) /\ RestOK(t)
  <2>1. Plain(t) => PlainOK(t)
    BY <1>1, <1>4 DEF EventsOK, Plain, PlainOK, SameFate, SameSend
  <2> QED BY <2>1, <1>1, <1>4 DEF EventsOK, RestOK, SameFate, SameSend
<1> QED BY <1>3, <1>4, <1>5, <1>6, <1>7, <1>8, <1>9, <1>10, <1>11 DEF Good, Core, SameSend

\* end(): no chunk comes after it.
LEMMA EndRequestStep == ASSUME RequestIInv, EndRequest PROVE RequestIInv'
<1>1. PICK last \in {client.written < RequestChunks, FALSE}, sets \in BOOLEAN, now \in BOOLEAN :
         LET all  == IF last THEN WithChunk(client) ELSE client
             over == [all EXCEPT !.ended = TRUE, !.length = all.written]
         IN  client' = IF sets /\ all.native = "aborted" THEN all
                       ELSE IF now THEN SendNow(over) ELSE [over EXCEPT !.sendAt = "turn"]
  BY DEF EndRequest
<1> DEFINE all == IF last THEN WithChunk(client) ELSE client
           over == [all EXCEPT !.ended = TRUE, !.length = all.written]
<1>2. ~client.ended /\ UNCHANGED <<special, reacts>> /\ Good(client)
  BY DEF EndRequest, RequestIInv, Good
<1>3. ~client.late /\ client.sendAt = "none"
  BY <1>2 DEF Good, Core, CallsOK
<1>4. Good(all) /\ ~all.ended /\ ~all.late /\ all.sendAt = "none"
  <2>1. CASE last
    <3>1. client.written < RequestChunks
      BY <2>1
    <3> DEFINE t == WithChunk(client)
    <3>2. /\ Good(t) /\ SameSend(client, t) /\ (t.ended <=> client.ended) /\ (t.late <=> client.ended)
      BY <3>1, <1>2, ChunkWritten
    <3> HIDE DEF t
    <3>3. all = t
      BY <2>1 DEF t
    <3> QED BY <3>2, <3>3, <1>2, <1>3 DEF SameSend
  <2>2. CASE ~last
    BY <2>2, <1>2, <1>3
  <2> QED BY <2>1, <2>2
<1>5. client' = IF sets /\ all.native = "aborted" THEN all
                ELSE IF now THEN SendNow(over) ELSE [over EXCEPT !.sendAt = "turn"]
  BY <1>1
<1> HIDE DEF all
<1>6. Good(over) /\ over.ended /\ over.sendAt = "none"
  BY <1>4, EndedKeeps
<1> HIDE DEF over
<1>7. CASE sets /\ all.native = "aborted"
  BY <1>2, <1>4, <1>5, <1>7, RequestLifted
<1>8. CASE ~(sets /\ all.native = "aborted") /\ now
  <2>1. Good(SendNow(over))
    BY <1>6, SendNowKeeps
  <2> QED BY <2>1, <1>2, <1>5, <1>8, RequestLifted
<1>9. CASE ~(sets /\ all.native = "aborted") /\ ~now
  <2> DEFINE a == over.awaits
             t == AtStage(over, "turn", a)
  <2>1. over \in Requests /\ CountsOK(over) /\ CallsOK(over) /\ Core(over) /\ EventsOK(over)
    BY <1>6 DEF Good, Core
  <2>2. a \in Int /\ 0 <= a /\ a <= RequestChunks
    BY <2>1 DEF CountsOK, Requests
  <2>3. over.loop["send"] = "idle" /\ over.native \notin Sent
    BY <2>1, <1>6 DEF CallsOK
  <2>4. "turn" \in Stages \ {"none", "over"}
    BY DEF Stages
  <2>5. Core(t) /\ SameEnd(over, t) /\ SameFate(over, t) /\ t.sendAt = "turn"
    <3>1. StageOK(over, "turn", a)
      BY <1>6, <2>1, <2>2, <2>3, <2>4 DEF StageOK
    <3> QED BY <3>1, <2>1, StageKeeps
  <2>6. [over EXCEPT !.sendAt = "turn"] = t
    BY <2>1 DEF Requests, AtStage
  <2> HIDE DEF t
  <2>7. EventsOK(t)
    BY <1>6, <2>1, <2>5, StageEvents
  <2>8. Good(t)
    BY <2>5, <2>7 DEF Good, RestOK
  <2>9. client' = t
    BY <2>6, <1>5, <1>9
  <2> QED BY <2>8, <2>9, <1>2, RequestLifted
<1> QED BY <1>7, <1>8, <1>9

\* A flusher of the chain runs.
LEMMA ChainRunsStep == ASSUME RequestIInv, ChainRuns PROVE RequestIInv'
<1>1. /\ client.chain > 0 /\ client.loop["chain"] = "idle" /\ client' = FlushLoop(client, "chain")
      /\ UNCHANGED <<special, reacts>> /\ "chain" \in Flushers
  BY DEF ChainRuns, Flushers
<1>2. Between(client, "chain") /\ EventsOK(client) /\ RestOK(client)
  BY <1>1 DEF RequestIInv, Between
<1>3. Good(FlushLoop(client, "chain"))
  BY <1>1, <1>2, FlushKeeps
<1> QED BY <1>1, <1>3, RequestLifted

\* The send waits for the chain, then flushes what is left.
LEMMA AfterChainStep == ASSUME RequestIInv, AfterChain PROVE RequestIInv'
<1> DEFINE s == client
           a == s.awaits
           done == AtStage(s, "flushed", a)
           flush == AtStage(s, "flush", a)
<1>1. /\ s.sendAt = "chain" /\ s.awaits = 0 /\ UNCHANGED <<special, reacts>>
      /\ client' = IF s.started /\ s.pending = <<>>
                   THEN [s EXCEPT !.sendAt = "flushed"]
                   ELSE FlushLoop([s EXCEPT !.sendAt = "flush"], "send")
  BY DEF AfterChain
<1>2. Core(s) /\ EventsOK(s) /\ RestOK(s) /\ s \in Requests /\ CallsOK(s) /\ CleanOK(s) /\ CountsOK(s)
  BY DEF RequestIInv, Core
<1>3. a \in Int /\ 0 <= a /\ a <= RequestChunks
  BY <1>2 DEF CountsOK, Requests
<1>4. /\ s.ended /\ s.loop["send"] = "idle" /\ s.native \notin Sent /\ special # "rejected"
      /\ (~s.late => s.chain = 0)
  BY <1>1, <1>2 DEF CallsOK, CleanOK
<1>5. [s EXCEPT !.sendAt = "flushed"] = done /\ [s EXCEPT !.sendAt = "flush"] = flush
  BY <1>2 DEF Requests, AtStage
<1>6. "flushed" \in Stages \ {"none", "over"} /\ "flush" \in Stages \ {"none", "over"}
  BY DEF Stages
<1> HIDE DEF a, s
<1>7. CASE s.started /\ s.pending = <<>>
  <2>1. Core(done) /\ SameEnd(s, done) /\ SameFate(s, done) /\ done.sendAt = "flushed"
    <3>1. StageOK(s, "flushed", a)
      BY <1>3, <1>4, <1>6, <1>7 DEF StageOK
    <3> QED BY <3>1, <1>2, StageKeeps
  <2> HIDE DEF done
  <2>2. EventsOK(done)
    BY <1>1, <1>2, <2>1, StageEvents
  <2>3. Good(done)
    BY <1>4, <2>1, <2>2 DEF Good, RestOK, SameFate
  <2>4. client' = done
    BY <1>1, <1>5, <1>7
  <2> QED BY <1>1, <2>3, <2>4, RequestLifted
<1>8. CASE ~(s.started /\ s.pending = <<>>)
  <2>1. Core(flush) /\ SameEnd(s, flush) /\ SameFate(s, flush) /\ SameCalls(s, flush)
        /\ flush.sendAt = "flush"
    <3>1. StageOK(s, "flush", a)
      BY <1>3, <1>4, <1>6 DEF StageOK
    <3> QED BY <3>1, <1>2, StageKeeps
  <2> HIDE DEF flush
  <2>2. EventsOK(flush)
    BY <1>1, <1>2, <2>1, StageEvents
  <2>3. Between(flush, "send") /\ RestOK(flush) /\ "send" \in Flushers
    BY <1>4, <2>1 DEF Between, RestOK, SameCalls, Flushers
  <2>4. Good(FlushLoop(flush, "send"))
    BY <2>2, <2>3, FlushKeeps
  <2>5. client' = FlushLoop(flush, "send")
    BY <1>1, <1>5, <1>8
  <2> QED BY <1>1, <2>4, <2>5, RequestLifted
<1> QED BY <1>7, <1>8

\* The send has flushed, and finishes the body.
LEMMA AfterFlushStep == ASSUME RequestIInv, AfterFlush PROVE RequestIInv'
<1> DEFINE s == client
           t == Emitted(s, "socket")
           a == t.awaits
<1>1. /\ s.sendAt = "flushed" /\ UNCHANGED <<special, reacts>>
      /\ client' = IF s.destroyed THEN SendOver(s)
                   ELSE IF special = "lookup" THEN [t EXCEPT !.sendAt = "lookup"]
                   ELSE IF InCall(t) THEN SendFails(t)
                   ELSE [t EXCEPT !.sendAt = "finish"]
  BY DEF AfterFlush
<1>2. Core(s) /\ EventsOK(s) /\ RestOK(s) /\ s \in Requests /\ CallsOK(s) /\ CleanOK(s)
  BY DEF RequestIInv, Core
<1>3. /\ s.ended /\ s.loop["send"] = "idle" /\ s.native \notin Sent /\ special # "rejected"
      /\ (~s.late => s.chain = 0)
  BY <1>1, <1>2 DEF CallsOK, CleanOK, RestOK
<1> HIDE DEF s
<1>4. CASE s.destroyed
  <2> DEFINE o == SendOver(s)
  <2>1. Core(o) /\ SameEnd(s, o) /\ SameFate(s, o) /\ o.sendAt = "over"
    BY <1>2, <1>3, OverKeeps
  <2> HIDE DEF o
  <2>2. EventsOK(o)
    BY <1>1, <1>2, <2>1, StageEvents
  <2>3. Good(o)
    BY <2>1, <2>2 DEF Good, RestOK
  <2>4. client' = o
    BY <1>1, <1>4 DEF o
  <2> QED BY <1>1, <2>3, <2>4, RequestLifted
<1>5. CASE ~s.destroyed
  <2>1. "socket" \in Events \ {"response", "error", "close"} /\ "socket" \in Events
    BY DEF Events
  <2>2. Good(t) /\ Touched(s, t)
    BY <1>2, <2>1, AsideEvents, EmitKeeps
  <2> HIDE DEF t
  <2>3. /\ Core(t) /\ t \in Requests /\ CountsOK(t) /\ EventsOK(t) /\ RestOK(t)
        /\ t.ended /\ t.loop["send"] = "idle" /\ t.native \notin Sent
        /\ (~t.late => t.chain = 0) /\ t.sendAt = "flushed"
    BY <2>2, <1>1, <1>3 DEF Good, Core, Touched, SameEnd, SameCalls, SameSend, Sent
  <2>4. a \in Int /\ 0 <= a /\ a <= RequestChunks
    BY <2>3 DEF CountsOK, Requests
  <2>5. /\ [t EXCEPT !.sendAt = "lookup"] = AtStage(t, "lookup", a)
        /\ [t EXCEPT !.sendAt = "finish"] = AtStage(t, "finish", a)
    BY <2>3 DEF Requests, AtStage
  <2> HIDE DEF a
  <2>6. "lookup" \in Stages \ {"none", "over"} /\ "finish" \in Stages \ {"none", "over"}
    BY DEF Stages
  <2>7. ~InCall(t) => t.loop["chain"] = "idle"
    BY DEF InCall, Flushers
  <2>8. ~t.late => t.pending = <<>> /\ Full(t)
    <3>1. SUFFICES ASSUME ~s.late PROVE s.pending = <<>> /\ Full(s)
      BY <2>2 DEF Touched, SameBody, SameEnd, Full
    <3>2. s.pending = <<>> /\ s.chain = 0
      BY <3>1, <1>1, <1>2, <1>5 DEF CleanOK
    <3>3. Held(s) = 0
      BY <3>2, <1>2, <1>3 DEF Held, Writes, CallsOK
    <3>4. /\ \A k \in 1..Len(s.body) : s.body[k] = k
          /\ Len(s.body) + Held(s) + Len(s.pending) = s.written
      BY <3>1, <1>2, <1>3, <1>5 DEF CleanOK
    <3>5. Len(s.body) = s.written
      <4> DEFINE n == Len(s.body)
      <4>1. n \in Nat /\ s.written \in Int /\ n + 0 + 0 = s.written
        BY <3>2, <3>3, <3>4, <1>2 DEF Requests
      <4> HIDE DEF n
      <4>2. n = s.written
        BY <4>1
      <4> QED BY <4>2 DEF n
    <3> QED BY <3>2, <3>4, <3>5 DEF Full
  <2>9. CASE special = "lookup"
    <3> DEFINE u == AtStage(t, "lookup", a)
    <3>1. StageOK(t, "lookup", a)
      BY <1>3, <2>3, <2>4, <2>6 DEF StageOK
    <3>2. client' = u
      BY <1>1, <1>5, <2>5, <2>9
    <3>3. Core(u) /\ SameEnd(t, u) /\ SameFate(t, u) /\ u.sendAt = "lookup"
      BY <3>1, <2>3, StageKeeps
    <3> HIDE DEF u
    <3>4. EventsOK(u)
      BY <2>3, <3>3, StageEvents
    <3>5. Good(u)
      BY <3>3, <3>4 DEF Good, RestOK
    <3> QED BY <1>1, <3>2, <3>5, RequestLifted
  <2>10. CASE special # "lookup" /\ InCall(t)
    <3>1. t.late
      <4>1. t.loop["chain"] # "idle"
        BY <2>3, <2>10 DEF InCall, Flushers
      <4>2. t.chain > 0 /\ t.chain # 0
        BY <4>1, <2>3 DEF Core, CallsOK, Requests
      <4> QED BY <4>2, <2>3
    <3>2. SilentOK(t.events) /\ (HasClosed(t.events) => t.destroyed) /\ ~Plain(t)
      BY <3>1, <2>3 DEF EventsOK, Plain
    <3>3. Good(SendFails(t))
      BY <2>3, <3>2, SendFailsKeeps
    <3>4. client' = SendFails(t)
      BY <1>1, <1>5, <2>10
    <3> QED BY <1>1, <3>3, <3>4, RequestLifted
  <2>11. CASE special # "lookup" /\ ~InCall(t)
    <3> DEFINE u == AtStage(t, "finish", a)
    <3>1. StageOK(t, "finish", a)
      BY <1>3, <2>3, <2>4, <2>6, <2>7, <2>8, <2>11 DEF StageOK
    <3>2. client' = u
      BY <1>1, <1>5, <2>5, <2>11
    <3>3. Core(u) /\ SameEnd(t, u) /\ SameFate(t, u) /\ u.sendAt = "finish"
      BY <3>1, <2>3, StageKeeps
    <3> HIDE DEF u
    <3>4. EventsOK(u)
      BY <2>3, <3>3, StageEvents
    <3>5. Good(u)
      BY <3>3, <3>4 DEF Good, RestOK
    <3> QED BY <1>1, <3>2, <3>5, RequestLifted
  <2> QED BY <2>9, <2>10, <2>11
<1> QED BY <1>4, <1>5

\* The native request, with what the host makes of it
Handed(s, n, v) == [s EXCEPT !.native = n, !.sendAt = v]

\* It has the whole body.
LEMMA HandedOver ==
  ASSUME NEW s, Core(s), s.sendAt \in {"finish", "wait"}, NEW n \in Sent, NEW v \in {"flushed", "wait"}
  PROVE  LET t == Handed(s, n, v)
         IN  /\ Core(t) /\ SameBody(s, t) /\ SameEnd(s, t) /\ SameCalls(s, t)
             /\ (t.destroyed <=> s.destroyed) /\ t.events = s.events /\ t.ticks = s.ticks
             /\ t.native = n /\ t.sendAt = v
<1> DEFINE t == [s EXCEPT !.native = n, !.sendAt = v]
<1>0. Handed(s, n, v) = t
  BY DEF Handed
<1>1. s \in Requests /\ CountsOK(s) /\ CallsOK(s) /\ OrderOK(s) /\ CleanOK(s) /\ TicksOK(s)
  BY DEF Core
<1>2. t \in Requests
  BY <1>1 DEF Requests, Stages, Sent, Natives
<1>3. /\ SameBody(s, t) /\ SameEnd(s, t) /\ SameCalls(s, t)
      /\ (t.destroyed <=> s.destroyed) /\ t.events = s.events /\ t.ticks = s.ticks
      /\ t.sendAt = v /\ t.awaits = s.awaits /\ t.native = n
  BY <1>1 DEF Requests, SameBody, SameEnd, SameCalls
<1> HIDE DEF t
<1>4. CountsOK(t)
  BY <1>1, <1>3 DEF CountsOK, SameBody, SameEnd, SameCalls, Held, Writes
<1>5. s.ended /\ s.loop["send"] = "idle" /\ s.loop["chain"] = "idle" /\ special # "rejected"
      /\ n # "aborted"
  BY <1>1 DEF CallsOK, Sent
<1>6. CallsOK(t)
  BY <1>1, <1>3, <1>5 DEF CallsOK, SameBody, SameEnd, SameCalls
<1>7. OrderOK(t)
  BY <1>1, <1>3 DEF OrderOK, SameBody, SameCalls
<1>8. CleanOK(t)
  <2>1. /\ t.written = s.written /\ t.pending = s.pending /\ t.body = s.body /\ t.length = s.length
        /\ t.loop = s.loop /\ t.chunk = s.chunk /\ t.chain = s.chain
        /\ (t.late <=> s.late) /\ (t.ended <=> s.ended)
        /\ (t.destroyed <=> s.destroyed)
    BY <1>3 DEF SameBody, SameEnd, SameCalls
  <2>2. Held(t) = Held(s) /\ (Full(t) <=> Full(s))
    BY <2>1 DEF Held, Writes, Full
  <2>3. ~s.late => s.chain = 0 /\ s.pending = <<>> /\ Full(s)
    BY <1>1 DEF CleanOK
  <2> QED BY <2>1, <2>2, <2>3, <1>1, <1>3 DEF CleanOK
<1>9. TicksOK(t)
  BY <1>1, <1>3 DEF TicksOK
<1> QED BY <1>2, <1>3, <1>4, <1>6, <1>7, <1>8, <1>9, <1>0 DEF Core

\* The body is finished: 'finish' is told, and the send waits for the answer.
LEMMA FinishSettlesStep == ASSUME RequestIInv, FinishSettles PROVE RequestIInv'
<1> DEFINE s == client
           h == Handed(s, "sending", "flushed")
           t == Emitted(h, "finish")
           a == t.awaits
<1>1. /\ s.sendAt = "finish" /\ UNCHANGED <<special, reacts>>
      /\ client' = IF s.native # "building" THEN SendFails(s)
                   ELSE IF t.destroyed THEN SendOver(t)
                   ELSE IF InCall(t) THEN SendFails(t)
                   ELSE [t EXCEPT !.sendAt = "wait"]
  BY DEF FinishSettles, Handed
<1>2. Core(s) /\ EventsOK(s) /\ RestOK(s) /\ s \in Requests /\ CallsOK(s) /\ CleanOK(s)
  BY DEF RequestIInv, Core
<1>3. /\ s.ended /\ s.loop["send"] = "idle" /\ s.native \notin Sent /\ special # "rejected"
      /\ s.loop["chain"] = "idle"
      /\ (~s.late => s.chain = 0 /\ s.pending = <<>> /\ Full(s))
  BY <1>1, <1>2 DEF CallsOK, CleanOK
<1>4. SilentOK(s.events) /\ (HasClosed(s.events) => s.destroyed)
      /\ (Plain(s) => \A i \in 1..Len(s.events) : ~Outcome(s.events, i))
  BY <1>1, <1>2 DEF EventsOK, PlainOK
<1> HIDE DEF s
<1>5. CASE s.native # "building"
  <2>1. ~Plain(s)
    BY <1>2, <1>3, <1>5 DEF CallsOK, Requests, Natives, Sent, Plain
  <2>2. Good(SendFails(s))
    BY <2>1, <1>2, <1>3, <1>4, SendFailsKeeps
  <2>3. client' = SendFails(s)
    BY <1>1, <1>5
  <2> QED BY <1>1, <2>2, <2>3, RequestLifted
<1>6. CASE s.native = "building"
  <2>1. /\ Core(h) /\ SameBody(s, h) /\ SameEnd(s, h) /\ SameCalls(s, h)
        /\ (h.destroyed <=> s.destroyed) /\ h.events = s.events /\ h.native = "sending"
        /\ h.sendAt = "flushed"
    <3>1. "sending" \in Sent /\ "flushed" \in {"flushed", "wait"} /\ s.sendAt \in {"finish", "wait"}
      BY <1>1 DEF Sent
    <3> QED BY <3>1, <1>2, HandedOver
  <2> HIDE DEF h
  <2>2. EventsOK(h)
    <3>1. Plain(h) => PlainOK(h)
      <4>1. SUFFICES ASSUME Plain(h) PROVE PlainOK(h)
        OBVIOUS
      <4>2. Plain(s)
        BY <4>1, <2>1 DEF Plain, SameEnd
      <4>3. \A i \in 1..Len(s.events) : ~Outcome(s.events, i)
        BY <4>2, <1>4
      <4>4. ~HasClosed(s.events)
        BY <4>2, <1>4 DEF Plain
      <4> QED BY <4>3, <4>4, <2>1 DEF PlainOK, Outcome
    <3> QED BY <3>1, <1>4, <2>1 DEF EventsOK
  <2>3. "finish" \in Events \ {"response", "error", "close"} /\ "finish" \in Events
    BY DEF Events
  <2>4. Core(t) /\ Touched(h, t) /\ EventsOK(t)
    BY <2>1, <2>2, <2>3, AsideSaid, EmitKeeps
  <2> HIDE DEF t
  <2>5. /\ t \in Requests /\ CountsOK(t) /\ t.ended /\ t.loop["send"] = "idle" /\ t.loop["chain"] = "idle"
        /\ t.sendAt = "flushed" /\ (t.native \in Sent \/ t.destroyed)
    BY <2>1, <2>4, <1>3 DEF Core, Touched, SameEnd, SameCalls, SameSend, Sent
  <2>6. ~t.late => t.chain = 0 /\ t.pending = <<>> /\ Full(t)
    BY <2>1, <2>4, <1>3 DEF Touched, SameBody, SameEnd, SameCalls, Full
  <2>7. CASE t.destroyed
    <3> DEFINE o == SendOver(t)
    <3>1. Core(o) /\ SameEnd(t, o) /\ SameFate(t, o) /\ o.sendAt = "over"
      BY <2>4, <2>5, <2>6, OverKeeps
    <3> HIDE DEF o
    <3>2. EventsOK(o)
      BY <2>4, <2>5, <3>1, StageEvents
    <3>3. Good(o)
      BY <3>1, <3>2 DEF Good, RestOK
    <3>4. client' = o
      BY <1>1, <1>6, <2>7 DEF o
    <3> QED BY <1>1, <3>3, <3>4, RequestLifted
  <2>8. ~InCall(t)
    BY <2>5 DEF InCall, Flushers
  <2>9. CASE ~t.destroyed
    <3> DEFINE u == AtStage(t, "wait", a)
    <3>1. a \in Int /\ 0 <= a /\ a <= RequestChunks
      BY <2>5 DEF CountsOK, Requests
    <3>2. [t EXCEPT !.sendAt = "wait"] = u
      BY <2>5 DEF Requests, AtStage
    <3> HIDE DEF a
    <3>3. "wait" \in Stages \ {"none", "over"}
      BY DEF Stages
    <3>4. StageOK(t, "wait", a)
      BY <1>3, <2>5, <2>6, <3>1, <3>3 DEF StageOK
    <3>6. client' = u
      BY <1>1, <1>6, <2>8, <2>9, <3>2
    <3>9. Core(u) /\ SameEnd(t, u) /\ SameFate(t, u) /\ u.sendAt = "wait"
      BY <3>4, <2>4, StageKeeps
    <3> HIDE DEF u
    <3>7. EventsOK(u)
      BY <2>4, <2>5, <3>9, StageEvents
    <3>8. Good(u)
      BY <3>9, <3>7 DEF Good, RestOK
    <3> QED BY <1>1, <3>6, <3>8, RequestLifted
  <2> QED BY <2>7, <2>9
<1> QED BY <1>5, <1>6

\* The host fails the request.
LEMMA HostFailsStep == ASSUME RequestIInv, HostFails PROVE RequestIInv'
<1> DEFINE s == client
           h == Handed(s, "failed", "wait")
<1>1. /\ s.sendAt = "wait" /\ UNCHANGED <<special, reacts>>
      /\ client' = SendFails([s EXCEPT !.native = "failed"])
  BY DEF HostFails
<1>2. Core(s) /\ EventsOK(s) /\ s \in Requests /\ CallsOK(s) /\ CleanOK(s)
  BY DEF RequestIInv, Core
<1>3. s.ended /\ s.loop["send"] = "idle" /\ (~s.late => s.chain = 0)
  BY <1>1, <1>2 DEF CallsOK, CleanOK
<1>4. SilentOK(s.events) /\ (HasClosed(s.events) => s.destroyed)
      /\ (Plain(s) => \A i \in 1..Len(s.events) : ~Outcome(s.events, i))
  BY <1>1, <1>2 DEF EventsOK, PlainOK
<1>5. [s EXCEPT !.native = "failed"] = h
  BY <1>1, <1>2 DEF Requests, Handed
<1> HIDE DEF s
<1>6. "failed" \in Sent /\ "wait" \in {"flushed", "wait"} /\ s.sendAt \in {"finish", "wait"}
  BY <1>1 DEF Sent
<1>7. /\ Core(h) /\ SameEnd(s, h) /\ SameCalls(s, h) /\ (h.destroyed <=> s.destroyed)
      /\ h.events = s.events /\ h.native = "failed"
  BY <1>2, <1>6, HandedOver
<1> HIDE DEF h
<1>8. /\ h.ended /\ h.loop["send"] = "idle" /\ (~h.late => h.chain = 0)
      /\ SilentOK(h.events) /\ (HasClosed(h.events) => h.destroyed)
      /\ (Plain(h) => \A i \in 1..Len(h.events) : ~Outcome(h.events, i))
  BY <1>3, <1>4, <1>7 DEF SameEnd, SameCalls, Plain
<1>9. Good(SendFails(h))
  BY <1>7, <1>8, SendFailsKeeps
<1> QED BY <1>1, <1>5, <1>9, RequestLifted

\* The response comes, and is the outcome.
LEMMA HostAnswersStep == ASSUME RequestIInv, HostAnswers PROVE RequestIInv'
<1> DEFINE s == client
           there == Handed(s, "ready", "flushed")
           h == Handed(s, "consumed", "flushed")
           a == Emitted(h, "response")
           t == SendOver(a)
<1>1. s.sendAt = "wait" /\ UNCHANGED <<special, reacts>>
  BY DEF HostAnswers
<1>2. Core(s) /\ EventsOK(s) /\ s \in Requests /\ CallsOK(s) /\ CleanOK(s)
  BY DEF RequestIInv, Core
<1>3. client' = IF s.destroyed
                THEN SendOver(IF s.deferred THEN AbortNative(there) ELSE there)
                ELSE IF a.destroyed THEN SendOver(a) ELSE CloseOnce(SendOver(a))
  <2>1. [[s EXCEPT !.native = "ready", !.sendAt = "flushed"] EXCEPT !.native = "consumed"] = h
    BY <1>2 DEF Requests, Handed
  <2>2. [s EXCEPT !.native = "ready", !.sendAt = "flushed"] = there
    BY DEF Handed
  <2> HIDE DEF h, there
  <2> QED BY <2>1, <2>2 DEF HostAnswers
<1>4. s.ended /\ s.loop["send"] = "idle" /\ (~s.late => s.chain = 0)
  BY <1>1, <1>2 DEF CallsOK, CleanOK
<1>5. SilentOK(s.events) /\ (HasClosed(s.events) => s.destroyed)
      /\ (Plain(s) => \A i \in 1..Len(s.events) : ~Outcome(s.events, i))
  BY <1>1, <1>2 DEF EventsOK, PlainOK
<1> HIDE DEF s
<1>6. "ready" \in Sent /\ "consumed" \in Sent /\ "flushed" \in {"flushed", "wait"}
      /\ s.sendAt \in {"finish", "wait"}
  BY <1>1 DEF Sent
<1>7. CASE s.destroyed
  <2>1. /\ Core(there) /\ SameEnd(s, there) /\ SameCalls(s, there) /\ there.destroyed
        /\ there.events = s.events
    BY <1>2, <1>6, <1>7, HandedOver
  <2> HIDE DEF there
  <2> DEFINE u == IF s.deferred THEN AbortNative(there) ELSE there
             o == SendOver(u)
  <2>2. Core(u) /\ SameEnd(s, u) /\ SameCalls(s, u) /\ u.destroyed /\ u.events = s.events
    <3>1. CASE s.deferred
      <4> DEFINE b == AbortNative(there)
      <4>1. there \in Requests /\ TicksOK(there)
        BY <2>1 DEF Core
      <4>2. Touched(there, b) /\ b.events = there.events /\ b.ticks = there.ticks
        BY <4>1, <2>1, AbortKeeps
      <4> HIDE DEF b
      <4>3. TicksOK(b)
        BY <4>1, <4>2, <2>1 DEF TicksOK, Touched
      <4>4. Core(b)
        BY <4>2, <4>3, <2>1, TouchedCore
      <4>5. u = b
        BY <3>1 DEF b
      <4> HIDE DEF u
      <4> QED BY <4>2, <4>4, <4>5, <2>1 DEF Touched, SameEnd, SameCalls
    <3> QED BY <3>1, <2>1
  <2> HIDE DEF u
  <2>3. u.ended /\ u.loop["send"] = "idle" /\ (~u.late => u.chain = 0)
    BY <2>2, <1>4 DEF SameEnd, SameCalls
  <2>4. Core(o) /\ SameFate(u, o) /\ o.sendAt = "over"
    BY <2>2, <2>3, OverKeeps
  <2>5. client' = o
    BY <1>3, <1>7 DEF u
  <2> HIDE DEF o
  <2>6. Good(o)
    BY <2>2, <2>4, <1>5 DEF Good, EventsOK, RestOK, Plain, SameFate
  <2> QED BY <1>1, <2>5, <2>6, RequestLifted
<1>8. CASE ~s.destroyed
  <2> DEFINE ev == Append(h.events, "response")
  <2>1. /\ Core(h) /\ SameEnd(s, h) /\ SameCalls(s, h) /\ (h.destroyed <=> s.destroyed)
        /\ h.events = s.events
    BY <1>2, <1>6, HandedOver
  <2> HIDE DEF h
  <2>2. "response" \in Events /\ h.events \in Seq(Events)
    BY <2>1 DEF Events, Core, Requests
  <2>3. Touched(h, a) /\ Core(a) /\ a.events = ev
    BY <2>1, <2>2, EmitKeeps
  <2>4. /\ SilentOK(ev) /\ ~HasClosed(ev)
        /\ \A i \in 1..Len(ev) : Outcome(ev, i) =>
              (i \in 1..Len(h.events) /\ Outcome(h.events, i)) \/ i = Len(h.events) + 1
        /\ Len(h.events) + 1 \in 1..Len(ev) /\ ev[Len(h.events) + 1] = "response"
        /\ \A i \in 1..Len(ev) : ev[i] = "error" => i \in 1..Len(h.events) /\ Outcome(h.events, i)
    <3>1. SilentOK(h.events) /\ ~HasClosed(h.events)
      BY <2>1, <1>5, <1>8
    <3>2. /\ SilentOK(ev) /\ (HasClosed(ev) <=> HasClosed(h.events) \/ "response" = "close")
          /\ \A i \in 1..Len(ev) : Outcome(ev, i) =>
                (i \in 1..Len(h.events) /\ Outcome(h.events, i)) \/ i = Len(h.events) + 1
          /\ Len(h.events) + 1 \in 1..Len(ev) /\ ev[Len(h.events) + 1] = "response"
      BY <2>2, <3>1, EventAdded
    <3>3. \A i \in 1..Len(ev) : ev[i] = "error" => Outcome(ev, i) /\ i # Len(h.events) + 1
      BY <3>2 DEF Outcome
    <3> QED BY <3>1, <3>2, <3>3
  <2>5. a.ended /\ a.loop["send"] = "idle" /\ (~a.late => a.chain = 0)
    BY <2>1, <2>3, <1>4 DEF Touched, SameCalls, SameEnd
  <2> HIDE DEF a, ev
  <2>6. Core(t) /\ SameEnd(a, t) /\ SameFate(a, t) /\ t.sendAt = "over"
    BY <2>3, <2>5, OverKeeps
  <2>7. client' = IF a.destroyed THEN t ELSE CloseOnce(t)
    BY <1>3, <1>8
  <2> HIDE DEF t
  <2>8. SilentOK(t.events) /\ ~HasClosed(t.events) /\ RestOK(t)
    BY <2>3, <2>4, <2>6 DEF SameFate, RestOK
  <2>9. CASE a.destroyed
    <3>1. Good(t)
      BY <2>6, <2>8, <2>9 DEF Good, EventsOK, Plain, SameFate
    <3> QED BY <1>1, <2>7, <2>9, <3>1, RequestLifted
  <2>10. CASE ~a.destroyed
    <3>1. Plain(t) => OutcomeTold(t)
      <4>1. SUFFICES ASSUME Plain(t) PROVE OutcomeTold(t)
        OBVIOUS
      <4>2. Plain(s) /\ t.events = ev /\ h.events = s.events
        BY <4>1, <2>1, <2>3, <2>6, <1>8 DEF Plain, SameEnd, SameFate, Touched
      <4>3. \A i, j \in 1..Len(ev) : Outcome(ev, i) /\ Outcome(ev, j) => i = j
        BY <4>2, <2>4, <1>5
      <4>4. \E i \in 1..Len(ev) : Outcome(ev, i)
        BY <2>4 DEF Outcome
      <4>5. \A i \in 1..Len(ev) : ev[i] # "error"
        BY <4>2, <2>4, <1>5
      <4> QED BY <4>2, <4>3, <4>4, <4>5, <2>6 DEF OutcomeTold
    <3>2. Good(CloseOnce(t))
      BY <2>6, <2>8, <3>1, ClosesRight
    <3> QED BY <1>1, <2>7, <2>10, <3>2, RequestLifted
  <2> QED BY <2>9, <2>10
<1> QED BY <1>7, <1>8

-----------------------------------------------------------------------------
(* destroy(), abort() and the ticks *)

\* A step that only queues a tick keeps the whole invariant.
LEMMA TouchedGood ==
  ASSUME NEW s, NEW t, Good(s), Touched(s, t), Core(t), t.events = s.events
  PROVE  Good(t)
BY QuietKeeps, RestKept DEF Good

\* abort() tells of itself, and destroys the request.
LEMMA AbortRequestStep == ASSUME RequestIInv, AbortRequest PROVE RequestIInv'
<1> DEFINE s == client
           d == [s EXCEPT !.destroyed = TRUE, !.ticks = Append(@, "abort")]
           t == AbortNative(d)
<1>1. client' = t /\ UNCHANGED <<special, reacts>>
  BY DEF AbortRequest
<1>2. Good(s) /\ s \in Requests /\ TicksOK(s) /\ Core(s)
  BY DEF RequestIInv, Good, Core
<1>3. "abort" \in Ticks \ {"reject"}
  BY DEF Ticks
<1> HIDE DEF s
<1>4. Touched(s, d) /\ TicksOK(d) /\ d.destroyed /\ d.events = s.events
  BY <1>2, <1>3, TickAdded
<1> HIDE DEF d
<1>5. d \in Requests
  BY <1>4 DEF Touched
<1>6. Touched(d, t) /\ t.events = d.events /\ t.ticks = d.ticks
  BY <1>4, <1>5, AbortKeeps
<1> HIDE DEF t
<1>7. Touched(s, t)
  BY <1>4, <1>6, TouchedTwice
<1>8. TicksOK(t)
  BY <1>4, <1>6 DEF TicksOK, Touched
<1>9. Core(t)
  BY <1>2, <1>7, <1>8, TouchedCore
<1>10. Good(t)
  BY <1>2, <1>4, <1>6, <1>7, <1>9, TouchedGood
<1> QED BY <1>1, <1>10, RequestLifted

\* The program destroys the request.
LEMMA HangUpStep == ASSUME RequestIInv, HangUp PROVE RequestIInv'
<1>1. PICK given \in BOOLEAN : client' = DestroyedRequest(client, given)
  BY DEF HangUp
<1>2. Good(client) /\ Core(client) /\ UNCHANGED <<special, reacts>>
  BY DEF HangUp, RequestIInv, Good
<1> DEFINE t == DestroyedRequest(client, given)
<1>3. Touched(client, t) /\ Core(t) /\ t.events = client.events
  BY <1>2, DestroyKeeps
<1>4. client' = t
  BY <1>1
<1> HIDE DEF t
<1>5. Good(t)
  BY <1>2, <1>3, TouchedGood
<1> QED BY <1>2, <1>4, <1>5, RequestLifted

\* A queued tick tells the error or 'abort', and 'close' after it.
LEMMA RequestTickStep == ASSUME RequestIInv, RequestTick PROVE RequestIInv'
<1> DEFINE s == client
           k == Head(s.ticks)
           q == Tail(s.ticks)
           rest == [s EXCEPT !.ticks = q]
<1>1. /\ s.ticks # <<>> /\ UNCHANGED <<special, reacts>>
      /\ client' = CASE k = "reject" -> DestroyedRequest(rest, TRUE)
                     [] k = "error"  -> CloseOnce(Emitted(rest, "error"))
                     [] k = "abort"  -> CloseOnce(Emitted(rest, "abort"))
                     [] k = "quiet"  -> CloseOnce(rest)
  BY DEF RequestTick
<1>2. Good(s) /\ s \in Requests /\ TicksOK(s) /\ Core(s) /\ EventsOK(s) /\ RestOK(s)
  BY DEF RequestIInv, Good, Core
<1> HIDE DEF s
<1>3. /\ q \in Seq(Ticks) /\ Len(q) = Len(s.ticks) - 1 /\ Len(s.ticks) \in Nat \ {0} /\ k = s.ticks[1]
      /\ k \in Ticks /\ \A i \in 1..Len(q) : q[i] = s.ticks[i + 1] /\ i + 1 \in 1..Len(s.ticks)
  BY <1>1, <1>2 DEF Requests
<1>4. k = "reject" \/ s.destroyed
  BY <1>2, <1>3 DEF TicksOK
<1>5. k = "reject" => special = "rejected"
  BY <1>2, <1>3 DEF TicksOK
<1> HIDE DEF k, q
<1>6. rest \in Requests
  BY <1>2, <1>3 DEF Requests
<1>7. /\ SameBody(s, rest) /\ SameEnd(s, rest) /\ SameCalls(s, rest) /\ SameSend(s, rest)
      /\ (rest.destroyed <=> s.destroyed) /\ rest.ticks = q /\ rest.events = s.events
      /\ rest.native = s.native
  BY <1>2 DEF Requests, SameBody, SameEnd, SameCalls, SameSend
<1> HIDE DEF rest
<1>8. TicksOK(rest)
  BY <1>2, <1>3, <1>7 DEF TicksOK
<1>9. Touched(s, rest)
  BY <1>6, <1>7 DEF Touched
<1>10. Core(rest)
  BY <1>2, <1>8, <1>9, TouchedCore
<1>11. Good(rest)
  BY <1>2, <1>7, <1>9, <1>10, TouchedGood
<1>12. CASE k = "reject"
  <2> DEFINE t == DestroyedRequest(rest, TRUE)
  <2>1. Touched(rest, t) /\ Core(t) /\ t.events = rest.events
    BY <1>10, DestroyKeeps
  <2>2. client' = t
    BY <1>1, <1>12
  <2> HIDE DEF t
  <2>3. Good(t)
    BY <1>11, <2>1, TouchedGood
  <2> QED BY <1>1, <2>2, <2>3, RequestLifted
<1>13. ASSUME NEW e \in {"error", "abort"}, k = e PROVE RequestIInv'
  <2> DEFINE t == Emitted(rest, e)
             ev == Append(rest.events, e)
  <2>1. e \in Events /\ rest.events \in Seq(Events) /\ SilentOK(rest.events) /\ rest.destroyed
    BY <1>4, <1>6, <1>7, <1>11, <1>13 DEF Events, Requests, Good, EventsOK
  <2>2. Touched(rest, t) /\ Core(t) /\ t.events = ev
    BY <1>10, <2>1, EmitKeeps
  <2>3. SilentOK(ev)
    BY <2>1, <1>13, EventAdded
  <2>4. client' = CloseOnce(t)
    BY <1>1, <1>13
  <2> HIDE DEF t, ev
  <2>5. t.destroyed /\ ~Plain(t) /\ SilentOK(t.events)
    BY <2>1, <2>2, <2>3 DEF Touched, Plain
  <2>6. RestOK(t)
    BY <2>2, <1>11, RestKept DEF Good
  <2>7. Good(CloseOnce(t))
    BY <2>2, <2>5, <2>6, ClosesRight
  <2> QED BY <1>1, <2>4, <2>7, RequestLifted
<1>14. CASE k = "quiet"
  <2>1. rest.destroyed /\ ~Plain(rest) /\ SilentOK(rest.events) /\ RestOK(rest)
    BY <1>4, <1>7, <1>11, <1>14 DEF Plain, Good, EventsOK
  <2>2. Good(CloseOnce(rest))
    BY <2>1, <1>10, ClosesRight
  <2>3. client' = CloseOnce(rest)
    BY <1>1, <1>14
  <2> QED BY <1>1, <2>2, <2>3, RequestLifted
<1> QED BY <1>3, <1>12, <1>13, <1>14 DEF Ticks

-----------------------------------------------------------------------------
(* The theorem *)

\* Every step of a request keeps the inductive invariant.
LEMMA RequestStep == RequestIInv /\ [RequestNext]_RequestVars => RequestIInv'
<1> SUFFICES ASSUME RequestIInv, [RequestNext]_RequestVars PROVE RequestIInv'
  OBVIOUS
<1>1. CASE UNCHANGED RequestVars
  <2>1. Good(client) /\ client' = client /\ UNCHANGED <<special, reacts>>
    BY <1>1 DEF RequestVars, RequestIInv, Good
  <2> QED BY <2>1, RequestLifted
<1>2. CASE RequestNext
  BY <1>2, WriteRequestStep, EndRequestStep, AbortRequestStep, HangUpStep, StartSettlesStep,
     WriteSettlesStep, ChainRunsStep, RequestTurnStep, AfterChainStep, AfterFlushStep,
     FinishSettlesStep, HostFailsStep, HostAnswersStep, RequestTickStep DEF RequestNext, RequestRuns
<1> QED BY <1>1, <1>2

\* A new request satisfies the inductive invariant.
LEMMA RequestStarts == RequestInit => RequestIInv
<1> SUFFICES ASSUME RequestInit PROVE RequestIInv
  OBVIOUS
<1> DEFINE q == IF special = "rejected" THEN <<"reject">> ELSE <<>>
           e == <<>>
           l == [f \in Flushers |-> "idle"]
           c == [f \in Flushers |-> 0]
<1>1. special \in Specials /\ reacts \subseteq Events
  BY DEF RequestInit
<1>2. /\ e \in Seq(Int) /\ e \in Seq(Events) /\ e \in Seq(Ticks) /\ Len(e) = 0
      /\ l \in [Flushers -> Loops] /\ c \in [Flushers -> Int]
      /\ \A f \in Flushers : l[f] = "idle" /\ c[f] = 0
  BY DEF Loops
<1>3. q \in Seq(Ticks) /\ \A k \in 1..Len(q) : q[k] = "reject" /\ special = "rejected"
  <2>1. CASE special = "rejected"
    BY <2>1 DEF Ticks
  <2>2. CASE special # "rejected"
    <3>1. q = e
      BY <2>2
    <3> QED BY <3>1, <1>2
  <2> QED BY <2>1, <2>2
<1>4. client = [written |-> 0, pending |-> e, buffered |-> 0, needDrain |-> FALSE,
                acked |-> e, ended |-> FALSE, late |-> FALSE, length |-> 0,
                destroyed |-> FALSE, deferred |-> FALSE,
                started |-> FALSE, chain |-> 0, loop |-> l, chunk |-> c, sendAt |-> "none", awaits |-> 0,
                ticks |-> q, events |-> e, body |-> e, native |-> "building"]
  BY DEF RequestInit
<1>5. e = <<>>
  OBVIOUS
<1> HIDE DEF q, e, l, c
<1>6. client \in Requests
  BY <1>2, <1>3, <1>4 DEF Requests, Stages, Natives
<1>7. /\ client.written = 0 /\ client.pending = e /\ client.buffered = 0 /\ client.acked = e
      /\ ~client.ended /\ ~client.late /\ client.length = 0 /\ ~client.destroyed /\ ~client.started
      /\ client.chain = 0 /\ client.loop = l /\ client.chunk = c /\ client.sendAt = "none"
      /\ client.awaits = 0 /\ client.ticks = q /\ client.events = e /\ client.body = e
      /\ client.native = "building"
  BY <1>4
<1>8. "chain" \in Flushers /\ "send" \in Flushers /\ "building" \notin Sent
  BY DEF Flushers, Sent
<1>9. Held(client) = 0
  BY <1>2, <1>7, <1>8 DEF Held, Writes
<1>10. CountsOK(client)
  BY <1>2, <1>7, <1>9, RequestAssumption DEF CountsOK
<1>11. CallsOK(client)
  BY <1>2, <1>5, <1>7, <1>8 DEF CallsOK
<1>12. OrderOK(client)
  BY <1>2, <1>7 DEF OrderOK
<1>13. CleanOK(client)
  BY <1>2, <1>5, <1>7, <1>8, <1>9 DEF CleanOK
<1>14. TicksOK(client)
  BY <1>3, <1>7 DEF TicksOK
<1>15. EventsOK(client) /\ RestOK(client)
  BY <1>2, <1>7 DEF EventsOK, RestOK, SilentOK, HasClosed, PlainOK, Outcome
<1> QED BY <1>1, <1>6, <1>10, <1>11, <1>12, <1>13, <1>14, <1>15 DEF RequestIInv, Core

\* The inductive invariant implies what the runs check.
LEMMA RequestImplied == RequestIInv => RequestInv
<1> SUFFICES ASSUME RequestIInv PROVE RequestInv
  OBVIOUS
<1> DEFINE s == client
<1>1. s \in Requests /\ CountsOK(s) /\ CallsOK(s) /\ OrderOK(s) /\ CleanOK(s) /\ EventsOK(s)
      /\ special \in Specials /\ reacts \subseteq Events /\ RequestChunks \in Nat
  BY RequestAssumption DEF RequestIInv, Core
<1> DEFINE N == RequestChunks
           p == Len(s.pending)
           m == Len(s.body)
<1>2. /\ p \in Nat /\ m \in Nat /\ s.written \in Int /\ s.written <= N /\ 0 <= s.written
      /\ s.pending \in Seq(Int) /\ s.body \in Seq(Int) /\ s.events \in Seq(Events)
      /\ DOMAIN s.events = 1..Len(s.events) /\ DOMAIN s.body = 1..m
      /\ s.pending \in [1..p -> Int] /\ s.body \in [1..m -> Int]
  BY <1>1 DEF Requests, CountsOK
<1>12. N \in Nat
  BY <1>1
<1>3. p <= s.written
  <2>1. Held(s) \in {0, 1} /\ p + Held(s) <= s.buffered /\ s.buffered <= s.written /\ s.buffered \in Int
    BY <1>1 DEF CountsOK, Requests, Held
  <2> HIDE DEF p
  <2> QED BY <2>1, <1>2
<1>4. \A k \in 1..p : s.pending[k] \in 1..N
  <2> DEFINE w == s.written
  <2>1. \A k \in 1..p : s.pending[k] = w - p + k
    BY <1>1 DEF OrderOK
  <2>2. w \in Int /\ p \in Nat /\ w <= N /\ p <= w
    BY <1>2, <1>3
  <2> HIDE DEF w, p, N
  <2>3. \A k \in 1..p : w - p + k \in 1..N
    BY <2>2, <1>12
  <2> QED BY <2>1, <2>3
<1>5. \A k \in 1..m : s.body[k] \in 1..N
  <2>1. \A k \in 1..m : s.body[k] \in Int /\ s.body[k] > 0 /\ s.body[k] <= s.written - p
    BY <1>1, <1>2 DEF OrderOK
  <2> HIDE DEF p, m, N
  <2> HIDE DEF s
  <2> QED BY <2>1, <1>12, <1>2, <1>3
<1>6. s.pending \in Seq(1..N) /\ s.body \in Seq(1..N) /\ s.acked = s.body
  <2>1. s.pending \in [1..p -> 1..N] /\ s.body \in [1..m -> 1..N]
    BY <1>2, <1>4, <1>5
  <2>2. s.acked = s.body
    BY <1>1 DEF OrderOK
  <2> DEFINE T == 1..N
  <2>3. s.pending \in [1..p -> T] /\ s.body \in [1..m -> T] /\ p \in Nat /\ m \in Nat
    BY <2>1, <1>2
  <2> DEFINE u == s.pending
             v == s.body
  <2>4. u \in [1..p -> T] /\ v \in [1..m -> T] /\ p \in Nat /\ m \in Nat
    BY <2>3
  <2> HIDE DEF s, p, m, N, T, u, v
  <2>5. u \in Seq(T)
    BY <2>4
  <2>6. v \in Seq(T)
    BY <2>4
  <2> QED BY <2>5, <2>6, <2>2 DEF T, u, v
<1>7. RequestTypeOK
  <2>1. /\ s.written \in 0..N /\ s.length \in 0..N /\ s.chain \in 0..N /\ s.awaits \in 0..N
        /\ s.buffered \in 0..N
    <3>1. Held(s) \in Nat /\ p + Held(s) <= s.buffered
      BY <1>1 DEF CountsOK, Held
    <3>2. 0 <= s.buffered
      <4> DEFINE h == Held(s)
      <4>1. h \in Nat /\ p \in Nat /\ p + h <= s.buffered /\ s.buffered \in Int
        BY <3>1, <1>1, <1>2 DEF Requests
      <4> HIDE DEF p, h
      <4> QED BY <4>1
    <3> QED BY <3>2, <1>1, <1>2 DEF CountsOK, Requests
  <2>2. s.chunk \in [Flushers -> 0..N]
    <3>1. s.chunk \in [Flushers -> Int] /\ \A f \in Flushers : 0 <= s.chunk[f] /\ s.chunk[f] <= N
      BY <1>1 DEF Requests, CountsOK
    <3>2. \A f \in Flushers : s.chunk[f] \in 0..N
      BY <3>1, <1>1
    <3> QED BY <3>1, <3>2
  <2> HIDE DEF N
  <2>3. s.written \in 0..N /\ s.pending \in Seq(1..N) /\ s.acked \in Seq(1..N) /\ s.body \in Seq(1..N)
    BY <2>1, <1>6
  <2> QED BY <2>1, <2>2, <2>3, <1>1 DEF RequestTypeOK, Requests, Stages, Natives, Loops, Ticks, N
<1>8. OneOutcome /\ OwnCallsNeverMeet
  <2> SUFFICES ASSUME special = "plain", ~s.late, ~s.destroyed
               PROVE  /\ \A i, j \in Outcomes : i = j
                      /\ Happened(s, "close") => Outcomes # {}
                      /\ Happened(s, "error") => s.native = "failed"
    BY DEF OneOutcome, OwnCallsNeverMeet
  <2>1. PlainOK(s)
    BY <1>1 DEF EventsOK, Plain
  <2>2. \A i : i \in Outcomes <=> i \in 1..Len(s.events) /\ Outcome(s.events, i)
    BY <1>2 DEF Outcomes, Outcome
  <2>3. \A e : Happened(s, e) <=> \E i \in 1..Len(s.events) : s.events[i] = e
    BY <1>2 DEF Happened, Contains
  <2>4. Happened(s, "close") <=> HasClosed(s.events)
    BY <2>3 DEF HasClosed
  <2> QED BY <2>1, <2>2, <2>3, <2>4 DEF PlainOK
<1>9. SilentAfterDestroy
  BY <1>1, <1>2 DEF SilentAfterDestroy, EventsOK, SilentOK
<1>10. BodyAsWritten
  <2> SUFFICES ASSUME s.native \in Sent, ~s.late
               PROVE  s.body = [i \in 1..s.written |-> i] /\ s.length = s.written
    BY DEF BodyAsWritten, Sent
  <2>1. Full(s) /\ (s.ended => s.length = s.written)
    BY <1>1 DEF CleanOK
  <2>2. s.ended
    BY <1>1 DEF CallsOK
  <2>3. m = s.written /\ \A k \in 1..m : s.body[k] = k
    BY <2>1 DEF Full
  <2> HIDE DEF m
  <2>4. s.body = [i \in 1..s.written |-> i]
    BY <2>3, <1>2
  <2> QED BY <2>1, <2>2, <2>4
<1>11. AckedInOrder
  <2>1. IsPrefix(s.acked, s.body)
    <3>1. s.body = SubSeq(s.body, 1, Len(s.body))
      BY <1>2
    <3> QED BY <1>6, <1>2, <3>1 DEF IsPrefix
  <2>2. \A i, j \in DOMAIN s.acked : i < j => s.acked[i] < s.acked[j]
    BY <1>1, <1>2, <1>6 DEF OrderOK
  <2> QED BY <2>1, <2>2 DEF AckedInOrder
<1> QED BY <1>7, <1>8, <1>9, <1>10, <1>11 DEF RequestInv

\* For any number of chunks, whatever the listeners do and whenever the request is destroyed:
\* the host is given all that was written before end(), in order, the callbacks of the writes
\* come in order for what it has, no two calls of the native request meet, and the program
\* hears of one outcome, and of none after 'close'.
THEOREM RequestsAreSafe == RequestSpec => []RequestInv
<1>1. RequestInit => RequestIInv
  BY RequestStarts
<1>2. RequestIInv /\ [RequestNext]_RequestVars => RequestIInv'
  BY RequestStep
<1>3. RequestIInv => RequestInv
  BY RequestImplied
<1> QED BY <1>1, <1>2, <1>3, PTL DEF RequestSpec
=============================================================================
