---------------------------- MODULE BuildProofs -----------------------------
(***************************************************************************)
(* Proofs about Build, for any assets, contents, compressions, numbers of  *)
(* scripts and number of edits.                                            *)
(***************************************************************************)
EXTENDS Build, TLAPS

-----------------------------------------------------------------------------
(* The inductive invariant *)

\* The histories hold what the build would read now.
Watched ==
    status = "running" =>
        /\ pc \in BeforeWrite \ {"prebuild"} => disk[SourceKey] \in during[SourceKey]
        /\ pc = "embed" => \A k \in Assets : disk[k] \in during[k]

\* The snapshot grows by the bundle, then by the listed files one by one.
Assembled ==
    /\ pc \notin {"prebuild", "bundle"} =>
         image[SourceKey] # Absent /\ image[SourceKey] \in during[SourceKey]
    /\ pc \in {"prebuild", "bundle", "compress", "load"} =>
         \A k \in Assets : image[k] = Absent
    /\ pc = "embed" =>
         \A k \in Assets :
            /\ k \in listed => k \in found
            /\ image[k] # Absent <=> k \in found \ listed
            /\ k \in found \ listed => image[k] \in during[k]

\* An asset nobody edits is waiting, is being compressed, or has its variants.
Compressed ==
    /\ pc \in {"prebuild", "bundle"} => left = {}
    /\ status = "running" =>
        \A n \in Names \ touched :
            /\ pc = "compress" =>
                 /\ \A g \in Precompress : <<n, g>> \in left => held = disk[<<n, "identity">>]
                 /\ disk[<<n, "identity">>] # Absent /\ n \notin pending =>
                      \A g \in Precompress :
                         <<n, g>> \in left \/ disk[<<n, g>>] = disk[<<n, "identity">>]
            /\ pc \in {"load", "embed"} /\ disk[<<n, "identity">>] # Absent =>
                 \A g \in Precompress : disk[<<n, g>>] = disk[<<n, "identity">>]

\* What is embedded of it is what the directory still holds.
Unedited ==
    status = "running" /\ pc = "embed" =>
        \A n \in Names \ touched, g \in Codings :
            /\ <<n, g>> \in found <=> disk[<<n, g>>] # Absent
            /\ <<n, g>> \in found \ listed => image[<<n, g>>] = disk[<<n, g>>]

IInv ==
    /\ TypeOK
    /\ Watched /\ Assembled /\ Compressed /\ Unedited
    /\ EmbedsTheDirectory /\ FreshVariants /\ KeptOrReplaced

-----------------------------------------------------------------------------
(* Lemmas about the keys *)

LEMMA AssetKeys ==
    /\ SourceKey \in Keys /\ SourceKey \notin Assets
    /\ Keys = Assets \cup {SourceKey} /\ Variants \subseteq Assets
    /\ \A n \in Names, g \in Codings : <<n, g>> \in Assets /\ <<n, g>> \in Keys
    /\ \A n \in Names, g \in Precompress :
          <<n, g>> \in Assets /\ <<n, g>> \in Variants /\ g # "identity" /\ g \in Codings
    /\ \A n \in Names : <<n, "identity">> \in Assets /\ <<n, "identity">> \notin Variants
    /\ \A k \in Keys : k[1] \in Names \cup {Source}
BY SourceIsNoAsset, PrecompressAssumption
   DEF Keys, Assets, SourceKey, Variants, Codings

LEMMA EmptyIsImage == Empty \in Images /\ \A k \in Keys : Empty[k] = Absent
BY DEF Empty, Images

-----------------------------------------------------------------------------
(* Every variable keeps its type *)

LEMMA TypingInit == Init => TypeOK
<1> SUFFICES ASSUME Init PROVE TypeOK
  OBVIOUS
<1>1. /\ disk \in Images /\ edits \in 0..MaxEdits
      /\ status \in {"idle", "running", "failed", "killed", "built"} /\ pc \in Stages
      /\ ran \in Nat /\ ran <= IF pc = "postbuild" THEN Postbuild ELSE Prebuild
  BY EditsAreBounded, ScriptsAssumption DEF Init, Stages
<1>2. /\ pending \subseteq Names /\ held \in Contents \cup {Absent}
      /\ left \subseteq Variants /\ listed \subseteq Assets /\ image \in Images
      /\ found \subseteq Assets /\ touched \subseteq Names \cup {Source}
  BY EmptyIsImage DEF Init
<1>3. /\ out \in [state: {"missing", "torn", "whole"}, image: Images]
      /\ previous \in [state: {"missing", "torn", "whole"}, image: Images]
  BY EmptyIsImage DEF Init, Missing
<1>4. during \in [Keys -> SUBSET (Contents \cup {Absent})]
  BY DEF Init
<1>5. QED
  BY <1>1, <1>2, <1>3, <1>4 DEF TypeOK

LEMMA TypingStep == TypeOK /\ [Next]_vars => TypeOK'
<1> SUFFICES ASSUME TypeOK, [Next]_vars PROVE TypeOK'
  OBVIOUS
<1> USE DEF inputs, compressing, histories
<1>1. ASSUME NEW k \in Keys, NEW x \in Contents \cup {Absent}, Edit(k, x)
      PROVE  TypeOK'
  <2>1. disk' \in Images /\ edits' \in 0..MaxEdits
    BY <1>1, EditsAreBounded DEF TypeOK, Edit, Images
  <2>2. during' \in [Keys -> SUBSET (Contents \cup {Absent})]
    BY <1>1 DEF TypeOK, Edit, Witness
  <2>3. pending' \subseteq Names /\ touched' \subseteq Names \cup {Source}
    BY <1>1, AssetKeys DEF TypeOK, Edit
  <2>4. QED
    BY <1>1, <2>1, <2>2, <2>3 DEF TypeOK, Edit
<1>2. CASE Start
  BY <1>2, EmptyIsImage, ScriptsAssumption DEF TypeOK, Start, Stages
<1>3. CASE Script
  BY <1>3, ScriptsAssumption DEF TypeOK, Script, Running
<1>4. CASE EndPrebuild
  <2>1. during' \in [Keys -> SUBSET (Contents \cup {Absent})]
    BY <1>4 DEF TypeOK, EndPrebuild, Images
  <2>2. QED
    BY <1>4, <2>1 DEF TypeOK, EndPrebuild, Running, Stages
<1>5. CASE EndPostbuild
  BY <1>5 DEF TypeOK, EndPostbuild
<1>6. CASE Bundle
  <2>1. image' \in Images
    BY <1>6, AssetKeys DEF TypeOK, Bundle, Images
  <2>2. pending' \subseteq Names /\ pc' \in {"load", "compress"}
    BY <1>6 DEF TypeOK, Bundle
  <2>3. QED
    BY <1>6, <2>1, <2>2 DEF TypeOK, Bundle, Running, Stages
<1>7. ASSUME NEW n \in Names, Read(n)
      PROVE  TypeOK'
  BY <1>7, AssetKeys DEF TypeOK, Read, Images
<1>8. ASSUME NEW k \in Variants, WriteVariant(k)
      PROVE  TypeOK'
  <2>1. disk' \in Images
    BY <1>8, AssetKeys DEF TypeOK, WriteVariant, Images
  <2>2. during' \in [Keys -> SUBSET (Contents \cup {Absent})]
    BY <1>8 DEF TypeOK, WriteVariant, Witness
  <2>3. QED
    BY <1>8, <2>1, <2>2 DEF TypeOK, WriteVariant
<1>9. CASE EndCompress
  BY <1>9 DEF TypeOK, EndCompress, Running, Stages
<1>10. CASE Load
  <2>1. during' \in [Keys -> SUBSET (Contents \cup {Absent})]
    BY <1>10 DEF TypeOK, Load, Images
  <2>2. QED
    BY <1>10, <2>1 DEF TypeOK, Load, Running, Stages
<1>11. ASSUME NEW k \in Assets, Embed(k)
       PROVE  TypeOK'
  <2>1. image' \in Images
    BY <1>11, AssetKeys DEF TypeOK, Embed, Images
  <2>2. QED
    BY <1>11, <2>1 DEF TypeOK, Embed
<1>12. CASE Freeze
  BY <1>12 DEF TypeOK, Freeze, Running, Stages
<1>13. CASE Truncate
  BY <1>13, EmptyIsImage DEF TypeOK, Truncate, Torn
<1>14. CASE Fill
  BY <1>14, ScriptsAssumption DEF TypeOK, Fill, Whole, Stages
<1>15. CASE Fail
  BY <1>15 DEF TypeOK, Fail
<1>16. CASE Kill
  BY <1>16 DEF TypeOK, Kill
<1>17. CASE UNCHANGED vars
  BY <1>17 DEF TypeOK, vars
<1>18. QED
  BY <1>1, <1>2, <1>3, <1>4, <1>5, <1>6, <1>7, <1>8, <1>9, <1>10, <1>11, <1>12, <1>13,
     <1>14, <1>15, <1>16, <1>17 DEF Next

-----------------------------------------------------------------------------
(* The invariant holds initially and is kept by every step *)

LEMMA Initially == Init => IInv
<1> SUFFICES ASSUME Init PROVE IInv
  OBVIOUS
<1>1. TypeOK
  BY TypingInit
<1>2. Watched /\ Compressed /\ Unedited
  BY DEF Init, Watched, Compressed, Unedited, Stages
<1>3. Assembled
  BY AssetKeys, EmptyIsImage DEF Init, Assembled
<1>4. EmbedsTheDirectory /\ FreshVariants /\ KeptOrReplaced
  BY DEF Init, EmbedsTheDirectory, FreshVariants, KeptOrReplaced, BeforeWrite, Stages
<1>5. QED
  BY <1>1, <1>2, <1>3, <1>4 DEF IInv

LEMMA WatchedStep == IInv /\ [Next]_vars => Watched'
<1> SUFFICES ASSUME IInv, [Next]_vars PROVE Watched'
  OBVIOUS
<1> USE AssetKeys DEF inputs, compressing, histories, Running, IInv, TypeOK, BeforeWrite, Stages
<1>1. ASSUME NEW k \in Keys, NEW x \in Contents \cup {Absent}, Edit(k, x)
      PROVE  Watched'
  BY <1>1 DEF Watched, Edit, Witness, Images
<1>2. CASE Start
  BY <1>2 DEF Watched, Start
<1>3. CASE Script
  BY <1>3 DEF Watched, Script
<1>4. CASE EndPrebuild
  BY <1>4 DEF Watched, EndPrebuild
<1>5. CASE EndPostbuild
  BY <1>5 DEF Watched, EndPostbuild
<1>6. CASE Bundle
  BY <1>6 DEF Watched, Bundle
<1>7. ASSUME NEW n \in Names, Read(n)
      PROVE  Watched'
  BY <1>7 DEF Watched, Read
<1>8. ASSUME NEW k \in Variants, WriteVariant(k)
      PROVE  Watched'
  BY <1>8 DEF Watched, WriteVariant, Witness, Images
<1>9. CASE EndCompress
  BY <1>9 DEF Watched, EndCompress
<1>10. CASE Load
  BY <1>10 DEF Watched, Load
<1>11. ASSUME NEW k \in Assets, Embed(k)
       PROVE  Watched'
  BY <1>11 DEF Watched, Embed
<1>12. CASE Freeze \/ Truncate \/ Fill
  BY <1>12 DEF Watched, Freeze, Truncate, Fill
<1>13. CASE Fail \/ Kill
  BY <1>13 DEF Watched, Fail, Kill
<1>14. CASE UNCHANGED vars
  BY <1>14 DEF Watched, vars
<1>15. QED
  BY <1>1, <1>2, <1>3, <1>4, <1>5, <1>6, <1>7, <1>8, <1>9, <1>10, <1>11, <1>12, <1>13, <1>14
     DEF Next

\* Edits only add to the histories.
LEMMA HistoriesGrow ==
    ASSUME TypeOK, NEW k \in Keys, NEW x, Witness(k, x)
    PROVE  \A j \in Keys : during[j] \subseteq during'[j]
BY DEF TypeOK, Witness

LEMMA AssembledStep == IInv /\ [Next]_vars => Assembled' /\ EmbedsTheDirectory'
<1> SUFFICES ASSUME IInv, [Next]_vars PROVE Assembled' /\ EmbedsTheDirectory'
  OBVIOUS
<1> USE AssetKeys DEF inputs, compressing, histories, Running, IInv
<1>1. ASSUME NEW k \in Keys, NEW x, Witness(k, x),
             UNCHANGED <<pc, listed, image, found>>
      PROVE  Assembled' /\ EmbedsTheDirectory'
  <2>1. \A j \in Keys : during[j] \subseteq during'[j]
    BY <1>1, HistoriesGrow
  <2>2. found \subseteq Assets
    BY DEF TypeOK
  <2>3. Assembled'
    BY <1>1, <2>1 DEF Assembled
  <2>4. EmbedsTheDirectory'
    BY <1>1, <2>1, <2>2 DEF EmbedsTheDirectory
  <2>5. QED
    BY <2>3, <2>4
<1>2. ASSUME NEW k \in Keys, NEW x \in Contents \cup {Absent}, Edit(k, x)
      PROVE  Assembled' /\ EmbedsTheDirectory'
  BY <1>1, <1>2 DEF Edit
<1>3. CASE Start
  BY <1>3, EmptyIsImage DEF Assembled, EmbedsTheDirectory, Start
<1>4. CASE Script \/ EndPostbuild
  BY <1>4 DEF Assembled, EmbedsTheDirectory, Script, EndPostbuild
<1>5. CASE EndPrebuild
  BY <1>5 DEF Assembled, EmbedsTheDirectory, EndPrebuild
<1>6. CASE Bundle
  <2>1. disk[SourceKey] \in during[SourceKey]
    BY <1>6 DEF Bundle, Watched, BeforeWrite, Stages
  <2>2. /\ image'[SourceKey] = disk[SourceKey]
        /\ \A k \in Assets : image'[k] = image[k]
    BY <1>6 DEF Bundle, TypeOK, Images
  <2>3. /\ \A k \in Assets : image[k] = Absent
        /\ disk[SourceKey] # Absent /\ pc' \in {"compress", "load"}
        /\ during' = during
    BY <1>6 DEF Bundle, Assembled
  <2>4. QED
    BY <2>1, <2>2, <2>3 DEF Assembled, EmbedsTheDirectory
<1>7. ASSUME NEW n \in Names, Read(n)
      PROVE  Assembled' /\ EmbedsTheDirectory'
  BY <1>7 DEF Assembled, EmbedsTheDirectory, Read
<1>8. ASSUME NEW k \in Variants, WriteVariant(k)
      PROVE  Assembled' /\ EmbedsTheDirectory'
  BY <1>1, <1>8 DEF WriteVariant
<1>9. CASE EndCompress
  BY <1>9 DEF Assembled, EmbedsTheDirectory, EndCompress
<1>10. CASE Load
  <2>1. during'[SourceKey] = during[SourceKey]
    BY <1>10 DEF Load
  <2>2. QED
    BY <1>10, <2>1 DEF Assembled, EmbedsTheDirectory, Load
<1>11. ASSUME NEW k \in Assets, Embed(k)
       PROVE  Assembled' /\ EmbedsTheDirectory'
  <2>1. disk[k] \in during[k] /\ disk[k] # Absent /\ k \in listed
    BY <1>11 DEF Embed, Watched
  <2>2. \A j \in Keys : image'[j] = IF j = k THEN disk[k] ELSE image[j]
    BY <1>11 DEF Embed, TypeOK, Images
  <2>3. pc = "embed" /\ listed' = listed \ {k} /\ UNCHANGED <<pc, found, during>>
    BY <1>11 DEF Embed
  <2>4. QED
    BY <2>1, <2>2, <2>3 DEF Assembled, EmbedsTheDirectory
<1>12. CASE Freeze
  <2>1. pc = "embed" /\ listed = {} /\ pc' = "write" /\ UNCHANGED <<listed, image, found, during>>
    BY <1>12 DEF Freeze
  <2>2. \A k \in Assets : /\ image[k] # Absent <=> k \in found
                          /\ k \in found => image[k] \in during[k]
    BY <2>1 DEF Assembled
  <2>3. image[SourceKey] # Absent /\ image[SourceKey] \in during[SourceKey]
    BY <2>1 DEF Assembled
  <2>4. found \subseteq Assets
    BY DEF TypeOK
  <2>5. ASSUME NEW k \in Keys
        PROVE  /\ image[k] # Absent <=> k \in found \cup {SourceKey}
               /\ k \in found \cup {SourceKey} => image[k] \in during[k]
    <3>1. CASE k = SourceKey
      BY <2>3, <3>1
    <3>2. CASE k \in Assets
      BY <2>2, <3>2
    <3>3. QED
      BY <3>1, <3>2
  <2>6. found \cup {SourceKey} \subseteq Keys
    BY <2>4
  <2>7. EmbedsTheDirectory'
    BY <2>1, <2>5, <2>6 DEF EmbedsTheDirectory
  <2>8. QED
    BY <2>1, <2>3, <2>7 DEF Assembled
<1>13. CASE Truncate
  BY <1>13 DEF Assembled, EmbedsTheDirectory, Truncate
<1>14. CASE Fill
  BY <1>14 DEF Assembled, EmbedsTheDirectory, Fill
<1>15. CASE Fail \/ Kill
  BY <1>15 DEF Assembled, EmbedsTheDirectory, Fail, Kill
<1>16. CASE UNCHANGED vars
  BY <1>16 DEF Assembled, EmbedsTheDirectory, vars
<1>17. QED
  BY <1>2, <1>3, <1>4, <1>5, <1>6, <1>7, <1>8, <1>9, <1>10, <1>11, <1>12, <1>13, <1>14,
     <1>15, <1>16 DEF Next

LEMMA CompressedStep == IInv /\ [Next]_vars => Compressed'
<1> SUFFICES ASSUME IInv, [Next]_vars PROVE Compressed'
  OBVIOUS
<1> USE AssetKeys DEF inputs, compressing, histories, Running, IInv
<1>1. ASSUME NEW k \in Keys, NEW x \in Contents \cup {Absent}, Edit(k, x)
      PROVE  Compressed'
  <2> SUFFICES ASSUME status = "running", NEW n \in Names \ touched'
               PROVE  /\ pc = "compress" =>
                           /\ \A g \in Precompress :
                                <<n, g>> \in left => held = disk'[<<n, "identity">>]
                           /\ disk'[<<n, "identity">>] # Absent /\ n \notin pending' =>
                                \A g \in Precompress :
                                   <<n, g>> \in left \/ disk'[<<n, g>>] = disk'[<<n, "identity">>]
                      /\ pc \in {"load", "embed"} /\ disk'[<<n, "identity">>] # Absent =>
                           \A g \in Precompress : disk'[<<n, g>>] = disk'[<<n, "identity">>]
    BY <1>1 DEF Edit, Compressed
  <2>1. n \in Names \ touched /\ n # k[1]
    BY <1>1 DEF Edit
  <2>2. \A g \in Codings : disk'[<<n, g>>] = disk[<<n, g>>]
    BY <1>1, <2>1 DEF Edit, TypeOK, Images
  <2>3. n \in pending' <=> n \in pending
    BY <1>1, <2>1 DEF Edit
  <2>4. QED
    BY <2>1, <2>2, <2>3 DEF Compressed, Codings
<1>2. CASE Start
  BY <1>2 DEF Compressed, Start
<1>3. CASE Script \/ EndPrebuild \/ EndPostbuild
  BY <1>3 DEF Compressed, Script, EndPrebuild, EndPostbuild
<1>4. CASE Bundle
  <2>1. CASE Precompress = {}
    BY <1>4, <2>1 DEF Compressed, Bundle
  <2>2. CASE Precompress # {}
    BY <1>4, <2>2 DEF Compressed, Bundle, TypeOK, Variants
  <2>3. QED
    BY <2>1, <2>2
<1>5. ASSUME NEW m \in Names, Read(m)
      PROVE  Compressed'
  BY <1>5 DEF Compressed, Read
<1>6. ASSUME NEW k \in Variants, WriteVariant(k)
      PROVE  Compressed'
  <2> SUFFICES ASSUME NEW n \in Names \ touched
               PROVE  /\ \A g \in Precompress :
                            <<n, g>> \in left' => held = disk'[<<n, "identity">>]
                      /\ disk'[<<n, "identity">>] # Absent /\ n \notin pending =>
                            \A g \in Precompress :
                               <<n, g>> \in left' \/ disk'[<<n, g>>] = disk'[<<n, "identity">>]
    BY <1>6 DEF WriteVariant, Compressed
  <2>1. /\ status = "running" /\ pc = "compress" /\ k \in left /\ left' = left \ {k}
        /\ \A j \in Keys : disk'[j] = IF j = k THEN held ELSE disk[j]
    BY <1>6 DEF WriteVariant, TypeOK, Images
  <2>2. disk'[<<n, "identity">>] = disk[<<n, "identity">>]
    BY <2>1
  <2>3. \A g \in Precompress : <<n, g>> \in left => held = disk[<<n, "identity">>]
    BY <2>1 DEF Compressed
  <2>4. ASSUME disk[<<n, "identity">>] # Absent, n \notin pending, NEW g \in Precompress,
               <<n, g>> \notin left'
        PROVE  disk'[<<n, g>>] = disk[<<n, "identity">>]
    <3>1. CASE <<n, g>> = k
      BY <2>1, <2>3, <3>1
    <3>2. CASE <<n, g>> # k
      BY <2>1, <2>4, <3>2 DEF Compressed
    <3>3. QED
      BY <3>1, <3>2
  <2>5. QED
    BY <2>1, <2>2, <2>3, <2>4
<1>7. CASE EndCompress
  BY <1>7 DEF Compressed, EndCompress
<1>8. CASE Load
  BY <1>8 DEF Compressed, Load
<1>9. ASSUME NEW k \in Assets, Embed(k)
      PROVE  Compressed'
  BY <1>9 DEF Compressed, Embed
<1>10. CASE Freeze \/ Truncate \/ Fill
  BY <1>10 DEF Compressed, Freeze, Truncate, Fill
<1>11. CASE Fail \/ Kill
  BY <1>11 DEF Compressed, Fail, Kill
<1>12. CASE UNCHANGED vars
  BY <1>12 DEF Compressed, vars
<1>13. QED
  BY <1>1, <1>2, <1>3, <1>4, <1>5, <1>6, <1>7, <1>8, <1>9, <1>10, <1>11, <1>12 DEF Next

LEMMA UneditedStep == IInv /\ [Next]_vars => Unedited'
<1> SUFFICES ASSUME IInv, [Next]_vars PROVE Unedited'
  OBVIOUS
<1> USE AssetKeys DEF inputs, compressing, histories, Running, IInv
<1>1. ASSUME NEW k \in Keys, NEW x \in Contents \cup {Absent}, Edit(k, x)
      PROVE  Unedited'
  <2>1. \A n \in Names \ touched' : n \in Names \ touched /\ n # k[1]
    BY <1>1 DEF Edit
  <2>2. ASSUME NEW n \in Names \ touched', NEW g \in Codings
        PROVE  disk'[<<n, g>>] = disk[<<n, g>>]
    <3>1. <<n, g>> # k
      BY <2>1
    <3>2. QED
      BY <1>1, <3>1 DEF Edit, TypeOK, Images
  <2>3. UNCHANGED <<status, pc, found, listed, image>>
    BY <1>1 DEF Edit
  <2>4. QED
    BY <2>1, <2>2, <2>3 DEF Unedited
<1>2. CASE Start
  BY <1>2 DEF Unedited, Start
<1>3. CASE Script \/ EndPrebuild \/ EndPostbuild
  BY <1>3 DEF Unedited, Script, EndPrebuild, EndPostbuild
<1>4. CASE Bundle
  BY <1>4 DEF Unedited, Bundle
<1>5. ASSUME NEW m \in Names, Read(m)
      PROVE  Unedited'
  BY <1>5 DEF Unedited, Read
<1>6. ASSUME NEW k \in Variants, WriteVariant(k)
      PROVE  Unedited'
  BY <1>6 DEF Unedited, WriteVariant
<1>7. CASE EndCompress
  BY <1>7 DEF Unedited, EndCompress
<1>8. CASE Load
  BY <1>8 DEF Unedited, Load
<1>9. ASSUME NEW k \in Assets, Embed(k)
      PROVE  Unedited'
  <2>1. \A j \in Keys : image'[j] = IF j = k THEN disk[k] ELSE image[j]
    BY <1>9 DEF Embed, TypeOK, Images
  <2>2. /\ status = "running" /\ pc = "embed" /\ listed' = listed \ {k}
        /\ UNCHANGED <<disk, touched, found, status, pc>>
    BY <1>9 DEF Embed
  <2>3. ASSUME NEW n \in Names \ touched, NEW g \in Codings
        PROVE  /\ <<n, g>> \in found <=> disk[<<n, g>>] # Absent
               /\ <<n, g>> \in found \ listed' => image'[<<n, g>>] = disk[<<n, g>>]
    <3>1. /\ <<n, g>> \in found <=> disk[<<n, g>>] # Absent
          /\ <<n, g>> \in found \ listed => image[<<n, g>>] = disk[<<n, g>>]
      BY <2>2 DEF Unedited
    <3>2. image'[<<n, g>>] = IF <<n, g>> = k THEN disk[k] ELSE image[<<n, g>>]
      BY <2>1
    <3>3. QED
      BY <2>2, <3>1, <3>2
  <2>4. QED
    BY <2>2, <2>3 DEF Unedited
<1>10. CASE Freeze \/ Truncate \/ Fill
  BY <1>10 DEF Unedited, Freeze, Truncate, Fill
<1>11. CASE Fail \/ Kill
  BY <1>11 DEF Unedited, Fail, Kill
<1>12. CASE UNCHANGED vars
  BY <1>12 DEF Unedited, vars
<1>13. QED
  BY <1>1, <1>2, <1>3, <1>4, <1>5, <1>6, <1>7, <1>8, <1>9, <1>10, <1>11, <1>12 DEF Next

LEMMA FreshVariantsStep == IInv /\ [Next]_vars => FreshVariants'
<1> SUFFICES ASSUME IInv, [Next]_vars PROVE FreshVariants'
  OBVIOUS
<1> USE AssetKeys DEF inputs, compressing, histories, Running, IInv
<1>1. CASE \E k \in Keys, x \in Contents \cup {Absent} : Edit(k, x)
  BY <1>1 DEF FreshVariants, Edit
<1>2. CASE Start
  BY <1>2 DEF FreshVariants, Start
<1>3. CASE Script \/ EndPrebuild \/ EndPostbuild
  BY <1>3 DEF FreshVariants, Script, EndPrebuild, EndPostbuild
<1>4. CASE Bundle
  BY <1>4 DEF FreshVariants, Bundle
<1>5. CASE \/ \E n \in Names : Read(n)
           \/ \E k \in Variants : WriteVariant(k)
  BY <1>5 DEF FreshVariants, Read, WriteVariant
<1>6. CASE EndCompress \/ Load
  BY <1>6 DEF FreshVariants, EndCompress, Load
<1>7. CASE \E k \in Assets : Embed(k)
  BY <1>7 DEF FreshVariants, Embed
<1>8. CASE Freeze
  <2>1. /\ status = "running" /\ pc = "embed" /\ listed = {}
        /\ UNCHANGED <<image, touched>>
    BY <1>8 DEF Freeze
  <2> SUFFICES ASSUME NEW n \in Names \ touched, image[<<n, "identity">>] # Absent,
                      NEW g \in Precompress
               PROVE  image[<<n, g>>] = image[<<n, "identity">>]
    BY <2>1 DEF FreshVariants
  <2>2. <<n, "identity">> \in found
    BY <2>1 DEF Assembled
  <2>3. /\ disk[<<n, "identity">>] # Absent
        /\ image[<<n, "identity">>] = disk[<<n, "identity">>]
    BY <2>1, <2>2 DEF Unedited, Codings
  <2>4. disk[<<n, g>>] = disk[<<n, "identity">>]
    BY <2>1, <2>3 DEF Compressed
  <2>5. <<n, g>> \in found /\ image[<<n, g>>] = disk[<<n, g>>]
    BY <2>1, <2>3, <2>4 DEF Unedited
  <2>6. QED
    BY <2>3, <2>4, <2>5
<1>9. CASE Truncate \/ Fill
  BY <1>9 DEF FreshVariants, Truncate, Fill
<1>10. CASE Fail \/ Kill
  BY <1>10 DEF FreshVariants, Fail, Kill
<1>11. CASE UNCHANGED vars
  BY <1>11 DEF FreshVariants, vars
<1>12. QED
  BY <1>1, <1>2, <1>3, <1>4, <1>5, <1>6, <1>7, <1>8, <1>9, <1>10, <1>11 DEF Next

LEMMA KeptOrReplacedStep == IInv /\ [Next]_vars => KeptOrReplaced'
<1> SUFFICES ASSUME IInv, [Next]_vars PROVE KeptOrReplaced'
  OBVIOUS
<1> USE DEF inputs, compressing, histories, Running, IInv, BeforeWrite, Stages, Whole, Torn
<1>1. CASE \E k \in Keys, x \in Contents \cup {Absent} : Edit(k, x)
  BY <1>1 DEF KeptOrReplaced, Edit
<1>2. CASE Start
  BY <1>2 DEF KeptOrReplaced, Start
<1>3. CASE Script \/ EndPrebuild \/ EndPostbuild
  BY <1>3 DEF KeptOrReplaced, Script, EndPrebuild, EndPostbuild
<1>4. CASE Bundle
  BY <1>4 DEF KeptOrReplaced, Bundle
<1>5. CASE \/ \E n \in Names : Read(n)
           \/ \E k \in Variants : WriteVariant(k)
  BY <1>5 DEF KeptOrReplaced, Read, WriteVariant
<1>6. CASE EndCompress \/ Load
  BY <1>6 DEF KeptOrReplaced, EndCompress, Load
<1>7. CASE \E k \in Assets : Embed(k)
  BY <1>7 DEF KeptOrReplaced, Embed
<1>8. CASE Freeze
  BY <1>8 DEF KeptOrReplaced, Freeze
<1>9. CASE Truncate \/ Fill
  BY <1>9 DEF KeptOrReplaced, Truncate, Fill
<1>10. CASE Fail \/ Kill
  BY <1>10 DEF KeptOrReplaced, Fail, Kill
<1>11. CASE UNCHANGED vars
  BY <1>11 DEF KeptOrReplaced, vars
<1>12. QED
  BY <1>1, <1>2, <1>3, <1>4, <1>5, <1>6, <1>7, <1>8, <1>9, <1>10, <1>11 DEF Next

LEMMA Inductive == Spec => []IInv
<1>1. IInv /\ [Next]_vars => IInv'
  BY TypingStep, WatchedStep, AssembledStep, CompressedStep, UneditedStep,
     FreshVariantsStep, KeptOrReplacedStep DEF IInv
<1>2. QED
  BY Initially, <1>1, PTL DEF Spec

-----------------------------------------------------------------------------
(* The theorems *)

\* Every variable keeps its type.
THEOREM TypeCorrect == Spec => []TypeOK
<1>1. IInv => TypeOK
  BY DEF IInv
<1>2. QED
  BY Inductive, <1>1, PTL

\* A Wasm that is written holds the files that were listed, all of them, with
\* bytes they held meanwhile, and a bundle of after the prebuild scripts.
THEOREM SnapshotsAreComplete == Spec => []EmbedsTheDirectory
<1>1. IInv => EmbedsTheDirectory
  BY DEF IInv
<1>2. QED
  BY Inductive, <1>1, PTL

\* The variants in a Wasm are compressed from the asset that is in it, unless
\* somebody edited that asset during the build.
THEOREM VariantsMatch == Spec => []FreshVariants
<1>1. IInv => FreshVariants
  BY DEF IInv
<1>2. QED
  BY Inductive, <1>1, PTL

\* Whatever fails, and whenever the build is killed, before the output file is
\* written it is that of the build before, and after it is the new one, whole.
THEOREM FailuresKeepTheOutput == Spec => []KeptOrReplaced
<1>1. IInv => KeptOrReplaced
  BY DEF IInv
<1>2. QED
  BY Inductive, <1>1, PTL

=============================================================================
