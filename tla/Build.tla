------------------------------- MODULE Build --------------------------------
(***************************************************************************)
(* `kyu build`: the prebuild scripts, the bundling of the JavaScript, the  *)
(* compression of the assets, their listing, the pre-initialization of the *)
(* worker by Wizer (which reads the listed assets one by one), the write   *)
(* of the Wasm and the postbuild scripts.  The developer and the scripts   *)
(* change the source and the assets directory at any moment, any step can  *)
(* fail, and the build can be killed and started again.                    *)
(*                                                                         *)
(* A key is a pair of a stem and a coding: an asset, or a variant of it,   *)
(* and the JavaScript source under the stem Source.  The content of a      *)
(* variant is the content it was compressed from.                          *)
(***************************************************************************)
EXTENDS Naturals

CONSTANTS Names,        \* the assets there may be
          Source,       \* the stem of the JavaScript source
          Contents,     \* what a file can hold
          Absent,       \* the content of a file that does not exist
          Precompress,  \* the codings of assets.precompress
          Prebuild,     \* number of prebuild scripts
          Postbuild,    \* number of postbuild scripts
          MaxEdits      \* bound: changes of the source and of the directory

ASSUME SourceIsNoAsset == Source \notin Names
ASSUME AbsentIsNoContent == Absent \notin Contents
ASSUME PrecompressAssumption == Precompress \subseteq {"br", "gz"}
ASSUME ScriptsAssumption == Prebuild \in Nat /\ Postbuild \in Nat
ASSUME EditsAreBounded == MaxEdits \in Nat

VARIABLES disk,      \* the source and the assets directory
          edits,     \* changes so far (the bound's counter)
          status,    \* of the build: running, or how it ended
          pc,        \* the stage the build is in, or stopped in
          ran,       \* scripts of this stage that have succeeded
          pending,   \* assets the walk of precompress_assets has yet to return
          held,      \* the bytes precompress_assets has read
          left,      \* variants of them it has yet to write
          listed,    \* files load_assets found and Wizer has yet to read
          image,     \* the snapshot: the bundle and the assets read so far
          out,       \* the output file
          previous,  \* history: the output file when the build began
          found,     \* history: the files load_assets listed
          during,    \* history: what each asset held since, and the source since
                     \* the prebuild scripts
          touched    \* history: stems edited since the compression began

inputs == <<disk, edits>>
compressing == <<pending, held, left>>
histories == <<previous, found, during, touched>>
vars == <<disk, edits, status, pc, ran, pending, held, left, listed, image, out,
          previous, found, during, touched>>

-----------------------------------------------------------------------------
Codings == {"identity", "br", "gz"}
Variants == Names \X {"br", "gz"}
Assets == Names \X Codings
SourceKey == <<Source, "identity">>
Keys == Assets \cup {SourceKey}
Images == [Keys -> Contents \cup {Absent}]
Empty == [k \in Keys |-> Absent]

Stages == {"prebuild", "bundle", "compress", "load", "embed", "write", "postbuild"}
BeforeWrite == Stages \ {"write", "postbuild"}

Missing == [state |-> "missing", image |-> Empty]
Torn == [state |-> "torn", image |-> Empty]
Whole(i) == [state |-> "whole", image |-> i]

Running(stage) == status = "running" /\ pc = stage

\* What is written while a build reads the directory is what it may read.
Witness(k, x) ==
    during' = IF status = "running" /\ pc \in BeforeWrite \ {"prebuild"}
              THEN [during EXCEPT ![k] = @ \cup {x}] ELSE during

-----------------------------------------------------------------------------
(* The developer, and the scripts *)

\* A file that appears or goes while the directory is walked may be returned
\* by the walk or not.
Edit(k, x) ==
    /\ edits < MaxEdits /\ edits' = edits + 1
    /\ disk[k] # x
    /\ disk' = [disk EXCEPT ![k] = x]
    /\ Witness(k, x)
    /\ touched' = touched \cup {k[1]}
    /\ \/ pending' = pending
       \/ /\ Running("compress") /\ k[2] = "identity" /\ k[1] \in Names
          /\ Absent \in {x, disk[k]}
          /\ pending' \in {pending \cup {k[1]}, pending \ {k[1]}}
    /\ UNCHANGED <<status, pc, ran, held, left, listed, image, out, previous, found>>

-----------------------------------------------------------------------------
(* The scripts *)

\* Mutant: the output file is created when the build begins.
StartByCreating ==
    /\ status # "running"
    /\ status' = "running" /\ pc' = "prebuild" /\ ran' = 0
    /\ previous' = out /\ image' = Empty /\ out' = Torn
    /\ pending' = {} /\ held' = Absent /\ left' = {} /\ listed' = {}
    /\ UNCHANGED <<inputs, found, during, touched>>

Start ==
    /\ status # "running"
    /\ status' = "running" /\ pc' = "prebuild" /\ ran' = 0
    /\ previous' = out /\ image' = Empty
    /\ pending' = {} /\ held' = Absent /\ left' = {} /\ listed' = {}
    /\ UNCHANGED <<inputs, out, found, during, touched>>

\* Mutant: a script too many.
ScriptAgain ==
    /\ \/ Running("prebuild") /\ ran <= Prebuild
       \/ Running("postbuild") /\ ran <= Postbuild
    /\ ran' = ran + 1
    /\ UNCHANGED <<inputs, status, pc, compressing, listed, image, out, histories>>

\* run_scripts: one after the other.
Script ==
    /\ \/ Running("prebuild") /\ ran < Prebuild
       \/ Running("postbuild") /\ ran < Postbuild
    /\ ran' = ran + 1
    /\ UNCHANGED <<inputs, status, pc, compressing, listed, image, out, histories>>

EndPrebuild ==
    /\ Running("prebuild") /\ ran = Prebuild
    /\ pc' = "bundle"
    /\ during' = [k \in Keys |-> {disk[k]}]
    /\ UNCHANGED <<inputs, status, ran, compressing, listed, image, out, previous, found, touched>>

EndPostbuild ==
    /\ Running("postbuild") /\ ran = Postbuild
    /\ status' = "built"
    /\ UNCHANGED <<inputs, pc, ran, compressing, listed, image, out, histories>>

-----------------------------------------------------------------------------
(* bundle, precompress_assets and load_assets *)

Bundle ==
    /\ Running("bundle") /\ disk[SourceKey] # Absent
    /\ image' = [image EXCEPT ![SourceKey] = disk[SourceKey]]
    /\ IF Precompress = {}
       THEN pc' = "load" /\ UNCHANGED pending
       ELSE pc' = "compress" /\ pending' = {n \in Names : disk[<<n, "identity">>] # Absent}
    /\ touched' = {}
    /\ UNCHANGED <<inputs, status, ran, held, left, listed, out, previous, found, during>>

\* Mutant: a variant that exists is taken to be up to date.
ReadUnlessCompressed(n) ==
    /\ Running("compress") /\ left = {}
    /\ n \in pending /\ pending' = pending \ {n}
    /\ disk[<<n, "identity">>] # Absent
    /\ held' = disk[<<n, "identity">>]
    /\ left' = {<<n, g>> : g \in {c \in Precompress : disk[<<n, c>>] = Absent}}
    /\ UNCHANGED <<inputs, status, pc, ran, listed, image, out, histories>>

\* The bytes of an asset are read once, for all its variants.
Read(n) ==
    /\ Running("compress") /\ left = {}
    /\ n \in pending /\ pending' = pending \ {n}
    /\ disk[<<n, "identity">>] # Absent
    /\ held' = disk[<<n, "identity">>]
    /\ left' = {<<n, g>> : g \in Precompress}
    /\ UNCHANGED <<inputs, status, pc, ran, listed, image, out, histories>>

WriteVariant(k) ==
    /\ Running("compress")
    /\ k \in left /\ left' = left \ {k}
    /\ disk' = [disk EXCEPT ![k] = held]
    /\ Witness(k, held)
    /\ UNCHANGED <<edits, status, pc, ran, pending, held, listed, image, out, previous, found, touched>>

EndCompress ==
    /\ Running("compress") /\ pending = {} /\ left = {}
    /\ pc' = "load"
    /\ UNCHANGED <<inputs, status, ran, compressing, listed, image, out, histories>>

\* Every file is listed, the variants of earlier builds included.
Load ==
    /\ Running("load")
    /\ pc' = "embed"
    /\ listed' = {k \in Assets : disk[k] # Absent}
    /\ found' = listed'
    /\ during' = [k \in Keys |-> IF k \in Assets THEN {disk[k]} ELSE during[k]]
    /\ UNCHANGED <<inputs, status, ran, compressing, image, out, previous, touched>>

-----------------------------------------------------------------------------
(* Wizer, and the output file *)

\* Mutant: a file that cannot be read is skipped.
EmbedOrSkip(k) ==
    /\ Running("embed") /\ k \in listed
    /\ listed' = listed \ {k}
    /\ image' = [image EXCEPT ![k] = disk[k]]
    /\ UNCHANGED <<inputs, status, pc, ran, compressing, out, histories>>

\* Asset::bytes is called by load_assets of the worker.
Embed(k) ==
    /\ Running("embed") /\ k \in listed /\ disk[k] # Absent
    /\ listed' = listed \ {k}
    /\ image' = [image EXCEPT ![k] = disk[k]]
    /\ UNCHANGED <<inputs, status, pc, ran, compressing, out, histories>>

\* The user's modules are evaluated and the memory is frozen.
Freeze ==
    /\ Running("embed") /\ listed = {}
    /\ pc' = "write"
    /\ UNCHANGED <<inputs, status, ran, compressing, listed, image, out, histories>>

\* std::fs::write truncates the file, then fills it.
Truncate ==
    /\ Running("write") /\ out # Torn
    /\ out' = Torn
    /\ UNCHANGED <<inputs, status, pc, ran, compressing, listed, image, histories>>

Fill ==
    /\ Running("write") /\ out = Torn
    /\ out' = Whole(image) /\ pc' = "postbuild" /\ ran' = 0
    /\ UNCHANGED <<inputs, status, compressing, listed, image, histories>>

-----------------------------------------------------------------------------
(* Failures *)

\* A file that was returned by the walk, or listed, is gone when it is read.
FileIsGone ==
    \/ Running("compress") /\ left = {}
       /\ \E n \in pending : disk[<<n, "identity">>] = Absent
    \/ Running("embed") /\ \E k \in listed : disk[k] = Absent

\* The assets directory does not exist, which it may only if it holds no file.
NoDirectory == Running("load") /\ \A k \in Assets : disk[k] = Absent

\* A script exits with an error, the source does not bundle or throws when it
\* is evaluated, a file cannot be written.
External ==
    \/ Running("prebuild") /\ ran < Prebuild
    \/ Running("postbuild") /\ ran < Postbuild
    \/ Running("bundle")
    \/ Running("compress") /\ left # {}
    \/ Running("embed") /\ listed = {}
    \/ Running("write")

Fail ==
    /\ FileIsGone \/ NoDirectory \/ External
    /\ status' = "failed"
    /\ UNCHANGED <<inputs, pc, ran, compressing, listed, image, out, histories>>

Kill ==
    /\ status = "running"
    /\ status' = "killed"
    /\ UNCHANGED <<inputs, pc, ran, compressing, listed, image, out, histories>>

-----------------------------------------------------------------------------
Init ==
    /\ disk \in Images
    /\ edits = 0
    /\ status = "idle" /\ pc = "prebuild" /\ ran = 0
    /\ pending = {} /\ held = Absent /\ left = {} /\ listed = {}
    /\ image = Empty
    /\ out = Missing /\ previous = Missing
    /\ found = {} /\ during = [k \in Keys |-> {}] /\ touched = {}

Next ==
    \/ \E k \in Keys, x \in Contents \cup {Absent} : Edit(k, x)
    \/ Start \/ Script \/ EndPrebuild \/ EndPostbuild
    \/ Bundle
    \/ \E n \in Names : Read(n)
    \/ \E k \in Variants : WriteVariant(k)
    \/ EndCompress \/ Load
    \/ \E k \in Assets : Embed(k)
    \/ Freeze \/ Truncate \/ Fill
    \/ Fail \/ Kill

Spec == Init /\ [][Next]_vars

-----------------------------------------------------------------------------
\* Every variable keeps its type.
TypeOK ==
    /\ disk \in Images /\ edits \in 0..MaxEdits
    /\ status \in {"idle", "running", "failed", "killed", "built"} /\ pc \in Stages
    /\ ran \in Nat /\ ran <= IF pc = "postbuild" THEN Postbuild ELSE Prebuild
    /\ pending \subseteq Names /\ held \in Contents \cup {Absent}
    /\ left \subseteq Variants /\ listed \subseteq Assets
    /\ image \in Images
    /\ out \in [state: {"missing", "torn", "whole"}, image: Images]
    /\ previous \in [state: {"missing", "torn", "whole"}, image: Images]
    /\ found \subseteq Assets /\ during \in [Keys -> SUBSET (Contents \cup {Absent})]
    /\ touched \subseteq Names \cup {Source}

\* A snapshot holds every file that was in the assets directory when it was
\* listed and no other, each with bytes it held between the listing and the
\* end of Wizer, and the bundle of a source of after the prebuild scripts; a
\* build that cannot read one of them does not write a Wasm (asset.rs, linker.rs).
EmbedsTheDirectory ==
    pc \in {"write", "postbuild"} =>
        /\ \A k \in Keys : image[k] # Absent <=> k \in found \cup {SourceKey}
        /\ \A k \in found \cup {SourceKey} : image[k] \in during[k]

\* With an asset that nobody edits while it is compressed and embedded, the
\* snapshot holds all its variants of assets.precompress, and they are
\* compressed from the very bytes that are embedded, whatever an earlier build
\* or a script has left in the directory (compress.rs, prepare.rs).
FreshVariants ==
    pc \in {"write", "postbuild"} =>
        \A n \in Names \ touched : image[<<n, "identity">>] # Absent =>
            \A g \in Precompress : image[<<n, g>>] = image[<<n, "identity">>]

\* A build that fails or is killed before it writes leaves the Wasm of the last
\* one in place; the postbuild scripts find the new one complete, and it stays
\* when one of them fails (builder.rs, main.rs).
KeptOrReplaced ==
    /\ pc \in BeforeWrite => out = previous
    /\ pc = "write" => out \in {previous, Torn}
    /\ pc = "postbuild" => out = Whole(image)
=============================================================================
