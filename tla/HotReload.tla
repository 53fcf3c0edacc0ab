----------------------------- MODULE HotReload -----------------------------
(***************************************************************************)
(* `kyu dev` (cli/src/dev.rs): the initial build, the file watcher with    *)
(* its debouncer and its one-slot channel, the reload loop, and the        *)
(* requests that take the current instance under a read lock.              *)
(*                                                                         *)
(* A source file is its version; a bundle is the version of each file it   *)
(* was made from. Bundling reads one file at a time while the developer    *)
(* goes on editing.                                                        *)
(***************************************************************************)
EXTENDS Integers

CONSTANTS
    Files,       \* the source files the bundle is made from
    Watched,     \* those below the directory of the entry file
    BadContent,  \* <<f, v>>: version v of file f does not bundle
    Requests,    \* requests sent to the server
    MaxEdits,    \* bound on the edits of one file
    None         \* no bundle

ASSUME FilesAssumption ==
    /\ Watched \subseteq Files
    /\ MaxEdits \in Nat
    /\ None \notin [Files -> Int]

VARIABLES
    src,        \* the version of each file on disk
    main,       \* "building", "built", "serving", "exited"
    watcher,    \* the watch task: "off", "starting", "recv", "building", "dead"
    base,       \* the versions on disk when the watch was registered
    read,       \* what each builder has read in its current or last build
    served,     \* the bundle behind the RwLock
    raw,        \* file events the debouncer holds
    debouncer,  \* its thread: "waiting", or "sending" in blocking_send
    channel,    \* messages in the channel of capacity 1
    taken       \* the bundle each request runs on

watchVars == <<watcher, base, raw, debouncer, channel>>
vars == <<src, main, watchVars, read, served, taken>>

Unread   == -1
Builders == {"main", "watcher"}
Nothing  == [f \in Files |-> Unread]

Registered  == watcher \in {"recv", "building"}
Building(p) == IF p = "main" THEN main = "building"
                             ELSE main = "serving" /\ watcher = "building"
AllRead(p)  == \A f \in Files : read[p][f] # Unread
Bundles(p)  == \A f \in Files : <<f, read[p][f]>> \notin BadContent

Init ==
    /\ src = [f \in Files |-> 0]
    /\ main = "building"
    /\ watcher = "off"
    /\ base = Nothing
    /\ read = [p \in Builders |-> Nothing]
    /\ served = None
    /\ raw = FALSE
    /\ debouncer = "waiting"
    /\ channel = 0
    /\ taken = [r \in Requests |-> None]

-----------------------------------------------------------------------------
(* Broken variants, for the properties to catch. No specification uses them. *)

\* A channel without bound.
UnboundedSend ==
    /\ debouncer = "sending"
    /\ debouncer' = "waiting" /\ channel' = channel + 1
    /\ UNCHANGED <<src, main, watcher, base, read, served, raw, taken>>

\* The events that came during a build are discarded at its end.
DrainAfterReload ==
    /\ Building("watcher") /\ AllRead("watcher") /\ Bundles("watcher")
    /\ served' = read["watcher"]
    /\ watcher' = "recv" /\ channel' = 0
    /\ UNCHANGED <<src, main, base, read, raw, debouncer, taken>>

\* A failed reload goes back to the bundle the server started with.
FallBack ==
    /\ Building("watcher") /\ AllRead("watcher") /\ ~Bundles("watcher")
    /\ served' = read["main"]
    /\ watcher' = "recv"
    /\ UNCHANGED <<src, main, base, read, raw, debouncer, channel, taken>>

\* A bundle with errors is installed all the same.
InstallAnything ==
    /\ Building("watcher") /\ AllRead("watcher")
    /\ served' = read["watcher"]
    /\ watcher' = "recv"
    /\ UNCHANGED <<src, main, base, read, raw, debouncer, channel, taken>>

\* A notice that comes during a build is dropped, the build being under way.
SkipWhileBuilding ==
    /\ main = "serving" /\ debouncer = "sending" /\ channel = 0
    /\ debouncer' = "waiting"
    /\ channel' = IF watcher = "building" THEN 0 ELSE 1
    /\ UNCHANGED <<src, main, watcher, base, read, served, raw, taken>>

-----------------------------------------------------------------------------
(* The developer *)

\* A file is saved; notify reports it if the directory is being watched.
Edit(f) ==
    /\ src[f] < MaxEdits
    /\ src' = [src EXCEPT ![f] = @ + 1]
    /\ raw' = (raw \/ (Registered /\ f \in Watched))
    /\ UNCHANGED <<main, watcher, base, read, served, debouncer, channel, taken>>

-----------------------------------------------------------------------------
(* build_instance_pre, for the first build and for a reload *)

\* The bundler reads one more file.
ReadFile(p, f) ==
    /\ Building(p) /\ read[p][f] = Unread
    /\ read' = [read EXCEPT ![p][f] = src[f]]
    /\ UNCHANGED <<src, main, watchVars, served, taken>>

\* The first build succeeds, or `dev` returns its error.
FirstBuild ==
    /\ Building("main") /\ AllRead("main")
    /\ \/ /\ Bundles("main")
          /\ served' = read["main"] /\ main' = "built"
       \/ /\ ~Bundles("main")
          /\ main' = "exited" /\ UNCHANGED served
    /\ UNCHANGED <<src, watchVars, read, taken>>

\* init_watch spawns the watch task, unless live reload is off; then `serve`.
InitWatch ==
    /\ main = "built"
    /\ main' = "serving"
    /\ watcher' \in {"starting", "off"}
    /\ UNCHANGED <<src, base, read, served, raw, debouncer, channel, taken>>

\* `serve` returns an error: the process ends.
ServeError ==
    /\ main = "serving"
    /\ main' = "exited"
    /\ UNCHANGED <<src, watchVars, read, served, taken>>

-----------------------------------------------------------------------------
(* watch *)

\* The directory is registered, or watch() fails and the task is over.
Register ==
    /\ main = "serving" /\ watcher = "starting"
    /\ \/ watcher' = "recv" /\ base' = src
       \/ watcher' = "dead" /\ UNCHANGED base
    /\ UNCHANGED <<src, main, read, served, raw, debouncer, channel, taken>>

\* 200 ms after an event the debouncer calls back with all it holds.
Debounce ==
    /\ main = "serving" /\ raw /\ debouncer = "waiting"
    /\ raw' = FALSE /\ debouncer' = "sending"
    /\ UNCHANGED <<src, main, watcher, base, read, served, channel, taken>>

\* blocking_send, while the channel has room.
Send ==
    /\ main = "serving" /\ debouncer = "sending" /\ channel = 0
    /\ debouncer' = "waiting" /\ channel' = 1
    /\ UNCHANGED <<src, main, watcher, base, read, served, raw, taken>>

\* recv() yields: a rebuild starts from nothing.
Receive ==
    /\ main = "serving" /\ watcher = "recv" /\ channel = 1
    /\ channel' = 0 /\ watcher' = "building"
    /\ read' = [read EXCEPT !["watcher"] = Nothing]
    /\ UNCHANGED <<src, main, base, served, raw, debouncer, taken>>

\* The rebuild succeeds and is swapped in under the write lock.
Reload ==
    /\ Building("watcher") /\ AllRead("watcher") /\ Bundles("watcher")
    /\ served' = read["watcher"]
    /\ watcher' = "recv"
    /\ UNCHANGED <<src, main, base, read, raw, debouncer, channel, taken>>

\* The rebuild fails: the error is printed and the old instance stays.
ReloadError ==
    /\ Building("watcher") /\ AllRead("watcher") /\ ~Bundles("watcher")
    /\ watcher' = "recv"
    /\ UNCHANGED <<src, main, base, read, served, raw, debouncer, channel, taken>>

-----------------------------------------------------------------------------
\* A request takes the current instance under the read lock.
Take(r) ==
    /\ main = "serving" /\ taken[r] = None
    /\ taken' = [taken EXCEPT ![r] = served]
    /\ UNCHANGED <<src, main, watchVars, read, served>>

\* Nothing has to happen any more: everything is saved and served.
Quiescent ==
    /\ main = "exited" \/ (main = "serving" /\ watcher \in {"off", "recv", "dead"})
    /\ UNCHANGED vars

Next ==
    \/ \E f \in Files : Edit(f)
    \/ \E p \in Builders, f \in Files : ReadFile(p, f)
    \/ FirstBuild \/ InitWatch \/ ServeError
    \/ Register \/ Debounce \/ Send \/ Receive \/ Reload \/ ReloadError
    \/ \E r \in Requests : Take(r)
    \/ Quiescent

Spec == Init /\ [][Next]_vars

\* The tasks and the debouncer's thread are scheduled; a build ends.
Fairness ==
    /\ \A p \in Builders, f \in Files : WF_vars(ReadFile(p, f))
    /\ WF_vars(FirstBuild) /\ WF_vars(InitWatch) /\ WF_vars(Register)
    /\ WF_vars(Debounce) /\ WF_vars(Send) /\ WF_vars(Receive)
    /\ WF_vars(Reload) /\ WF_vars(ReloadError)

FairSpec == Spec /\ Fairness

-----------------------------------------------------------------------------
(* Properties *)

Versions == Nat \cup {Unread}
Bundle   == [Files -> Versions]

TypeOK ==
    /\ src \in [Files -> Nat]
    /\ main \in {"building", "built", "serving", "exited"}
    /\ watcher \in {"off", "starting", "recv", "building", "dead"}
    /\ base \in Bundle
    /\ read \in [Builders -> Bundle]
    /\ served \in Bundle \cup {None}
    /\ raw \in BOOLEAN
    /\ debouncer \in {"waiting", "sending"}
    /\ channel \in {0, 1}
    /\ taken \in [Requests -> Bundle \cup {None}]

\* No edit is lost between the watcher, the debouncer, the channel and the
\* rebuild: a watched file that changed since the watch was registered is in
\* the last rebuild, or a notice of it is on its way, or the rebuild under way
\* has still to read it. One slot in the channel is enough for that.
NoLostEdit ==
    \A f \in Watched :
        main = "serving" /\ Registered /\ src[f] > base[f] /\ read["watcher"][f] # src[f]
            => \/ raw \/ debouncer = "sending" \/ channel = 1
               \/ watcher = "building" /\ read["watcher"][f] = Unread

\* A reload that fails leaves the working bundle in place: no request runs a
\* bundle with a file that does not bundle.
OnlyGoodServed ==
    \A r \in Requests : taken[r] # None => \A f \in Files : <<f, taken[r][f]>> \notin BadContent

\* Requests move forward: one that takes the instance later never runs an older
\* version of a file than one that took it before, through every reload, failed
\* reload and edit in the middle of a build.
RequestsMoveForward ==
    [][\A r, q \in Requests :
          taken[r] = None /\ taken'[r] # None /\ taken[q] # None
              => \A f \in Files : taken'[r][f] >= taken[q][f]]_vars

Good       == \A f \in Files : <<f, src[f]>> \notin BadContent
Reloads    == main = "serving" /\ watcher \notin {"off", "dead"}
UpToDate(f) == served # None /\ served[f] = src[f]

\* Once the developer stops with sources that bundle, every watched file edited
\* since the registration is served as it is on disk, also after a bundle torn
\* by an edit in the middle of it and after failed reloads.
Converges ==
    <>[](Reloads /\ Good => \A f \in Watched : src[f] > base[f] => UpToDate(f))

\* What the documentation says of `dev.watch`: it watches for file changes and
\* reloads automatically. Every watched file is served as it is on disk, in the
\* end.
ReloadsEveryChange == <>[](Reloads /\ Good => \A f \in Watched : UpToDate(f))
=============================================================================
