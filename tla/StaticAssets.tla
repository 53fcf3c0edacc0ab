---------------------------- MODULE StaticAssets ----------------------------
(***************************************************************************)
(* env.ASSETS.fetch of packages/worker: a request is resolved to a file by *)
(* trying the pathname and its aliases, then a precompressed variant of    *)
(* that file, then it is answered with 200, 304, 404 or 500.  Every probe  *)
(* of getAssetFn is awaited, and with { src: "fs" } the directory can be   *)
(* edited between two probes, and between fileExists and readFile.  With   *)
(* { src: "memory" } the probes read the assets that were frozen into the  *)
(* Wasm the request runs in.                                               *)
(*                                                                         *)
(* A path is a pair <<name, form>>: "/n", "/n.html", "/n/" and             *)
(* "/n/index.html".  A file is a path with a coding; the content of a      *)
(* variant is the content it was compressed from, so the bytes, and with   *)
(* them the MD5 etag, are the pair of content and coding.                  *)
(***************************************************************************)
EXTENDS Naturals, Sequences

CONSTANTS Names,        \* the stems of the pathnames
          Forms,        \* the forms of the pathnames of the files there may be
          Contents,     \* what a file can hold
          Absent,       \* the content of a file that does not exist
          None,         \* no request
          Clients,      \* HTTP clients, each with one request at a time
          Sources,      \* the values of src that the app passes
          MaxEdits      \* bound: changes of the directory and of the bundle

ASSUME AbsentIsNoContent == Absent \notin Contents
ASSUME FormsAssumption == Forms \subseteq {"plain", "html", "index"}
ASSUME SourcesAssumption == Sources \subseteq {"fs", "memory"}
ASSUME EditsAreBounded == MaxEdits \in Nat

VARIABLES disk,     \* the assets directory
          bundle,   \* the assets frozen into the Wasm that is being served
          edits,    \* changes so far (the bound's counter)
          pc,       \* where each client's request is
          ask,      \* the request, None between two
          view,     \* the bundle of the Wasm the request runs in
          at,       \* the candidate being tried, an index
          asset,    \* content of the resolved file, Absent until it is found
          answer,   \* the response
          kept,     \* the response the client has in its HTTP cache, if any
          during    \* history: what each file held while the request ran

storeVars == <<disk, bundle, edits>>
vars == <<disk, bundle, edits, pc, ask, view, at, asset, answer, kept, during>>

-----------------------------------------------------------------------------
Paths == Names \X {"plain", "html", "slash", "index"}
FilePaths == Names \X Forms
Codings == {"identity", "br", "gz"}
Files == FilePaths \X Codings
Disks == [Files -> Contents \cup {Absent}]
Etags == (Contents \cup {Absent}) \X Codings

Requests == [url: Paths, accept: SUBSET {"br", "gzip"}, src: Sources, match: SUBSET Etags]
Responses == [status: {"none", "200", "304", "404", "500", "refused"},
              coding: Codings, content: Contents \cup {Absent}]

Present(d, p, g) == <<p, g>> \in Files /\ d[<<p, g>>] # Absent

\* A regular file cannot also be the directory of another.
Consistent(d) ==
    \A n \in Names : \/ ~Present(d, <<n, "plain">>, "identity")
                     \/ \A g \in Codings : ~Present(d, <<n, "index">>, g)

\* Mutant: the aliases the other way round.
IndexFirst(p) ==
    IF p[2] = "slash" THEN << p, <<p[1], "index">> >>
    ELSE IF p[2] = "plain" THEN << p, <<p[1], "index">>, <<p[1], "html">> >>
    ELSE << p >>

\* The pathname, then aliasesOf(pathname).
Candidates(p) ==
    IF p[2] = "slash" THEN << p, <<p[1], "index">> >>
    ELSE IF p[2] = "plain" THEN << p, <<p[1], "html">>, <<p[1], "index">> >>
    ELSE << p >>

\* Mutant: the test for gzip is missing.
AnyIsBrotli(accept) == IF accept # {} THEN "br" ELSE "identity"

\* The variant that is looked for; "identity" when none is.
Wanted(accept) ==
    IF "br" \in accept THEN "br" ELSE IF "gzip" \in accept THEN "gz" ELSE "identity"

\* stat throws ENOTDIR, which fileExists does not take for a missing file.
NotADirectory(d, p) == p[2] \in {"slash", "index"} /\ Present(d, <<p[1], "plain">>, "identity")

Path(c) == Candidates(ask[c].url)[at[c]]

\* Mutant: an index is off by one.
PastTheLast(c) == at[c] > Len(Candidates(ask[c].url))

LastCandidate(c) == at[c] = Len(Candidates(ask[c].url))

\* The coding getAssetFn is asked for: the file's own until the asset is found.
Coding(c) == IF asset[c] = Absent THEN "identity" ELSE Wanted(ask[c].accept)

Store(c) == IF ask[c].src = "fs" THEN disk ELSE view[c]

NoAnswer == [status |-> "none", coding |-> "identity", content |-> Absent]

-----------------------------------------------------------------------------
(* The developer edits the directory, precompresses it and builds it *)

\* Requests that read the directory are exposed to what it becomes.
Witness(d) ==
    during' = [c \in Clients |->
                 IF pc[c] \in {"find", "read"} /\ ask[c].src = "fs"
                 THEN during[c] \cup {<<f, d[f]>> : f \in Files} ELSE during[c]]

Change(d) ==
    /\ edits < MaxEdits /\ edits' = edits + 1
    /\ Consistent(d)
    /\ disk' = d
    /\ Witness(d)
    /\ UNCHANGED <<bundle, pc, ask, view, at, asset, answer, kept>>

Save(p, x) == Change([disk EXCEPT ![<<p, "identity">>] = x])

Remove(f) == disk[f] # Absent /\ Change([disk EXCEPT ![f] = Absent])

\* precompress_assets writes one variant of one file.
Compress(p, g) ==
    /\ g # "identity" /\ Present(disk, p, "identity")
    /\ Change([disk EXCEPT ![<<p, g>>] = disk[<<p, "identity">>]])

\* A build whose Wasm is then served: requests that are running keep theirs.
Deploy ==
    /\ edits < MaxEdits /\ edits' = edits + 1
    /\ bundle' = disk
    /\ UNCHANGED <<disk, pc, ask, view, at, asset, answer, kept, during>>

-----------------------------------------------------------------------------
(* resolveAndFetch *)

\* A client may revalidate what it keeps; `vary: Accept-Encoding` makes that
\* the response to a request with the same URL and the same encodings.
Validators(c, p, a) ==
    {<<r.content, r.coding>> : r \in {k \in kept[c] : k.url = p /\ k.accept = a}}

Send(c, p, a, s) ==
    /\ pc[c] = "idle"
    /\ \E m \in SUBSET Validators(c, p, a) :
         ask' = [ask EXCEPT ![c] = [url |-> p, accept |-> a, src |-> s, match |-> m]]
    /\ pc' = [pc EXCEPT ![c] = "find"]
    /\ view' = [view EXCEPT ![c] = bundle]
    /\ during' = [during EXCEPT ![c] =
                    {<<f, IF s = "fs" THEN disk[f] ELSE bundle[f]>> : f \in Files}]
    /\ UNCHANGED <<storeVars, at, asset, answer, kept>>

Answer(c, r) ==
    /\ answer' = [answer EXCEPT ![c] = r]
    /\ pc' = [pc EXCEPT ![c] = "done"]
    /\ UNCHANGED <<storeVars, ask, view, at, kept, during>>

\* The method is neither GET nor HEAD, or the URL does not parse.
Refuse(c) ==
    /\ pc[c] = "find" /\ at[c] = 1 /\ asset[c] = Absent
    /\ Answer(c, [NoAnswer EXCEPT !.status = "refused"])
    /\ UNCHANGED asset

\* Mutant: If-None-Match is compared with the etag of the uncompressed asset.
BuildComparesAsset(c, g, x) ==
    Answer(c, [status |-> IF <<asset'[c], g>> \in ask[c].match THEN "304" ELSE "200",
               coding |-> g, content |-> x])

\* buildAssetResponse, of the variant if there is one.
Build(c, g, x) ==
    Answer(c, [status |-> IF <<x, g>> \in ask[c].match THEN "304" ELSE "200",
               coding |-> g, content |-> x])

\* getAssetFn returns an asset.
Got(c, x) ==
    IF asset[c] = Absent /\ Wanted(ask[c].accept) # "identity"
    THEN /\ asset' = [asset EXCEPT ![c] = x]
         /\ pc' = [pc EXCEPT ![c] = "find"]
         /\ UNCHANGED <<storeVars, ask, view, at, answer, kept, during>>
    ELSE /\ asset' = [asset EXCEPT ![c] = IF @ = Absent THEN x ELSE @]
         /\ Build(c, Coding(c), x)

\* __kyushu_get_asset__ finds the asset and copies its bytes in one call.
FindInMemory(c) ==
    /\ pc[c] = "find" /\ ask[c].src = "memory"
    /\ Present(view[c], Path(c), Coding(c))
    /\ Got(c, view[c][<<Path(c), Coding(c)>>])

\* fileExists is true; the file is read later.
FileExists(c) ==
    /\ pc[c] = "find" /\ ask[c].src = "fs"
    /\ Present(disk, Path(c), Coding(c))
    /\ pc' = [pc EXCEPT ![c] = "read"]
    /\ UNCHANGED <<storeVars, ask, view, at, asset, answer, kept, during>>

\* readFile and stat both succeed.
ReadFile(c) ==
    /\ pc[c] = "read" /\ Present(disk, Path(c), Coding(c))
    /\ Got(c, disk[<<Path(c), Coding(c)>>])

Fail(c) == Answer(c, [NoAnswer EXCEPT !.status = "500"]) /\ UNCHANGED asset

\* readFile or stat rejects: the file is gone.
ReadFails(c) == pc[c] = "read" /\ ~Present(disk, Path(c), Coding(c)) /\ Fail(c)

\* Mutant: fileExists rethrows ENOENT too.
StatThrows(c) ==
    /\ pc[c] = "find" /\ ask[c].src = "fs" /\ ~Present(disk, Path(c), Coding(c))
    /\ Fail(c)

\* fileExists rethrows what is not ENOENT.
StatFails(c) ==
    /\ pc[c] = "find" /\ ask[c].src = "fs" /\ NotADirectory(disk, Path(c))
    /\ Fail(c)

\* getAssetFn returns undefined: the next alias, or 404, or no variant.
Missing(c) ==
    /\ pc[c] = "find"
    /\ ~Present(Store(c), Path(c), Coding(c))
    /\ ask[c].src = "fs" => ~NotADirectory(disk, Path(c))
    /\ \/ /\ asset[c] = Absent /\ ~LastCandidate(c)
          /\ at' = [at EXCEPT ![c] = @ + 1]
          /\ UNCHANGED <<storeVars, pc, ask, view, asset, answer, kept, during>>
       \/ /\ asset[c] = Absent /\ LastCandidate(c)
          /\ Answer(c, [NoAnswer EXCEPT !.status = "404"])
          /\ UNCHANGED asset
       \/ /\ asset[c] # Absent
          /\ UNCHANGED asset
          /\ Build(c, "identity", asset[c])

\* The client takes the response; a 200 replaces what it kept for the URL.
Take(c) ==
    /\ pc[c] = "done"
    /\ pc' = [pc EXCEPT ![c] = "idle"]
    /\ ask' = [ask EXCEPT ![c] = None]
    /\ at' = [at EXCEPT ![c] = 1]
    /\ asset' = [asset EXCEPT ![c] = Absent]
    /\ answer' = [answer EXCEPT ![c] = NoAnswer]
    /\ during' = [during EXCEPT ![c] = {}]
    /\ kept' = [kept EXCEPT ![c] =
                  IF answer[c].status = "200"
                  THEN {[url |-> ask[c].url, accept |-> ask[c].accept,
                         coding |-> answer[c].coding, content |-> answer[c].content]}
                  ELSE @]
    /\ UNCHANGED <<storeVars, view>>

-----------------------------------------------------------------------------
\* The directory as a build left it: with variants of every file, for some of
\* the codings. The bundle that is served is the directory's.
Init ==
    /\ \E held \in [FilePaths -> Contents \cup {Absent}], cs \in SUBSET {"br", "gz"} :
         disk = [f \in Files |-> IF f[2] \in cs \cup {"identity"} THEN held[f[1]] ELSE Absent]
    /\ Consistent(disk)
    /\ bundle = disk
    /\ edits = 0
    /\ pc = [c \in Clients |-> "idle"]
    /\ ask = [c \in Clients |-> None]
    /\ view = [c \in Clients |-> disk]
    /\ at = [c \in Clients |-> 1]
    /\ asset = [c \in Clients |-> Absent]
    /\ answer = [c \in Clients |-> NoAnswer]
    /\ kept = [c \in Clients |-> {}]
    /\ during = [c \in Clients |-> {}]

Develop ==
    \/ \E p \in FilePaths, x \in Contents : Save(p, x)
    \/ \E f \in Files : Remove(f)
    \/ \E p \in FilePaths, g \in Codings : Compress(p, g)
    \/ Deploy

Probe(c) ==
    FindInMemory(c) \/ FileExists(c) \/ ReadFile(c) \/ ReadFails(c) \/ StatFails(c) \/ Missing(c)

Next ==
    \/ Develop
    \/ \E c \in Clients :
         \/ \E p \in Paths, a \in SUBSET {"br", "gzip"}, s \in Sources : Send(c, p, a, s)
         \/ Refuse(c) \/ Probe(c) \/ Take(c)

Spec == Init /\ [][Next]_vars

-----------------------------------------------------------------------------
(* Properties *)

\* Every variable has its type, and a request looks at one of its candidates.
TypeOK ==
    /\ disk \in Disks /\ bundle \in Disks /\ Consistent(disk)
    /\ edits \in 0 .. MaxEdits
    /\ pc \in [Clients -> {"idle", "find", "read", "done"}]
    /\ ask \in [Clients -> Requests \cup {None}]
    /\ view \in [Clients -> Disks]
    /\ at \in [Clients -> 1 .. 3]
    /\ asset \in [Clients -> Contents \cup {Absent}]
    /\ answer \in [Clients -> Responses]
    /\ kept \in [Clients -> SUBSET [url: Paths, accept: SUBSET {"br", "gzip"},
                                    coding: Codings, content: Contents \cup {Absent}]]
    /\ during \in [Clients -> SUBSET (Files \X (Contents \cup {Absent}))]
    /\ \A c \in Clients :
         /\ pc[c] = "idle" => at[c] = 1 /\ asset[c] = Absent
         /\ pc[c] # "idle" => ask[c] \in Requests /\ at[c] <= Len(Candidates(ask[c].url))

Held(c, p, g, x) == <<<<p, g>>, x>> \in during[c]
Existed(c, p, g) == \E x \in Contents : Held(c, p, g, x)
WasMissing(c, p, g) == <<p, g>> \in Files => Held(c, p, g, Absent)

\* The files a URL may stand for, and those that come before one of them:
\* the exact path, then /about.html, then /about/index.html.
Resolves(u) ==
    {q \in Paths : \/ q = u
                   \/ q[1] = u[1] /\ u[2] = "slash" /\ q[2] = "index"
                   \/ q[1] = u[1] /\ u[2] = "plain" /\ q[2] \in {"html", "index"}}
Before(u, p) == {q \in Resolves(u) \ {p} : q = u \/ (p # u /\ q[2] = "html")}

Served(c) == pc[c] = "done" /\ answer[c].status \in {"200", "304"}

\* A file is only served for a URL if, at some moment of the request, each of
\* the files that come before it was missing, and 404 is only answered if all
\* of them were. In memory the moments are one: the resolution is exact.
FirstMatchFor(c) ==
    /\ Served(c) => /\ Path(c) \in Resolves(ask[c].url) /\ Existed(c, Path(c), "identity")
                    /\ \A q \in Before(ask[c].url, Path(c)) : WasMissing(c, q, "identity")
    /\ pc[c] = "done" /\ answer[c].status = "404"
       => \A q \in Resolves(ask[c].url) : WasMissing(c, q, "identity")
FirstMatch == \A c \in Clients : FirstMatchFor(c)

\* What the client shows, be it the body of a 200 or, after a 304, what it
\* kept, is what the served file held at some moment of the request: a cached
\* copy that is out of date is never confirmed.
CurrentFor(c) ==
    Served(c) =>
        IF answer[c].status = "200"
        THEN Held(c, Path(c), answer[c].coding, answer[c].content)
        ELSE \E k \in kept[c] :
               /\ k.url = ask[c].url /\ k.accept = ask[c].accept
               /\ k.coding = answer[c].coding
               /\ Held(c, Path(c), k.coding, k.content)
Current == \A c \in Clients : CurrentFor(c)

\* A client only gets a coding that it accepts, and one that accepts br gets
\* it unless that variant was missing.
NegotiatedFor(c) ==
    Served(c) =>
        /\ answer[c].coding = "br" => "br" \in ask[c].accept
        /\ answer[c].coding = "gz" => "gzip" \in ask[c].accept
        /\ answer[c].coding # "br" /\ "br" \in ask[c].accept => WasMissing(c, Path(c), "br")
Negotiated == \A c \in Clients : NegotiatedFor(c)

\* A 500 has a cause in the directory: a file that came or went during the
\* request, or a file where the URL needs a directory. From memory there is none.
ErrorHasCauseFor(c) ==
    pc[c] = "done" /\ answer[c].status = "500" =>
        /\ ask[c].src = "fs"
        /\ \E p \in Resolves(ask[c].url) :
             \/ p[2] \in {"slash", "index"} /\ Existed(c, <<p[1], "plain">>, "identity")
             \/ \E g \in Codings : Existed(c, p, g) /\ Held(c, p, g, Absent)
ErrorsHaveCause == \A c \in Clients : ErrorHasCauseFor(c)

\* The Content-Encoding of a variant is the suffix of its file.
ContentEncoding(g) == g

\* Documented: Content-Encoding is `br` or `gzip` for a compressed asset.
Decodable ==
    \A c \in Clients : answer[c].status = "200" /\ answer[c].coding # "identity" =>
        ContentEncoding(answer[c].coding) \in {"br", "gzip"}
=============================================================================
