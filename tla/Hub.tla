-------------------------------- MODULE Hub --------------------------------
(***************************************************************************)
(* The model hub of src/tools/hub: pull_model and remove_model of one      *)
(* program, that is run again and again, over the files of its models      *)
(* directory, with the network and the repository changing under it.       *)
(*                                                                         *)
(* A file is a sequence of chunks; a chunk is the revision of the          *)
(* repository it came from, so that a file put together from two of them   *)
(* shows.  A digest is the whole content.  The empty sequence stands for a *)
(* file that is not there.                                                 *)
(***************************************************************************)
EXTENDS Integers, Sequences, SequencesExt, FiniteSets

CONSTANTS
    Listings,   \* the repositories: sequences of file records
    Asks,       \* what the user pulls: [selector, dotted, revision, name, allow]
    Turns,      \* <<a, b>>: the user may turn from pulling a to pulling b
    Revisions,  \* 1 .. n; 0 in a request is the branch "main"
    Lengths,    \* functions from revisions to the chunks of a file
    Announced,  \* what model info holds: records [size, sha] of BOOLEAN
    Catalogues, \* contents of models.json at the start
    MaxRedirects,
    MaxFaults,  \* bound on cuts, crashes, odd answers, cancels and removals
    MaxMoves    \* bound on moves of the branch and on changes of the command

\* A file of a repository: its path, its basename, whether it is a .gguf and an
\* mmproj, the quant tags its name contains, those it contains as a whole, and
\* its place in a split set (0 of 0 for a file that is not split).
FileRecord == [path : STRING, base : STRING, gguf : BOOLEAN, mmproj : BOOLEAN,
               loose : SUBSET STRING, exact : SUBSET STRING,
               set : STRING, index : Nat, total : Nat]
NoFile == [path |-> "", base |-> "", gguf |-> FALSE, mmproj |-> FALSE, loose |-> {},
           exact |-> {}, set |-> "", index |-> 0, total |-> 0]

ASSUME HubTyped ==
    /\ \A l \in Listings : ToSet(l) \subseteq FileRecord
    /\ \A a \in Asks : a.revision \in Revisions \cup {0}
    /\ Turns \subseteq Asks \X Asks
    /\ \A len \in Lengths : \A r \in Revisions : len[r] \in Nat \ {0}

VARIABLES
    listing,   \* the files of the repository
    ask,       \* what the user pulls now
    length,    \* chunks of a file in each revision
    known,     \* which of size and sha256 the repository announces
    restricted, \* its licence restricts the use
    head,      \* the revision "main" is at
    part,      \* path -> content of <path>.part
    dest,      \* path -> content of the file
    catalog,   \* models.json: name -> entry
    tmp,       \* models.json.tmp, as a catalogue; the empty one when it is blank
    proc,      \* the running command
    faults, moves,
    result,    \* outcome of the last command: "none", "ok" or "failed"
    agreed     \* history: the last pull found its file to be what its entry says

scene == <<listing, length, known, restricted>>
disk == <<part, dest, catalog, tmp>>
vars == <<listing, ask, length, known, restricted, head, part, dest, catalog, tmp, proc,
          faults, moves, result, agreed>>

Path == {f.path : f \in ToSet(listing)}
Content(r) == [i \in 1 .. length[r] |-> r]
Absent == << >>
NoEntry == [repo |-> "", path |-> "", sha |-> 0]
NoCatalog == [n \in {a.name : a \in Asks} |-> NoEntry]
Repo == "repo"   \* the repository that is pulled from

Idle == [pc |-> "idle", rev |-> 0, copy |-> NoCatalog, todo |-> << >>, first |-> "",
         attempt |-> 0, offset |-> 0, rest |-> << >>, hop |-> 0]

Init ==
    /\ listing \in Listings /\ ask \in Asks /\ length \in Lengths
    /\ known \in Announced /\ restricted \in BOOLEAN
    /\ head \in Revisions
    /\ part = [p \in Path |-> Absent] /\ dest = [p \in Path |-> Absent]
    /\ catalog \in Catalogues /\ tmp = NoCatalog
    /\ proc = Idle /\ faults = 0 /\ moves = 0 /\ result = "none"
    /\ agreed = TRUE

-----------------------------------------------------------------------------
(* Which file a spec names *)

\* parse_spec: a selector with a dot or a slash is a file, another one a quant.
parse_spec(a) == [file |-> IF a.dotted THEN a.selector ELSE "",
                  quant |-> IF a.dotted THEN "" ELSE a.selector]

Only(files) == IF Cardinality(files) = 1 THEN CHOOSE f \in files : TRUE ELSE NoFile

\* The files whose name holds the quant tag, those that hold exactly it first.
Pool(ggufs, quant) ==
    LET loose == SelectSeq(ggufs, LAMBDA f : quant \in f.loose)
        exact == SelectSeq(loose, LAMBDA f : quant \in f.exact)
    IN  IF exact = << >> THEN loose ELSE exact

\* select_file; NoFile when nothing or more than one thing matches.
select_file(files, spec) ==
    IF spec.file # ""
      THEN LET same == SelectSeq(files, LAMBDA f : f.path = spec.file)
           IN  IF same # << >> THEN Head(same)
               ELSE Only(ToSet(SelectSeq(files, LAMBDA f : f.base = spec.file)))
      ELSE LET ggufs == SelectSeq(files, LAMBDA f : f.gguf /\ ~f.mmproj)
               pool == ToSet(Pool(ggufs, spec.quant))
               whole == {f \in pool : f.total = 0}
           IN  IF spec.quant = "" THEN Only(ToSet(ggufs))
               ELSE IF whole = {} THEN Only({f \in pool : f.index = 1})
               ELSE Only(whole)

\* split_set: all the shards in order, nothing when one is missing.
split_set(files, f) ==
    LET shard(i) == {g \in ToSet(files) : g.set = f.set /\ g.total = f.total /\ g.index = i}
    IN  IF f.total = 0 THEN <<f>>
        ELSE IF \E i \in 1 .. f.total : shard(i) = {} THEN << >>
        ELSE [i \in 1 .. f.total |-> CHOOSE g \in shard(i) : TRUE]

Selected == select_file(listing, parse_spec(ask))
Wanted == IF Selected = NoFile THEN << >> ELSE split_set(listing, Selected)

-----------------------------------------------------------------------------
(* pull_model up to its downloads *)

\* The revision that a request gets now.
Resolved == IF ask.revision = 0 THEN head ELSE ask.revision

Back(outcome) == proc' = Idle /\ result' = outcome

\* The name belongs to another repository or another file.
NameTaken ==
    /\ catalog[ask.name] # NoEntry
    /\ catalog[ask.name].repo # Repo \/ catalog[ask.name].path # Selected.path

\* is_restricted_license
LicenceRefused == restricted /\ ~ask.allow

\* Nothing in the repository, the licence or the catalogue is against the pull.
MayPull == Wanted # << >> /\ ~LicenceRefused /\ ~NameTaken

\* The file is missing, or is the one whose digest the catalogue has.
Agrees == LET entry == catalog[ask.name]
          IN  entry.repo = Repo /\ known.sha => dest[entry.path] \in {Absent, Content(entry.sha)}

\* Model info cannot be fetched, or is not what parse_repo_info reads.
FetchFails ==
    /\ proc.pc = "idle" /\ faults < MaxFaults /\ faults' = faults + 1
    /\ Back("failed")
    /\ UNCHANGED <<scene, ask, agreed, head, disk, moves>>

\* Model info is fetched, the file chosen, the licence and the name looked at.
Pull ==
    /\ proc.pc = "idle"
    /\ agreed' = Agrees
    /\ IF ~MayPull
         THEN Back("failed")
         ELSE /\ proc' = [Idle EXCEPT !.pc = "shard", !.rev = Resolved, !.copy = catalog,
                                      !.todo = Wanted, !.first = Selected.path]
              /\ UNCHANGED result
    /\ UNCHANGED <<scene, ask, head, disk, faults, moves>>

Current == Head(proc.todo).path

\* The catalogue's entry for the file has the digest that is announced.
KnownGood == /\ Current = proc.first
             /\ proc.copy[ask.name] # NoEntry /\ proc.copy[ask.name].sha = proc.rev

Whole(content) == ~known.size \/ Len(content) = length[proc.rev]
Digested(content) == ~known.sha \/ content = Content(proc.rev)

\* Mutant of Have: the size is enough.
HaveBySize == dest[Current] # Absent /\ Whole(dest[Current])

\* The file is there already.
Have == /\ dest[Current] # Absent /\ Whole(dest[Current])
        /\ KnownGood \/ Digested(dest[Current])

NextShard == [proc EXCEPT !.todo = Tail(@), !.attempt = 0,
                          !.pc = IF Len(proc.todo) = 1 THEN "open" ELSE "shard"]

CheckShard ==
    /\ proc.pc = "shard"
    /\ proc' = IF Have THEN NextShard ELSE [proc EXCEPT !.pc = "attempt"]
    /\ UNCHANGED <<scene, ask, agreed, head, disk, faults, moves, result>>

-----------------------------------------------------------------------------
(* download_file *)

\* The end of finalize_download: the file is moved into place.
MoveIntoPlace == /\ dest' = [dest EXCEPT ![Current] = part[Current]]
                 /\ part' = [part EXCEPT ![Current] = Absent]

Send(offset) == proc' = [proc EXCEPT !.pc = "request", !.offset = offset, !.hop = 0,
                                     !.attempt = @ + 1]

\* Mutant of Attempt: a complete .part that is not right is kept.
AttemptKeeps ==
    /\ proc.pc = "attempt" /\ proc.attempt < 2
    /\ IF known.size /\ Len(part[Current]) = length[proc.rev]
         THEN IF Digested(part[Current])
                THEN MoveIntoPlace /\ proc' = NextShard /\ UNCHANGED result
                ELSE Back("failed") /\ UNCHANGED <<part, dest>>
         ELSE Send(Len(part[Current])) /\ UNCHANGED <<part, dest, result>>
    /\ UNCHANGED <<scene, ask, agreed, head, catalog, tmp, faults, moves>>

\* The .part file decides: too long, or complete and wrong, it is removed;
\* complete and right, it is the file; otherwise the request asks for the rest.
Attempt ==
    /\ proc.pc = "attempt" /\ proc.attempt < 2
    /\ LET have == Len(part[Current])
           full == known.size /\ have = length[proc.rev]
       IN  \/ /\ full /\ Digested(part[Current])
              /\ MoveIntoPlace /\ proc' = NextShard
           \/ /\ (full /\ ~Digested(part[Current])) \/ (known.size /\ have > length[proc.rev])
              /\ part' = [part EXCEPT ![Current] = Absent]
              /\ Send(0) /\ UNCHANGED dest
           \/ /\ ~full /\ ~(known.size /\ have > length[proc.rev])
              /\ Send(have) /\ UNCHANGED <<part, dest>>
    /\ UNCHANGED <<scene, ask, agreed, head, catalog, tmp, faults, moves, result>>

\* "server rejected resume twice"
Rejected ==
    /\ proc.pc = "attempt" /\ proc.attempt = 2
    /\ Back("failed")
    /\ UNCHANGED <<scene, ask, agreed, head, disk, faults, moves>>

\* http_get follows a redirect, up to max_redirects.
Redirect ==
    /\ proc.pc = "request" /\ faults < MaxFaults /\ faults' = faults + 1
    /\ IF proc.hop = MaxRedirects THEN Back("failed")
       ELSE proc' = [proc EXCEPT !.hop = @ + 1] /\ UNCHANGED result
    /\ UNCHANGED <<scene, ask, agreed, head, disk, moves>>

\* download_on_response: 200, the whole file; the .part file starts again.
Answer200 ==
    /\ part' = [part EXCEPT ![Current] = Absent]
    /\ proc' = [proc EXCEPT !.pc = "body", !.rest = Content(Resolved)]

\* 206 from the offset, appended to the .part file.
Answer206 ==
    /\ proc' = [proc EXCEPT !.pc = "body", !.rest = SubSeq(Content(Resolved), proc.offset + 1,
                                                          length[Resolved])]
    /\ UNCHANGED part

\* 416, or 206 from elsewhere: the .part file is removed, and once more.
RangeRefused ==
    /\ part' = [part EXCEPT ![Current] = Absent]
    /\ proc' = [proc EXCEPT !.pc = "attempt"]

\* The server's answer: the regular one, or one of the others.
Respond ==
    /\ proc.pc = "request"
    /\ \/ /\ IF proc.offset = 0 THEN Answer200
             ELSE IF proc.offset < length[Resolved] THEN Answer206
             ELSE RangeRefused
          /\ UNCHANGED <<faults, result>>
       \/ /\ faults < MaxFaults /\ faults' = faults + 1
          /\ \/ Answer200 /\ UNCHANGED result
             \/ RangeRefused /\ UNCHANGED result
             \/ Back("failed") /\ UNCHANGED part
    /\ UNCHANGED <<scene, ask, agreed, head, dest, catalog, tmp, moves>>

\* download_on_data
Data ==
    /\ proc.pc = "body" /\ proc.rest # << >>
    /\ part' = [part EXCEPT ![Current] = Append(@, Head(proc.rest))]
    /\ proc' = [proc EXCEPT !.rest = Tail(@)]
    /\ UNCHANGED <<scene, ask, agreed, head, dest, catalog, tmp, faults, moves, result>>

Verified(content) == Whole(content) /\ Digested(content)

\* The body is complete.  A file of another size fails and is kept, to be
\* resumed or removed by the next pull; one with another digest is removed.
Finished ==
    /\ proc.pc = "body" /\ proc.rest = << >>
    /\ IF Verified(part[Current]) THEN MoveIntoPlace /\ proc' = NextShard /\ UNCHANGED result
       ELSE /\ Back("failed") /\ UNCHANGED dest
            /\ IF Whole(part[Current]) THEN part' = [part EXCEPT ![Current] = Absent]
               ELSE UNCHANGED part
    /\ UNCHANGED <<scene, ask, agreed, head, catalog, tmp, faults, moves>>

\* The connection breaks, the user cancels, or the disk is full: what has come
\* stays in the .part file.
Broken ==
    /\ proc.pc = "body" /\ proc.rest # << >>
    /\ faults < MaxFaults /\ faults' = faults + 1
    /\ Back("failed")
    /\ UNCHANGED <<scene, ask, agreed, head, disk, moves>>

-----------------------------------------------------------------------------
(* The catalogue *)

\* save_catalog creates the .tmp file ...
OpenTmp ==
    /\ proc.pc = "open"
    /\ tmp' = NoCatalog
    /\ proc' = [proc EXCEPT !.pc = "write"]
    /\ UNCHANGED <<scene, ask, agreed, head, part, dest, catalog, faults, moves, result>>

\* ... writes into it the catalogue that was read at the start, with the entry
\* put in or taken out ...
Entry == [repo |-> Repo, path |-> proc.first, sha |-> IF known.sha THEN proc.rev ELSE 0]
WriteTmp ==
    /\ proc.pc = "write"
    /\ tmp' = [proc.copy EXCEPT ![ask.name] = IF proc.rev = 0 THEN NoEntry ELSE Entry]
    /\ proc' = [proc EXCEPT !.pc = "rename"]
    /\ UNCHANGED <<scene, ask, agreed, head, part, dest, catalog, faults, moves, result>>

\* ... and moves it over models.json.
RenameTmp ==
    /\ proc.pc = "rename"
    /\ catalog' = tmp /\ tmp' = NoCatalog
    /\ Back(IF proc.rev = 0 THEN "none" ELSE "ok")
    /\ UNCHANGED <<scene, ask, agreed, head, part, dest, faults, moves>>

\* remove_model: the shards of the entry are deleted, unless the files are to be
\* kept, and then the entry is taken out.
remove_model ==
    /\ proc.pc = "idle" /\ catalog[ask.name].repo = Repo
    /\ faults < MaxFaults /\ faults' = faults + 1
    /\ \/ LET f == CHOOSE g \in ToSet(listing) : g.path = catalog[ask.name].path
          IN  proc' = [Idle EXCEPT !.pc = "delete", !.copy = catalog,
                                   !.todo = split_set(listing, f)]
       \/ proc' = [Idle EXCEPT !.pc = "open", !.copy = catalog]
    /\ result' = "none"
    /\ UNCHANGED <<scene, ask, agreed, head, disk, moves>>

DeleteShard ==
    /\ proc.pc = "delete"
    /\ dest' = [dest EXCEPT ![Current] = Absent] /\ part' = [part EXCEPT ![Current] = Absent]
    /\ proc' = [proc EXCEPT !.todo = Tail(@),
                            !.pc = IF Len(proc.todo) = 1 THEN "open" ELSE "delete"]
    /\ UNCHANGED <<scene, ask, agreed, head, catalog, tmp, faults, moves, result>>

-----------------------------------------------------------------------------
(* What goes wrong *)

\* The program is killed; the end of a .part file that is written to may not
\* have left its buffer.
Crash ==
    /\ proc.pc # "idle" /\ faults < MaxFaults /\ faults' = faults + 1
    /\ \/ UNCHANGED part
       \/ /\ proc.pc = "body" /\ part[Current] # Absent
          /\ part' = [part EXCEPT ![Current] = Front(@)]
    /\ Back("failed")
    /\ UNCHANGED <<scene, ask, agreed, head, dest, catalog, tmp, moves>>

\* The branch moves to another revision, or back to one it was at.
MoveHead ==
    /\ moves < MaxMoves /\ moves' = moves + 1
    /\ head' \in Revisions \ {head}
    /\ UNCHANGED <<scene, ask, agreed, disk, proc, faults, result>>

\* The user turns to another file or another revision.
ChangeAsk ==
    /\ proc.pc = "idle"
    /\ moves < MaxMoves /\ moves' = moves + 1
    /\ \E turn \in Turns : turn[1] = ask /\ ask' = turn[2]
    /\ result' = "none"
    /\ UNCHANGED <<scene, agreed, head, disk, proc, faults>>

Command ==
    \/ Pull \/ CheckShard \/ Attempt \/ Rejected \/ Respond \/ Data \/ Finished
    \/ OpenTmp \/ WriteTmp \/ RenameTmp \/ DeleteShard

Next == Command \/ FetchFails \/ Redirect \/ Broken \/ remove_model \/ Crash \/ MoveHead
        \/ ChangeAsk

Spec == Init /\ [][Next]_vars

\* The user repeats the command, and the program goes on.
FairSpec == Spec /\ WF_vars(Command)

-----------------------------------------------------------------------------
(* Properties *)

TypeOK ==
    /\ head \in Revisions
    /\ DOMAIN part = Path /\ DOMAIN dest = Path
    /\ \A p \in Path : \A c \in {part[p], dest[p]} : ToSet(c) \subseteq Revisions
    /\ proc.attempt \in 0 .. 2 /\ proc.hop \in 0 .. MaxRedirects
    /\ faults \in 0 .. MaxFaults /\ moves \in 0 .. MaxMoves
    /\ result \in {"none", "ok", "failed"}

\* Whatever was cut, resumed, answered from another place, killed or moved to
\* another revision in between, a file in its place is one whole revision when
\* the repository announces digests, and as long as one when it announces sizes:
\* a .part file of another revision is never completed into the model.
FilesAreWhole ==
    /\ TypeOK
    /\ \A p \in Path : dest[p] # Absent =>
        \E r \in Revisions : /\ known.sha => dest[p] = Content(r)
                             /\ known.size => Len(dest[p]) = length[r]

\* After a pull that succeeded, and until the next command changes something,
\* the entry in models.json is that of a shard that was wanted, the first one
\* unless the user named another by its file; every shard is there, and is of the
\* revision that the entry has the digest of.  For the entry's own file, which is
\* not looked into when the digest of the entry is the announced one (known_good
\* of pull_model), that is so if the pull found the file and the entry to agree.
PulledIsAnnounced ==
    (result = "ok" /\ proc.pc = "idle") =>
        /\ \E i \in DOMAIN Wanted :
            /\ catalog[ask.name].path = Wanted[i].path
            /\ parse_spec(ask).file = "" => i = 1
        /\ \A i \in DOMAIN Wanted :
            /\ dest[Wanted[i].path] # Absent
            /\ known.sha /\ (agreed \/ Wanted[i].path # catalog[ask.name].path)
                 => dest[Wanted[i].path] = Content(catalog[ask.name].sha)

\* "The catalogue points at shard 1" (hub.md, pull_model), and a file that is kept
\* has the announced digest (hub.md).  Neither holds: the first fails for the file
\* name of a later shard, the second when a pull of another revision was killed
\* between moving the file into place and saving the catalogue.
PulledIsDocumented ==
    (result = "ok" /\ proc.pc = "idle") =>
        /\ catalog[ask.name].path = Wanted[1].path
        /\ known.sha => dest[catalog[ask.name].path] = Content(catalog[ask.name].sha)

\* What select_file picks does not depend on the order in which the repository
\* lists its files, and a split set is the same from each of its shards.
SelectionStable ==
    (result = "none" /\ proc.pc = "idle") =>
        \A a \in Asks : LET f == select_file(listing, parse_spec(a))
                        IN  /\ \A l \in SetToSeqs(ToSet(listing)) : select_file(l, parse_spec(a)) = f
                            /\ \A g \in ToSet(split_set(listing, f)) :
                                split_set(listing, g) = split_set(listing, f)

\* What a pull leaves is whole, and is the file that was asked for, however it
\* was listed (pull_model, download_file, select_file).
PulledIsChosen == FilesAreWhole /\ PulledIsAnnounced /\ SelectionStable

\* Repeated often enough, a pull that names one file, under a licence and a name
\* it may have, succeeds, unless the user turns to another one: nothing that failed
\* pulls leave in the .part files, in the models directory or in models.json is in
\* its way for good.
PullsSucceed == MayPull ~> (result = "ok" \/ ~MayPull)
=============================================================================
