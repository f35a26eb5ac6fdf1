--------------------------------- MODULE Files ---------------------------------
(***************************************************************************)
(* What get and send do with files: cmdGet, getTarget, photoFileName and   *)
(* writeWhole of cmd/unframeo/main.go; cmdSend there with resolveSources   *)
(* and download of download.go.  Several processes run on one disk and any *)
(* of them may be killed.  How a photo is fetched or sent over the         *)
(* connection is in Download.tla and Client.tla; here it works or not.     *)
(***************************************************************************)
EXTENDS Integers, FiniteSets, SequencesExt, Functions

CONSTANTS
  Procs,       \* processes, each with one command to run
  Commands,    \* the command lines they may be given
  Photos,      \* ids of the photos on the frame
  TakenAt,     \* the capture date the frame reports of each, 0 for none
  Whole,       \* bytes of a photo on the frame
  MaxBytes,    \* maxDownloadBytes
  Bodies       \* what servers answer: how many bytes, and whether they are text

ASSUME PhotosAssumption == /\ Photos \subseteq Int /\ IsFiniteSet(Photos)
                           /\ TakenAt \in [Photos -> Nat] /\ Whole \in Nat \ {0}
ASSUME CommandAssumption == \A c \in Commands: c.cmd = "get" =>
                              c.ids \in Seq(Photos) /\ c.out \in {".", "out"}
ASSUME BudgetAssumption == MaxBytes \in Nat \ {0} /\ Bodies \subseteq [size: Nat, text: BOOLEAN]

VARIABLES
  line,      \* the command line of each process
  pc,        \* where it is
  outIsDir,  \* what -out names is a directory
  toFile,    \* get: getTarget chose a file rather than a directory
  todo,      \* get: the photos still to fetch
  failed,    \* get: how many could not be saved
  wrote,     \* get: the rename of the photo in hand has worked
  saved,     \* what the processes have printed as saved
  disk,      \* files by name
  webDir,    \* send: the temporary directory, as the sizes of the files in it; NoDir if none
  body,      \* send: what the server is answering
  budget,    \* send: what is left of MaxBytes
  sources,   \* send: the arguments made into files
  sent       \* send: what the frame has been sent

vars == <<line, pc, outIsDir, toFile, todo, failed, wrote, saved, disk, webDir, body, budget, sources, sent>>
getVars == <<outIsDir, toFile, todo, failed, wrote, saved, disk>>
sendVars == <<webDir, body, budget, sources, sent>>

NoDir == <<-1>>
NoBody == [size |-> 0, text |-> FALSE]
Ended == {"ok", "failed", "killed"}

Init ==
  /\ line \in [Procs -> Commands]
  /\ pc = [p \in Procs |-> IF line[p].cmd = "get" THEN "target" ELSE "check"]
  /\ outIsDir \in BOOLEAN /\ toFile = [p \in Procs |-> FALSE]
  /\ todo = [p \in Procs |-> <<>>]
  /\ failed = [p \in Procs |-> 0] /\ wrote = [p \in Procs |-> FALSE]
  /\ saved = {} /\ disk = <<>>
  /\ webDir = [p \in Procs |-> NoDir] /\ body = [p \in Procs |-> NoBody]
  /\ budget = [p \in Procs |-> MaxBytes]
  /\ sources = [p \in Procs |-> <<>>] /\ sent = [p \in Procs |-> <<>>]

Goes(p, to) == pc' = [pc EXCEPT ![p] = to]

-------------------------------------------------------------------------------
(* get: names *)

\* Mutant: the sign of an id is dropped instead of spelt out.
FileName_NoSign(id, variant) == <<TakenAt[id], "", IF id < 0 THEN -id ELSE id, variant>>

\* photoFileName: the date if there is one, the id, and the copy asked for.
FileName(id, variant) ==
  <<TakenAt[id], IF id < 0 THEN "n" ELSE "", IF id < 0 THEN -id ELSE id, variant>>

Out == <<"out">>
Path(p) ==
  IF toFile[p] THEN Out ELSE <<line[p].out, FileName(Head(todo[p]), line[p].variant)>>

\* Mutant: the photo is written under its own name.
Temp_Own(p) == Path(p)

\* CreateTemp: a name nobody has.
Temp(p) == <<"temporary", p>>

IsTemp(name) == name[1] = "temporary"

-------------------------------------------------------------------------------
(* get: cmdGet *)

Batch(p) == Len(line[p].ids) # 1

\* getTarget: a batch needs a directory, and makes it; one photo goes into a
\* directory that is there under its own name, and else is given this one.
SettlesTarget(p) ==
  /\ pc[p] = "target"
  /\ \/ /\ line[p].out = "." /\ Goes(p, "dial") /\ UNCHANGED <<outIsDir, toFile>>
     \/ /\ line[p].out = "out" /\ Batch(p) /\ Out \notin DOMAIN disk
        /\ outIsDir' = TRUE /\ Goes(p, "dial") /\ UNCHANGED toFile
     \/ /\ line[p].out = "out" /\ ~Batch(p)
        /\ toFile' = [toFile EXCEPT ![p] = ~outIsDir] /\ Goes(p, "dial") /\ UNCHANGED outIsDir
     \/ line[p].out = "out" /\ Goes(p, "failed") /\ UNCHANGED <<outIsDir, toFile>>
  /\ UNCHANGED <<line, todo, failed, wrote, saved, disk, sendVars>>

\* connect, and the listing for "get all"; a frame without photos is no failure.
Begins(p) ==
  /\ pc[p] = "dial"
  /\ \/ /\ line[p].ids # <<>>
        /\ todo' = [todo EXCEPT ![p] = line[p].ids] /\ Goes(p, "fetch")
     \/ /\ line[p].ids = <<>>
        /\ todo' = [todo EXCEPT ![p] = SetToSeq(Photos)]
        /\ Goes(p, IF Photos = {} THEN "ok" ELSE "fetch")
     \/ Goes(p, "failed") /\ UNCHANGED todo
  /\ UNCHANGED <<line, outIsDir, toFile, failed, wrote, saved, disk, sendVars>>

\* The next photo; this one is counted among the failed unless it was saved.
Counts(p, good) ==
  /\ todo' = [todo EXCEPT ![p] = Tail(@)]
  /\ failed' = [failed EXCEPT ![p] = IF good THEN @ ELSE @ + 1]
  /\ Goes(p, "fetch")

\* GetMedia works, or the photo is reported and the run carries on.
Fetches(p) ==
  /\ pc[p] = "fetch" /\ todo[p] # <<>>
  /\ \/ Goes(p, "create") /\ UNCHANGED <<todo, failed>>
     \/ Counts(p, FALSE)
  /\ UNCHANGED <<line, outIsDir, toFile, wrote, saved, disk, sendVars>>

FinishesGet(p) ==
  /\ pc[p] = "fetch" /\ todo[p] = <<>>
  /\ Goes(p, IF failed[p] > 0 THEN "failed" ELSE "ok")
  /\ UNCHANGED <<line, getVars, sendVars>>

(* writeWhole *)

Holding(p, bytes) == [id |-> Head(todo[p]), variant |-> line[p].variant, bytes |-> bytes]

CreatesTemp(p) ==
  /\ pc[p] = "create"
  /\ \/ /\ disk' = [name \in DOMAIN disk \cup {Temp(p)} |->
                     IF name = Temp(p) THEN Holding(p, 0) ELSE disk[name]]
        /\ Goes(p, "write") /\ UNCHANGED <<todo, failed>>
     \/ Counts(p, FALSE) /\ UNCHANGED disk
  /\ wrote' = [wrote EXCEPT ![p] = FALSE]
  /\ UNCHANGED <<line, outIsDir, toFile, saved, sendVars>>

\* A disk that fills up takes part of the photo.
Writes(p) ==
  /\ pc[p] = "write"
  /\ \E bytes \in disk[Temp(p)].bytes..Whole:
       /\ disk' = [disk EXCEPT ![Temp(p)].bytes = bytes]
       /\ Goes(p, IF bytes = Whole THEN "close" ELSE "remove")
  /\ UNCHANGED <<line, outIsDir, toFile, todo, failed, wrote, saved, sendVars>>

\* Close and Chmod.
ClosesTemp(p) ==
  /\ pc[p] = "close"
  /\ Goes(p, "rename") \/ Goes(p, "remove")
  /\ UNCHANGED <<line, getVars, sendVars>>

\* A file does not replace a directory, which another run may have made since.
Renames(p) ==
  /\ pc[p] = "rename" /\ Goes(p, "remove")
  /\ \/ /\ ~(toFile[p] /\ outIsDir)
        /\ disk' = [name \in (DOMAIN disk \cup {Path(p)}) \ {Temp(p)} |->
                      IF name = Path(p) THEN disk[Temp(p)] ELSE disk[name]]
        /\ wrote' = [wrote EXCEPT ![p] = TRUE]
     \/ UNCHANGED <<disk, wrote>>
  /\ UNCHANGED <<line, outIsDir, toFile, todo, failed, saved, sendVars>>

\* Mutant: the temporary file is removed only when all went well.
RemovesTemp_IfWrote(p) ==
  /\ pc[p] = "remove"
  /\ disk' = IF wrote[p] THEN Restrict(disk, DOMAIN disk \ {Temp(p)}) ELSE disk
  /\ saved' = IF wrote[p] THEN saved \cup {[by |-> p, id |-> Head(todo[p]), name |-> Path(p)]} ELSE saved
  /\ Counts(p, wrote[p])
  /\ UNCHANGED <<line, outIsDir, toFile, wrote, sendVars>>

\* The deferred Remove; it finds nothing after a rename.
RemovesTemp(p) ==
  /\ pc[p] = "remove"
  /\ disk' = Restrict(disk, DOMAIN disk \ {Temp(p)})
  /\ saved' = IF wrote[p] THEN saved \cup {[by |-> p, id |-> Head(todo[p]), name |-> Path(p)]} ELSE saved
  /\ Counts(p, wrote[p])
  /\ UNCHANGED <<line, outIsDir, toFile, wrote, sendVars>>

-------------------------------------------------------------------------------
(* send: resolveSources *)

Urls(p) == {i \in DOMAIN line[p].args: line[p].args[i] = "url"}

\* The argument resolved next; local files have been looked at by then.
Resolving(p) == Len(sources[p]) + 1

\* What is in it is not looked at.
LocalFile(text) == [kept |-> Whole, size |-> Whole, text |-> text]

\* Every argument is parsed and every local file is looked at, whatever the
\* order of the arguments.
ChecksFiles(p) ==
  /\ pc[p] = "check"
  /\ Goes(p, "resolve") \/ Goes(p, "failed")
  /\ UNCHANGED <<line, getVars, sendVars>>

PassesFile(p) ==
  /\ pc[p] = "resolve" /\ Resolving(p) \in DOMAIN line[p].args \ Urls(p)
  /\ \E text \in BOOLEAN: sources' = [sources EXCEPT ![p] = Append(@, LocalFile(text))]
  /\ UNCHANGED <<line, pc, getVars, webDir, body, budget, sent>>

\* The first URL has the directory made.  The server may not answer, answer
\* with an error or declare text; else its answer begins.
Requests(p) ==
  /\ pc[p] = "resolve" /\ Resolving(p) \in Urls(p)
  /\ \/ /\ webDir' = [webDir EXCEPT ![p] = IF @ = NoDir THEN <<0>> ELSE Append(@, 0)]
        /\ \E b \in Bodies: body' = [body EXCEPT ![p] = b]
        /\ Goes(p, "copy")
     \/ /\ webDir' \in {webDir, [webDir EXCEPT ![p] = IF @ = NoDir THEN <<>> ELSE @]}
        /\ Goes(p, "cleanup") /\ UNCHANGED body
  /\ UNCHANGED <<line, getVars, budget, sources, sent>>

\* Mutant: the copy stops at the budget.
Limit_Exact(p) == budget[p]

\* "One byte past what is left, so that a body which is exactly too long is told
\* apart from one that fits."
Limit(p) == budget[p] + 1

Kept(p) == Last(webDir[p])
Keeps(p, n) == webDir' = [webDir EXCEPT ![p] = Append(Front(@), n)]

\* The body is copied up to the limit, or the copy breaks off.
Copies(p) ==
  /\ pc[p] = "copy"
  /\ LET all == IF body[p].size <= Limit(p) THEN body[p].size ELSE Limit(p)
     IN \/ Keeps(p, all) /\ Goes(p, "judge")
        \/ /\ \E n \in 0..all: Keeps(p, n)
           /\ Goes(p, "cleanup")
  /\ UNCHANGED <<line, getVars, body, budget, sources, sent>>

\* Mutant: each URL has the whole budget.
Drawn_Afresh(p) == MaxBytes

\* The budget is for the run.
Drawn(p) == budget[p] - Kept(p)

Fetched(p) == [kept |-> Kept(p), size |-> body[p].size, text |-> body[p].text]

\* Mutant: what the server called it is believed.
Judges_Unsniffed(p) ==
  /\ pc[p] = "judge"
  /\ \/ /\ Kept(p) > 0 /\ Kept(p) <= budget[p]
        /\ sources' = [sources EXCEPT ![p] = Append(@, Fetched(p))]
        /\ budget' = [budget EXCEPT ![p] = Drawn(p)]
        /\ Goes(p, "resolve")
     \/ /\ Kept(p) = 0 \/ Kept(p) > budget[p]
        /\ Goes(p, "cleanup") /\ UNCHANGED <<budget, sources>>
  /\ UNCHANGED <<line, getVars, webDir, body, sent>>

\* Nothing, too much, or text for all the server said: refused.
Judges(p) ==
  /\ pc[p] = "judge"
  /\ \/ /\ Kept(p) > 0 /\ Kept(p) <= budget[p] /\ ~body[p].text
        /\ sources' = [sources EXCEPT ![p] = Append(@, Fetched(p))]
        /\ budget' = [budget EXCEPT ![p] = Drawn(p)]
        /\ Goes(p, "resolve")
     \/ /\ Kept(p) = 0 \/ Kept(p) > budget[p] \/ body[p].text
        /\ Goes(p, "cleanup") /\ UNCHANGED <<budget, sources>>
  /\ UNCHANGED <<line, getVars, webDir, body, sent>>

-------------------------------------------------------------------------------
(* send: cmdSend *)

\* Mutant: a photo goes out as soon as it is there.
Ready_Each(p) == sources[p] # <<>>

Ready(p) == Len(sources[p]) = Len(line[p].args)

Dials(p) ==
  /\ pc[p] = "resolve" /\ Ready(p)
  /\ Goes(p, "send") \/ Goes(p, "cleanup")
  /\ UNCHANGED <<line, getVars, sendVars>>

\* SendPhoto in the order of the arguments; the first that fails ends the run.
Sends(p) ==
  /\ pc[p] = "send" /\ Len(sent[p]) < Len(sources[p])
  /\ \/ sent' = [sent EXCEPT ![p] = Append(@, sources[p][Len(@) + 1])] /\ UNCHANGED pc
     \/ Goes(p, "cleanup") /\ UNCHANGED sent
  /\ UNCHANGED <<line, getVars, webDir, body, budget, sources>>

FinishesSend(p) ==
  /\ pc[p] = "send" /\ Len(sent[p]) = Len(sources[p]) /\ Goes(p, "cleanup")
  /\ UNCHANGED <<line, getVars, sendVars>>

\* The deferred cleanup, whichever way the run ends.
CleansUp(p) ==
  /\ pc[p] = "cleanup"
  /\ webDir' = [webDir EXCEPT ![p] = NoDir]
  /\ Goes(p, IF Len(sent[p]) = Len(line[p].args) THEN "ok" ELSE "failed")
  /\ UNCHANGED <<line, getVars, body, budget, sources, sent>>

-------------------------------------------------------------------------------

\* kill -9, or the machine stops.
Dies(p) ==
  /\ pc[p] \notin Ended /\ Goes(p, "killed")
  /\ UNCHANGED <<line, getVars, sendVars>>

Get(p) == \/ SettlesTarget(p) \/ Begins(p) \/ Fetches(p) \/ FinishesGet(p)
          \/ CreatesTemp(p) \/ Writes(p) \/ ClosesTemp(p) \/ Renames(p) \/ RemovesTemp(p)

Send(p) == \/ ChecksFiles(p) \/ PassesFile(p) \/ Requests(p) \/ Copies(p) \/ Judges(p)
           \/ Dials(p) \/ Sends(p) \/ FinishesSend(p) \/ CleansUp(p)

Next == \E p \in Procs: Get(p) \/ Send(p) \/ Dies(p)

Spec == Init /\ [][Next]_vars

-------------------------------------------------------------------------------
(* Properties *)

\* Whatever fails and whoever is killed when, a name that looks finished names a
\* whole photo: "an interrupted run must not leave a truncated file under a name
\* that looks finished" (main.go:912-914).
FinishedIsWhole ==
  \A name \in DOMAIN disk: ~IsTemp(name) => disk[name].bytes = Whole

\* The photos a get was asked for; all of them when none is named.
Wanted(p) == IF line[p].ids = <<>> THEN Photos ELSE Range(line[p].ids)

\* What get has reported as saved is there, and is the photo and the copy of it
\* that were asked for: no photo, and no other copy of the same photo, fetched
\* in this run or another, has taken its name.  And the exit status counts: it
\* is good only if every photo asked for was saved.
SavedIsThere ==
  /\ \A s \in saved:
       /\ s.name \in DOMAIN disk
       /\ s.name # Out => disk[s.name].id = s.id /\ disk[s.name].variant = line[s.by].variant
  /\ \A p \in Procs: pc[p] = "ok" /\ line[p].cmd = "get" =>
       \A id \in Wanted(p): \E s \in saved: s.by = p /\ s.id = id

\* A frame is sent nothing before every argument has been made into a file, and
\* no file that is empty or cut short at the budget, nor a web page downloaded in
\* place of a photo: "a page of HTML looks like one whatever its headers said"
\* (download.go:219-220).
SentIsWhole ==
  \A p \in Procs: sent[p] # <<>> =>
    /\ Len(sources[p]) = Len(line[p].args)
    /\ \A i \in DOMAIN sent[p]:
         /\ sent[p][i].kept = sent[p][i].size /\ sent[p][i].size > 0
         /\ i \in Urls(p) => ~sent[p][i].text

\* What files of these sizes take.
Taken(sizes) == FoldLeft(+, 0, sizes)

\* A run takes at most the budget and one byte of the disk for what it fetches,
\* over all its URLs, and unless it is killed leaves nothing behind, of the
\* downloads of a send or of the temporary files of a get.
DiskGivenBack ==
  \A p \in Procs:
    /\ webDir[p] # NoDir => Taken(webDir[p]) <= MaxBytes + 1
    /\ pc[p] \in {"ok", "failed"} => webDir[p] = NoDir /\ Temp(p) \notin DOMAIN disk
===============================================================================
