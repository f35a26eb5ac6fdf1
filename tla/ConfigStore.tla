----------------------------- MODULE ConfigStore -----------------------------
(***************************************************************************)
(* The configuration file (internal/config/config.go) and the two commands *)
(* that write it, pair and forget (cmd/unframeo/main.go): load, change in  *)
(* memory, save through a temporary file of a fixed name.  Each system     *)
(* call on the disk is one action; a process may die between any two, and  *)
(* several may run at once.                                                *)
(***************************************************************************)
EXTENDS Naturals, FiniteSets, FiniteSetsExt

CONSTANTS
  Procs,      \* processes that may run at the same time
  Peers,      \* frames that can be paired
  NoPeer,
  Partial,    \* what a file holds between truncation and a complete write
  NameBound,  \* names are 1..NameBound, "frame1", "frame2", ... in order
  KeyBound,   \* identities minted
  RunBound    \* commands each process slot runs

ASSUME ProcsAssumption == IsFiniteSet(Procs)
ASSUME PeersAssumption == IsFiniteSet(Peers) /\ NoPeer \notin Peers
\* There is a name for every frame: the code counts on until it finds a free one.
ASSUME BoundAssumption ==
  /\ NameBound \in Nat \ {0} /\ Cardinality(Peers) <= NameBound
  /\ KeyBound \in Nat \ {0} /\ RunBound \in Nat

Names == 1..NameBound

\* A configuration: the identity, the peer filed under each name, and the name
\* of the default frame, 0 for none.
Configs == [key: 1..KeyBound, frames: [Names -> Peers \cup {NoPeer}], default: Names \cup {0}]

ASSUME PartialAssumption == Partial \notin Configs

Inodes == 1..(Cardinality(Procs) + 2)

VARIABLES
  path, tmp,  \* the inodes the two names are linked to, 0 if there is no such file
  content,    \* of each inode
  pc,         \* where each process is
  op,         \* its command: kind, name given (0 for none), peer to pair
  over,       \* the peer its command removes from the configuration
  mem,        \* its Config
  fd,         \* the inode it has open for writing
  next,       \* what it does after Save
  runs,       \* commands started by each process slot
  minted,     \* identities created so far
  trust,      \* which frame was paired to which identity
  filed,      \* the frames whose pairing was saved and not undone since
  overlap     \* two commands have been under way at the same time

diskVars == <<path, tmp, content>>
procVars == <<pc, op, over, mem, fd, next>>
vars == <<diskVars, procVars, runs, minted, trust, filed, overlap>>

Ops == [kind: {"pair"}, name: Names \cup {0}, peer: Peers]
       \cup [kind: {"forget"}, name: Names, peer: {NoPeer}]

Blank(k) == [key |-> k, frames |-> [n \in Names |-> NoPeer], default |-> 0]

\* The types; the two names of the file never lead to the same one.
TypeOK ==
  /\ path \in Inodes \cup {0} /\ tmp \in Inodes \cup {0}
  /\ path = 0 \/ path # tmp
  /\ content \in [Inodes -> Configs \cup {Partial}]
  /\ pc \in [Procs -> {"idle", "load", "pairing", "forgetting", "open", "write", "rename"}]
  /\ op \in [Procs -> Ops]
  /\ over \in [Procs -> Peers \cup {NoPeer}]
  /\ mem \in [Procs -> Configs]
  /\ fd \in [Procs -> Inodes \cup {0}]
  /\ next \in [Procs -> {"pairing", "idle"}]
  /\ runs \in [Procs -> 0..RunBound]
  /\ minted \in 0..KeyBound
  /\ trust \in SUBSET (Peers \X (1..KeyBound))
  /\ filed \in SUBSET Peers
  /\ overlap \in BOOLEAN

Init ==
  /\ path = 0 /\ tmp = 0 /\ content = [i \in Inodes |-> Partial]
  /\ pc = [p \in Procs |-> "idle"]
  /\ op \in [Procs -> {[kind |-> "forget", name |-> 1, peer |-> NoPeer]}]
  /\ over = [p \in Procs |-> NoPeer]
  /\ mem = [p \in Procs |-> Blank(1)]
  /\ fd = [p \in Procs |-> 0] /\ next = [p \in Procs |-> "idle"]
  /\ runs = [p \in Procs |-> 0]
  /\ minted = 0 /\ trust = {} /\ filed = {} /\ overlap = FALSE

\* A process at rest remembers nothing.
Rest(p) == /\ pc' = [pc EXCEPT ![p] = "idle"]
           /\ op' = [op EXCEPT ![p] = [kind |-> "forget", name |-> 1, peer |-> NoPeer]]
           /\ over' = [over EXCEPT ![p] = NoPeer]
           /\ mem' = [mem EXCEPT ![p] = Blank(1)]
           /\ fd' = [fd EXCEPT ![p] = 0]
           /\ next' = [next EXCEPT ![p] = "idle"]

-------------------------------------------------------------------------------
(* The in-memory operations, on a configuration's frames and default *)

NamesOf(c, peer) == {n \in Names: c.frames[n] = peer}
Filed(c) == {n \in Names: c.frames[n] # NoPeer}

\* nameFor: the name the peer has, else the first unused one.
NameFor(c, peer) ==
  IF NamesOf(c, peer) # {} THEN CHOOSE n \in NamesOf(c, peer): TRUE
  ELSE Min(Names \ Filed(c))

\* Mutant: the peer's other names stay.
AddFrame_KeepsOther(c, n, peer) ==
  [c EXCEPT !.frames = [c.frames EXCEPT ![n] = peer],
            !.default = IF c.default = 0 THEN n ELSE c.default]

\* AddFrame, with the name settled.
AddFrame(c, n, peer) ==
  [c EXCEPT !.frames = [m \in Names |-> IF m = n THEN peer
                                        ELSE IF c.frames[m] = peer THEN NoPeer
                                        ELSE c.frames[m]],
            !.default = IF c.default = 0 \/ c.default \in NamesOf(c, peer) THEN n
                        ELSE c.default]

\* RemoveFrame of a name that is filed: the default passes to the first that is left.
RemoveFrame(c, n) ==
  LET rest == Filed(c) \ {n} IN
  [c EXCEPT !.frames[n] = NoPeer,
            !.default = IF c.default # n THEN c.default
                        ELSE IF rest = {} THEN 0 ELSE Min(rest)]

-------------------------------------------------------------------------------
(* A command: loadConfig, then cmdPair or cmdForget *)

Start(p) ==
  /\ pc[p] = "idle"
  /\ runs[p] < RunBound
  /\ runs' = [runs EXCEPT ![p] = @ + 1]
  /\ \E o \in Ops: op' = [op EXCEPT ![p] = o]
  /\ pc' = [pc EXCEPT ![p] = "load"]
  /\ overlap' = (overlap \/ \E q \in Procs: pc[q] # "idle")
  /\ UNCHANGED <<diskVars, over, mem, fd, next, minted, trust, filed>>

\* Mutant: the frames map is made afresh even when the file has one.
Loads_FreshMap(p) ==
  /\ pc[p] = "load"
  /\ path # 0
  /\ content[path] # Partial
  /\ mem' = [mem EXCEPT ![p] = Blank(content[path].key)]
  /\ pc' = [pc EXCEPT ![p] = IF op[p].kind = "pair" THEN "pairing" ELSE "forgetting"]
  /\ UNCHANGED <<diskVars, op, over, fd, next, runs, minted, trust, filed, overlap>>

Loads(p) ==
  /\ pc[p] = "load"
  /\ path # 0
  /\ content[path] # Partial
  /\ mem' = [mem EXCEPT ![p] = content[path]]
  /\ pc' = [pc EXCEPT ![p] = IF op[p].kind = "pair" THEN "pairing" ELSE "forgetting"]
  /\ UNCHANGED <<diskVars, op, over, fd, next, runs, minted, trust, filed, overlap>>

\* Mutant: a file that cannot be read is taken for a missing one, and replaced.
LoadFails_Mints(p) ==
  /\ pc[p] = "load"
  /\ minted < KeyBound
  /\ minted' = minted + 1
  /\ mem' = [mem EXCEPT ![p] = Blank(minted + 1)]
  /\ next' = [next EXCEPT ![p] = "pairing"]
  /\ pc' = [pc EXCEPT ![p] = "open"]
  /\ UNCHANGED <<diskVars, op, over, fd, runs, trust, filed, overlap>>

\* An unreadable file ends any command, a missing one any command but pair.
LoadFails(p) ==
  /\ pc[p] = "load"
  /\ IF path = 0 THEN op[p].kind # "pair" ELSE content[path] = Partial
  /\ Rest(p)
  /\ UNCHANGED <<diskVars, runs, minted, trust, filed, overlap>>

\* Create: a new identity, saved before anything is paired to it.
Creates(p) ==
  /\ pc[p] = "load"
  /\ path = 0
  /\ op[p].kind = "pair"
  /\ minted < KeyBound
  /\ minted' = minted + 1
  /\ mem' = [mem EXCEPT ![p] = Blank(minted + 1)]
  /\ next' = [next EXCEPT ![p] = "pairing"]
  /\ pc' = [pc EXCEPT ![p] = "open"]
  /\ UNCHANGED <<diskVars, op, over, fd, runs, trust, filed, overlap>>

\* Mutant: before it is filed, the frame joins those on the disk by then.
Pairs_MergesDisk(p) ==
  /\ pc[p] = "pairing"
  /\ trust' = trust \cup {<<op[p].peer, mem[p].key>>}
  /\ LET was == IF path # 0 /\ content[path] # Partial
                  THEN [content[path] EXCEPT !.key = mem[p].key] ELSE mem[p]
         n == IF op[p].name = 0 THEN NameFor(was, op[p].peer) ELSE op[p].name
     IN  /\ mem' = [mem EXCEPT ![p] = AddFrame(was, n, op[p].peer)]
         /\ over' = [over EXCEPT ![p] = was.frames[n]]
  /\ next' = [next EXCEPT ![p] = "idle"]
  /\ pc' = [pc EXCEPT ![p] = "open"]
  /\ UNCHANGED <<diskVars, op, fd, runs, minted, filed, overlap>>

\* The exchange with the frame succeeds, minutes after the load perhaps, and
\* the frame is filed in memory.
Pairs(p) ==
  /\ pc[p] = "pairing"
  /\ trust' = trust \cup {<<op[p].peer, mem[p].key>>}
  /\ LET n == IF op[p].name = 0 THEN NameFor(mem[p], op[p].peer) ELSE op[p].name
     IN  /\ mem' = [mem EXCEPT ![p] = AddFrame(mem[p], n, op[p].peer)]
         /\ over' = [over EXCEPT ![p] = mem[p].frames[n]]
  /\ next' = [next EXCEPT ![p] = "idle"]
  /\ pc' = [pc EXCEPT ![p] = "open"]
  /\ UNCHANGED <<diskVars, op, fd, runs, minted, filed, overlap>>

Forgets(p) ==
  /\ pc[p] = "forgetting"
  /\ LET n == op[p].name IN
       /\ n \in Filed(mem[p])
       /\ mem' = [mem EXCEPT ![p] = RemoveFrame(mem[p], n)]
       /\ over' = [over EXCEPT ![p] = mem[p].frames[n]]
  /\ pc' = [pc EXCEPT ![p] = "open"]
  /\ UNCHANGED <<diskVars, op, fd, next, runs, minted, trust, filed, overlap>>

\* The grid or the frame refuses the pairing; there is no frame of that name.
Refused(p) ==
  /\ \/ pc[p] = "pairing"
     \/ pc[p] = "forgetting" /\ op[p].name \notin Filed(mem[p])
  /\ Rest(p)
  /\ UNCHANGED <<diskVars, runs, minted, trust, filed, overlap>>

-------------------------------------------------------------------------------
(* Save, one system call at a time *)

FreeInode == Min(Inodes \ ({path, tmp} \cup {fd[p] : p \in Procs}))

\* Mutant: the file itself is written over.
Opens_InPlace(p) ==
  /\ pc[p] = "open"
  /\ LET i == IF path # 0 THEN path ELSE FreeInode IN
       /\ path' = i
       /\ content' = [content EXCEPT ![i] = Partial]
       /\ fd' = [fd EXCEPT ![p] = i]
  /\ pc' = [pc EXCEPT ![p] = "write"]
  /\ UNCHANGED <<tmp, op, over, mem, next, runs, minted, trust, filed, overlap>>

\* os.WriteFile opens, creating or truncating the temporary file...
Opens(p) ==
  /\ pc[p] = "open"
  /\ LET i == IF tmp # 0 THEN tmp ELSE FreeInode IN
       /\ tmp' = i
       /\ content' = [content EXCEPT ![i] = Partial]
       /\ fd' = [fd EXCEPT ![p] = i]
  /\ pc' = [pc EXCEPT ![p] = "write"]
  /\ UNCHANGED <<path, op, over, mem, next, runs, minted, trust, filed, overlap>>

\* ...and writes from the start of what it opened.  What another process has
\* written there meanwhile shows at the end if it is longer.
Writes(p) ==
  /\ pc[p] = "write"
  /\ \E d \in {mem[p]} \cup (IF content[fd[p]] \in {Partial, mem[p]} THEN {} ELSE {Partial}):
       content' = [content EXCEPT ![fd[p]] = d]
  /\ fd' = [fd EXCEPT ![p] = 0]
  /\ pc' = [pc EXCEPT ![p] = "rename"]
  /\ UNCHANGED <<path, tmp, op, over, mem, next, runs, minted, trust, filed, overlap>>

\* The rename makes it the configuration, and the command goes on or is done.
Renames(p) ==
  /\ pc[p] = "rename"
  /\ tmp # 0
  /\ path' = tmp /\ tmp' = 0
  /\ IF next[p] = "pairing"
       THEN /\ pc' = [pc EXCEPT ![p] = "pairing"]
            /\ UNCHANGED <<op, over, mem, fd, next, filed>>
       ELSE /\ Rest(p)
            /\ filed' = (filed \ {over[p]}) \cup (IF op[p].kind = "pair" THEN {op[p].peer} ELSE {})
  /\ UNCHANGED <<content, runs, minted, trust, overlap>>

\* It fails, because another process has renamed the file or for reasons of
\* the file system, and what there is of the file is removed.
RenameFails(p) ==
  /\ pc[p] = "rename"
  /\ tmp' = 0
  /\ Rest(p)
  /\ UNCHANGED <<path, content, runs, minted, trust, filed, overlap>>

\* The process dies, or an error of the disk ends the command.
Dies(p) ==
  /\ pc[p] # "idle"
  /\ Rest(p)
  /\ UNCHANGED <<diskVars, runs, minted, trust, filed, overlap>>

\* The user removes the file, or loses it, between commands.
Lost ==
  /\ \A p \in Procs: pc[p] = "idle"
  /\ path # 0
  /\ path' = 0
  /\ filed' = {}
  /\ UNCHANGED <<tmp, content, procVars, runs, minted, trust, overlap>>

Command(p) ==
  \/ Start(p) \/ Loads(p) \/ LoadFails(p) \/ Creates(p) \/ Pairs(p) \/ Forgets(p) \/ Refused(p)
  \/ Opens(p) \/ Writes(p) \/ Renames(p) \/ RenameFails(p) \/ Dies(p)

Next == (\E p \in Procs: Command(p)) \/ Lost

Spec == Init /\ [][Next]_vars

-------------------------------------------------------------------------------
(* Properties *)

\* The configuration on the disk; meaningful when there is a readable one.
Disk == content[path]
Readable == path # 0 /\ Disk # Partial

Usable == path # 0 => Readable

\* "through a temporary file so a failure part-way cannot leave an unusable
\* identity behind" (config.go:186-188): whatever dies in the middle of
\* whatever, the file is absent or whole, as long as commands do not overlap.
\* And whatever it went through, in a file that can be read no frame has two
\* names, and there is a default exactly when there is a frame.
DiskUsable ==
  /\ ~overlap => Usable
  /\ Readable => /\ \A m, n \in Filed(Disk): Disk.frames[m] = Disk.frames[n] => m = n
                 /\ IF Filed(Disk) = {} THEN Disk.default = 0 ELSE Disk.default \in Filed(Disk)

\* The identity on the disk changes only by way of a missing file.  (Two first
\* pairings at the same time each create one.)
IdentityStable ==
  [][Readable /\ path' # 0 /\ ~overlap => content'[path'].key = Disk.key]_vars

\* Every frame whose pairing was reported saved is in the file until it is
\* forgotten, or its name is given to another; and no other frame is.  Commands
\* that overlap lose each other's changes.
PairedIsFiled ==
  ~overlap /\ Usable => filed = IF path = 0 THEN {} ELSE {Disk.frames[n] : n \in Filed(Disk)}

\* Every frame on file is paired to the identity on file, so it will accept
\* a connection, also when several processes write and overwrite each other.
FramesKnowUs ==
  Readable => \A n \in Filed(Disk): <<Disk.frames[n], Disk.key>> \in trust

\* The file is usable when no command is running any more, whatever ran at the
\* same time.
UsableAtRest == (\A p \in Procs: pc[p] = "idle") => Usable
===============================================================================
