---------------------------- MODULE ProjectFiles ----------------------------
(***************************************************************************)
(* One text file of a project (maestro-project/src/file.rs), read and      *)
(* saved through the daemon's blocking workers while other programs write  *)
(* the same file in place.  A read checks the metadata of what it read; a  *)
(* save compares the file's fingerprint with the one its caller last saw,  *)
(* writes a temporary file beside it, compares again and renames.          *)
(*                                                                         *)
(* A text has two parts, so that a reader or a writer can be half way; the *)
(* fingerprint of a text (SHA-256) is the text itself.                     *)
(***************************************************************************)
EXTENDS Naturals, Sequences, FiniteSets, Functions

CONSTANTS Savers,      \* concurrent ProjectFileSave requests
          Values,      \* parts of a text
          MaxWrites    \* bound on the writes of other programs

VARIABLES
  nodes,     \* inodes: [text, mtime]; the last one is the newest
  name,      \* the inode the file's name refers to
  temporary, \* savers whose temporary file exists
  save,      \* each saver's call: [at, text, expected, slipped]
  read,      \* a ProjectFileRead: [at, node, seen, text, held]
  writer,    \* another program writing in place: [node, value] or <<>>
  writes

vars == <<nodes, name, temporary, save, read, writer, writes>>

Text(v) == <<v, v>>
Texts == Values \X Values
NoSave(outcome) == [at |-> outcome, text |-> <<>>, expected |-> <<>>, slipped |-> {}]
NoRead(outcome, text, held) ==
  [at |-> outcome, node |-> 0, seen |-> 0, text |-> text, held |-> held]
Contents == nodes[name].text

Init ==
  /\ \E v \in Values : nodes = <<[text |-> Text(v), mtime |-> 0]>>
  /\ name = 1 /\ temporary = {}
  /\ save = [c \in Savers |-> NoSave("idle")]
  /\ read = NoRead("idle", <<>>, {})
  /\ writer = <<>> /\ writes = 0

\* What a change of the name's text means to the calls under way: a save past
\* its second comparison cannot notice it any more; the read's inode had it.
Slip(text) ==
  [c \in Savers |-> IF save[c].at = "renaming"
                    THEN [save[c] EXCEPT !.slipped = @ \cup {text}] ELSE save[c]]
Hold(n, text) ==
  IF read.node = n THEN [read EXCEPT !.held = @ \cup {text}] ELSE read

-----------------------------------------------------------------------------
(* Another program opens the file and writes its two parts in place.       *)

Store(n, text) ==
  /\ nodes' = [nodes EXCEPT ![n] = [text |-> text, mtime |-> @.mtime + 1]]
  /\ save' = IF n = name THEN Slip(text) ELSE save
  /\ read' = Hold(n, text)
  /\ UNCHANGED <<name, temporary>>

WriteFirst(v) ==
  /\ writer = <<>> /\ writes < MaxWrites
  /\ writer' = <<[node |-> name, value |-> v]>> /\ writes' = writes + 1
  /\ Store(name, <<v, Contents[2]>>)

WriteSecond ==
  /\ writer # <<>>
  /\ LET w == writer[1] IN Store(w.node, <<nodes[w.node].text[1], w.value>>)
  /\ writer' = <<>> /\ UNCHANGED writes

-----------------------------------------------------------------------------
(* read_text: read_verified_bytes reads in pieces, compares the metadata of*)
(* the open file before and after, and reopens the name.                   *)

Reading(r) == read' = r /\ UNCHANGED <<nodes, name, temporary, save, writer, writes>>

\* open_parent, open_regular and the first metadata; too large, binary and
\* unsafe files are refused here.
ReadOpens ==
  /\ read.at \in {"idle", "read", "refused"}
  /\ \/ Reading([at |-> "first", node |-> name, seen |-> nodes[name].mtime,
                 text |-> <<>>, held |-> {Contents}])
     \/ Reading(NoRead("refused", <<>>, {}))

ReadFirst ==
  /\ read.at = "first"
  /\ Reading([read EXCEPT !.at = "second", !.text = <<nodes[read.node].text[1]>>])

ReadSecond ==
  /\ read.at = "second"
  /\ Reading([read EXCEPT !.at = "checking", !.text = Append(@, nodes[read.node].text[2])])

\* metadata_changed on the open file; what it returns is the later metadata.
Unchanged(n, mtime) == nodes[n].mtime = mtime

ReadRechecks ==
  /\ read.at = "checking"
  /\ IF Unchanged(read.node, read.seen)
     THEN Reading([read EXCEPT !.at = "reopening", !.seen = nodes[read.node].mtime])
     ELSE Reading(NoRead("refused", <<>>, {}))

ReadReopens ==
  /\ read.at = "reopening"
  /\ IF name = read.node /\ Unchanged(name, read.seen)
     THEN Reading(NoRead("read", read.text, read.held))
     ELSE Reading(NoRead("refused", <<>>, {}))

-----------------------------------------------------------------------------
(* save_text.                                                              *)

Saving(c, s) == save' = [save EXCEPT ![c] = s] /\ UNCHANGED <<nodes, name, read, writer, writes>>
Step(c, from, to) == save[c].at = from /\ Saving(c, [save[c] EXCEPT !.at = to])

\* The caller's fingerprint is of a text it saw at some time.
SaveBegins(c, v, expected) ==
  /\ save[c].at = "idle"
  /\ Saving(c, [at |-> "comparing", text |-> Text(v), expected |-> expected, slipped |-> {}])
  /\ UNCHANGED temporary

Matches(c) == Contents = save[c].expected

\* read_from_parent before the save: conflict, or an error of the read itself.
SaveCompares(c) ==
  /\ save[c].at = "comparing"
  /\ \/ Matches(c) /\ Step(c, "comparing", "creating")
     \/ ~Matches(c) /\ Saving(c, NoSave("conflict"))
     \/ Saving(c, NoSave("failed"))
  /\ UNCHANGED temporary

\* openat with EXCL under a unique name.
SaveCreates(c) ==
  /\ save[c].at = "creating"
  /\ \/ Step(c, "creating", "writing") /\ temporary' = temporary \cup {c}
     \/ Saving(c, NoSave("failed")) /\ UNCHANGED temporary

\* Permissions, contents and sync of the temporary file.
SaveWrites(c) == Step(c, "writing", "rechecking") /\ UNCHANGED temporary

\* A slip: the file is not compared again.
SaveTrusts(c) == Step(c, "rechecking", "renaming") /\ UNCHANGED temporary

\* The second comparison, with the temporary file written.
SaveRechecks(c) ==
  /\ save[c].at = "rechecking"
  /\ \/ Matches(c) /\ Step(c, "rechecking", "renaming")
     \/ ~Matches(c) /\ Step(c, "rechecking", "conflicting")
  /\ UNCHANGED temporary

\* renameat: the name refers to the temporary file's inode from here on.
SaveRenames(c) ==
  /\ save[c].at = "renaming"
  /\ nodes' = Append(nodes, [text |-> save[c].text, mtime |-> 0])
  /\ name' = Len(nodes) + 1
  /\ temporary' = temporary \ {c}
  /\ save' = [Slip(save[c].text) EXCEPT ![c].at = "syncing"]
  /\ UNCHANGED <<read, writer, writes>>

\* fsync of the directory; its failure is reported although the file is saved.
SaveSyncs(c) ==
  /\ save[c].at = "syncing"
  /\ \/ Saving(c, NoSave("saved"))
     \/ Saving(c, NoSave("failed"))
  /\ UNCHANGED temporary

\* The result is an error: the temporary file is unlinked.
SaveUnlinks(c) ==
  /\ \/ save[c].at = "conflicting" /\ Saving(c, NoSave("conflict"))
     \/ save[c].at \in {"writing", "rechecking", "renaming"} /\ Saving(c, NoSave("failed"))
  /\ temporary' = temporary \ {c}

Next ==
  \/ WriteSecond \/ \E v \in Values : WriteFirst(v)
  \/ ReadOpens \/ ReadFirst \/ ReadSecond \/ ReadRechecks \/ ReadReopens
  \/ \E c \in Savers :
       \/ \E v \in Values, t \in Values : SaveBegins(c, v, Text(t))
       \/ SaveCompares(c) \/ SaveCreates(c) \/ SaveWrites(c) \/ SaveRechecks(c)
       \/ SaveRenames(c) \/ SaveSyncs(c) \/ SaveUnlinks(c)

Spec == Init /\ [][Next]_vars

-----------------------------------------------------------------------------
(* Properties.                                                             *)

\* A ProjectFileRead that succeeds returns a text the file had at one moment
\* of the read, never parts of two texts, whatever was written meanwhile
\* (metadata_changed, read_verified_bytes).
ReadWhole == read.at = "read" => read.text \in read.held

\* A rename replaces the text the caller expected, or one that was written
\* between the save's second comparison and its rename; nothing older is
\* lost.  Between calls no temporary file is left (save_text).
SaveGuarded ==
  \A c \in Savers :
    /\ save[c].at = "renaming" => Contents \in {save[c].expected} \cup save[c].slipped
    /\ c \in temporary => save[c].at \notin {"idle", "saved", "conflict", "failed"}

\* Both of the above: neither a reader nor a saver is given a text nobody
\* wrote or loses one it could have noticed.
FileKept == ReadWhole /\ SaveGuarded

\* What makes it inductive.  Every write of a node counts its mtime up: while
\* that is what the read saw, what it read is the beginning of the text.
Nodes == [text : Texts, mtime : Nat]
Ended == {"idle", "saved", "conflict", "failed"}
WithTemporary == {"writing", "rechecking", "renaming", "conflicting"}
Saves == [at : Ended \cup WithTemporary \cup {"comparing", "creating", "syncing"},
          text : Texts \cup {<<>>}, expected : Texts \cup {<<>>}, slipped : SUBSET Texts]
UnderWay == {"first", "second", "checking", "reopening"}
TypeOK ==
  /\ nodes \in Seq(Nodes) /\ name \in DOMAIN nodes
  /\ temporary \subseteq {c \in Savers : save[c].at \in WithTemporary}
  /\ save \in [Savers -> Saves]
  /\ \A c \in Savers : save[c].at \notin Ended => save[c].text \in Texts
  /\ read \in [at : UnderWay \cup {"idle", "read", "refused"}, node : Nat, seen : Nat,
               text : Seq(Values), held : SUBSET Texts]
  /\ writer = <<>> \/ \E n \in DOMAIN nodes, v \in Values : writer = <<[node |-> n, value |-> v]>>
ReadSoFar ==
  /\ read.at \in UnderWay =>
       /\ read.node \in DOMAIN nodes /\ nodes[read.node].text \in read.held
       /\ read.seen <= nodes[read.node].mtime
  /\ read.at = "second" /\ Unchanged(read.node, read.seen) =>
       read.text = <<nodes[read.node].text[1]>>
  /\ read.at = "checking" /\ Unchanged(read.node, read.seen) => read.text = nodes[read.node].text
  /\ read.at = "reopening" => read.text \in read.held
IInv == TypeOK /\ ReadSoFar /\ FileKept

\* What save_text's comment promises, "atomically replaces a text file when
\* its current fingerprint matches": a rename never replaces another text.
SaveExpected ==
  \A c \in Savers : save[c].at = "renaming" => Contents = save[c].expected
=============================================================================
