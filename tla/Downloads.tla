------------------------------ MODULE Downloads ------------------------------
(***************************************************************************)
(* The download directory that all receiver threads share, with the user   *)
(* and the other applications of the phone, which save and delete files    *)
(* there too.                                                              *)
(*                                                                         *)
(* A session picks its paths while it reads the Introduction              *)
(* (safeDestination: a path that does not exist and that it has not        *)
(* reserved itself), creates the files only after the user's consent, and  *)
(* removes by path, at its end, those it has not finished.  Every          *)
(* attachment here has the same name, which is the only interesting case:  *)
(* path 0 is the name itself and path n is "name (n)".                     *)
(***************************************************************************)
EXTENDS Naturals, Sequences, SequencesExt

CONSTANTS Session,   \* the receiver sessions
          NoSession, \* who owns the files of the user and of other applications
          Count,     \* how many attachments the Introduction of each one names
          Path       \* the numbers a name may take

DownloadsAssumption ==
  /\ NoSession \notin Session
  /\ Count \in [Session -> Nat \ {0}]
  /\ Path \subseteq Nat

VARIABLES
  disk,      \* whose bytes the file at each path holds; {}: there is no file
  plan,      \* m_files of each session: the paths of its attachments, in order
  objects,   \* the attachments that have a QFile (IncomingFile.file # 0)
  attached,  \* those whose QFile writes to the file now at its path
  done,      \* history: the attachments reported as received
  contested  \* history: paths that a session held while another claim was made

fileVars == <<disk, plan, objects, attached, done, contested>>

Attachment == UNION {{s} \X (1..Count[s]) : s \in Session}
Outsider == <<NoSession, 0>>

PathOf(a) == plan[a[1]][a[2]]
Planned(s) == {<<s, i>> : i \in DOMAIN plan[s]}
OwnFiles(s) == objects \cap Planned(s)

\* The paths where session s has yet to create, write or remove a file.
Claims(s) == {PathOf(a) : a \in Planned(s) \ done}

Exists(p) == disk[p] # {}

TypeOK ==
  /\ disk \in [Path -> SUBSET (Attachment \cup {Outsider})]
  /\ plan \in [Session -> Seq(Path)]
  /\ objects \in SUBSET Attachment
  /\ attached \in SUBSET objects
  /\ done \in SUBSET Attachment
  /\ contested \in SUBSET Path

\* The shared directory may already hold a file of that name.
Init ==
  /\ disk \in [Path -> {{}, {Outsider}}]
  /\ \A p \in Path : disk[p] # {} => p = 0
  /\ plan = [s \in Session |-> <<>>]
  /\ objects = {} /\ attached = {} /\ done = {} /\ contested = {}

-----------------------------------------------------------------------------
(* The sessions. *)

\* mutant of Free: only the directory is looked at.
FreeOnDisk(s, p) == ~Exists(p)

\* mutant of Free: the numbers of the others are not looked at.
FreeInPlan(s, p) == p \notin Range(plan[s])

\* Neither on disk nor reserved by this session (m_reservedPaths).
Free(s, p) == ~Exists(p) /\ p \notin Range(plan[s])

\* safeDestination, for the next attachment of the Introduction.
Reserve(s) ==
  /\ Len(plan[s]) < Count[s]
  /\ \E p \in Path :
       /\ Free(s, p)
       /\ \A q \in Path : Free(s, q) => p <= q
       /\ plan' = [plan EXCEPT ![s] = Append(@, p)]
       /\ contested' = IF \E t \in Session \ {s} : p \in Claims(t)
                       THEN contested \cup {p} ELSE contested
  /\ UNCHANGED <<disk, objects, attached, done>>

\* QFile::open(WriteOnly) creates the file, or truncates the one that is there;
\* whoever has that one open goes on writing to it.
OpenFile(s, a) ==
  /\ a \in Planned(s) \ (objects \cup done)
  /\ disk' = [disk EXCEPT ![PathOf(a)] = {a}]
  /\ objects' = objects \cup {a}
  /\ attached' = attached \cup {a}
  /\ UNCHANGED <<plan, done, contested>>

\* The QFile exists all the same, and closeFiles will remove its path.
OpenFails(s, a) ==
  /\ a \in Planned(s) \ (objects \cup done)
  /\ objects' = objects \cup {a}
  /\ UNCHANGED <<disk, plan, attached, done, contested>>

AllOpen(s) == Planned(s) \subseteq objects \cup done

Write(a) ==
  disk' = IF a \in attached
          THEN [disk EXCEPT ![PathOf(a)] = @ \cup {a}] ELSE disk

\* A chunk that is not the last (processIncomingFile).
WriteChunk(s, a) ==
  /\ a \in OwnFiles(s)
  /\ Write(a)
  /\ UNCHANGED <<plan, objects, attached, done, contested>>

\* mutant of FinishFile: the file is forgotten, not closed.
FinishFileOpen(s, a) ==
  /\ a \in OwnFiles(s)
  /\ Write(a)
  /\ objects' = objects \ {a}
  /\ done' = done \cup {a}
  /\ UNCHANGED <<plan, attached, contested>>

\* The last chunk: the file is closed, reported and forgotten.
FinishFile(s, a) ==
  /\ a \in OwnFiles(s)
  /\ Write(a)
  /\ objects' = objects \ {a}
  /\ attached' = attached \ {a}
  /\ done' = done \cup {a}
  /\ UNCHANGED <<plan, contested>>

\* mutant of CloseFiles: only the objects are deleted.
CloseFilesKept(s) ==
  /\ plan[s] # <<>>
  /\ objects' = objects \ OwnFiles(s)
  /\ attached' = attached \ OwnFiles(s)
  /\ plan' = [plan EXCEPT ![s] = <<>>]
  /\ UNCHANGED <<disk, done, contested>>

\* mutant of CloseFiles: finished files are still listed, and removed too.
CloseFilesAll(s) ==
  /\ plan[s] # <<>>
  /\ disk' = [p \in Path |-> IF p \in {PathOf(a) : a \in Planned(s)} THEN {} ELSE disk[p]]
  /\ attached' = attached \ OwnFiles(s)
  /\ objects' = objects \ OwnFiles(s)
  /\ plan' = [plan EXCEPT ![s] = <<>>]
  /\ UNCHANGED <<done, contested>>

\* closeFiles, at the end of the destructor: whatever is at the path is removed.
CloseFiles(s) ==
  /\ plan[s] # <<>>
  /\ LET removed == {PathOf(a) : a \in OwnFiles(s)}
     IN  /\ disk' = [p \in Path |-> IF p \in removed THEN {} ELSE disk[p]]
         /\ attached' = {a \in attached \ OwnFiles(s) : PathOf(a) \notin removed}
  /\ objects' = objects \ OwnFiles(s)
  /\ plan' = [plan EXCEPT ![s] = <<>>]
  /\ UNCHANGED <<done, contested>>

-----------------------------------------------------------------------------
(* The user and the other applications. *)

OtherSaves(p) ==
  /\ ~Exists(p)
  /\ disk' = [disk EXCEPT ![p] = {Outsider}]
  /\ contested' = IF \E s \in Session : p \in Claims(s)
                  THEN contested \cup {p} ELSE contested
  /\ UNCHANGED <<plan, objects, attached, done>>

UserDeletes(p) ==
  /\ Exists(p)
  /\ disk' = [disk EXCEPT ![p] = {}]
  /\ attached' = {a \in attached : PathOf(a) # p}
  /\ UNCHANGED <<plan, objects, done, contested>>

-----------------------------------------------------------------------------
(* Safety. *)

\* A file that nobody is writing: a received one, or one of the user's.
Settled(p) == Exists(p) /\ disk[p] \subseteq done \cup {Outsider}

\* Only the user changes a settled file, except at a path that was claimed
\* twice: safeDestination, creation after consent and removal by path never
\* reach a file that was there when the path was chosen, nor one that another
\* attachment of the same session has filled.
KeepsOthers ==
  [][\A p \in Path : Settled(p) /\ disk'[p] # disk[p]
                       => p \in contested \/ UserDeletes(p)]_fileVars

\* Bytes of an attachment that is not complete are on the disk only as long as
\* its session has the object for which closeFiles removes that path, on every
\* way out of the session.
NoPartialLeft ==
  \A p \in Path : \A a \in disk[p] \ (done \cup {Outsider}) :
    a \in objects /\ PathOf(a) = p

-----------------------------------------------------------------------------
(* What README.md says of the receiver: "name collisions create a new      *)
(* numbered file instead of overwriting an existing one".                  *)
NeverOverwrites ==
  [][\A p \in Path : Settled(p) /\ disk'[p] # disk[p] => UserDeletes(p)]_fileVars
=============================================================================
