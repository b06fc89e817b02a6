-------------------------- MODULE CandidateChange ---------------------------
(***************************************************************************)
(* A candidate change: registered under the mutation policy, and edited in *)
(* an isolated workspace under path rules and budgets.  Each call is       *)
(* synchronous, hence one step; nothing under src/src drives them, so they *)
(* come in any order.                                                      *)
(***************************************************************************)
EXTENDS Integers, FiniteSets

CONSTANTS
  Candidate,
  Content,       \* what a candidate changes: scope, code, config and parent
  Forbidden,     \* contents the mutation policy refuses
  Path,          \* paths as an edit writes them: a file may be written in several ways
  File,          \* files inside the workspace
  Outside,       \* any place that is not
  FileOf,        \* path -> the file it resolves to, or Outside
  Protected,     \* paths that are written with a protected prefix
  Allowed,       \* paths that are written with an allowed prefix
  MaxFiles,      \* budget: files changed
  MaxLines       \* budget: lines added

ASSUME CandidateAssumption ==
  /\ Forbidden \subseteq Content /\ Protected \subseteq Path /\ Allowed \subseteq Path
  /\ FileOf \in [Path -> File \cup {Outside}] /\ Outside \notin File
  /\ MaxFiles \in Nat /\ MaxLines \in Nat

VARIABLES
  registry,   \* candidate -> its content and status, or Unregistered
  workspace   \* candidate -> its workspace, or NoWorkspace

candidateVars == <<registry, workspace>>

Unregistered == [content |-> "none", status |-> "none"]
NoWorkspace  == [status |-> "none", files |-> {}, added |-> 0]

CandidateInit ==
  /\ registry = [c \in Candidate |-> Unregistered]
  /\ workspace = [c \in Candidate |-> NoWorkspace]

Registered(c) == registry[c] # Unregistered

-----------------------------------------------------------------------------
(* CandidateRegistry.                                                      *)

Equivalent(content) == \E d \in Candidate : registry[d].content = content

\* Every refusal leaves the registry as it is.
Register(c, content) ==
  /\ content \notin Forbidden /\ ~Registered(c) /\ ~Equivalent(content)
  /\ registry' = [registry EXCEPT ![c] = [content |-> content, status |-> "CANDIDATE"]]
  /\ UNCHANGED workspace

Mark(c, status) ==
  /\ Registered(c) /\ status \in {"REJECTED", "QUARANTINED"}
  /\ registry' = [registry EXCEPT ![c].status = status]
  /\ UNCHANGED workspace

-----------------------------------------------------------------------------
(* CandidateWorkspaceManager and CandidateMaterializer.                    *)

CreateWorkspace(c) ==
  /\ workspace' = [workspace EXCEPT ![c] = [NoWorkspace EXCEPT !.status = "CREATED"]]
  /\ UNCHANGED registry

DestroyWorkspace(c) ==
  /\ workspace[c] # NoWorkspace
  /\ workspace' = [workspace EXCEPT ![c] = NoWorkspace]
  /\ UNCHANGED registry

\* resolve_path: only the escape is looked for in the file the path resolves to; the
\* prefixes are compared with the path as it is written.
Resolves(path) == FileOf[path] # Outside /\ path \notin Protected /\ path \in Allowed

\* record_write: a path that resolve_path refuses is not noted; the budgets are
\* looked at after the edit was counted.
RecordWrite(w, path) ==
  LET changed == [status |-> w.status, files |-> w.files \cup {path}, added |-> w.added + 1]
      over    == Cardinality(changed.files) > MaxFiles \/ changed.added > MaxLines
  IN  IF ~Resolves(path) THEN [w EXCEPT !.status = "QUARANTINED"]
      ELSE IF over THEN [changed EXCEPT !.status = "QUARANTINED"]
      ELSE changed

Refused(w, path) ==
  \/ ~Resolves(path)
  \/ Cardinality(w.files \cup {path}) > MaxFiles \/ w.added + 1 > MaxLines

\* apply, of no edit or of one (a longer list is a sequence of these, the last of
\* which finalizes): finalize does not look at what the status was.  Bound: a
\* workspace over its budget of lines is not edited any further.
Materialize(c, edits) ==
  /\ workspace[c] # NoWorkspace
  /\ edits = {} \/ workspace[c].added <= MaxLines
  /\ workspace' = [workspace EXCEPT ![c] =
       IF edits = {} THEN [@ EXCEPT !.status = "MATERIALIZED"]
       ELSE LET path == CHOOSE x \in edits : TRUE IN
            IF Refused(@, path) THEN RecordWrite(@, path)
            ELSE [RecordWrite(@, path) EXCEPT !.status = "MATERIALIZED"]]
  /\ UNCHANGED registry

-----------------------------------------------------------------------------
CandidateNext ==
  \E c \in Candidate :
    \/ \E content \in Content : Register(c, content)
    \/ \E status \in {"REJECTED", "QUARANTINED"} : Mark(c, status)
    \/ CreateWorkspace(c) \/ DestroyWorkspace(c)
    \/ \E edits \in {{}} \cup {{path} : path \in Path} : Materialize(c, edits)

-----------------------------------------------------------------------------
\* A change that was rejected or quarantined never comes back under another id, and
\* what the policy forbids is never registered.
NoSecondChance ==
  \A c \in Candidate : Registered(c) =>
    /\ registry[c].content \notin Forbidden
    /\ \A d \in Candidate \ {c} : registry[d].content # registry[c].content

\* Whatever is applied to a workspace in whatever order, its change set names only files
\* inside it, by paths that are written as the policy allows, not even one whose edit
\* was refused.  (Nothing is said of a protected file that a path reaches in another way.)
ChangeSetInPolicy ==
  \A c \in Candidate : \A path \in workspace[c].files :
    FileOf[path] \in File /\ path \in Allowed \ Protected

\* The refusal PROTECTED_PATH: no change set reaches a protected file, however its path is
\* written.
ProtectedStays ==
  \A c \in Candidate : \A path \in workspace[c].files :
    FileOf[path] \notin {FileOf[p] : p \in Protected}
=============================================================================
