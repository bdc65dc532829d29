------------------------------- MODULE FixPatch -------------------------------
(***************************************************************************)
(* What a fix changes (src/src/fix): the reviewed head is exported into a  *)
(* workspace, the fix agent edits it with its tools, the workspace is      *)
(* compared with the head, the patch is checked against the policy, and an *)
(* allowed patch becomes a commit on top of the head.                      *)
(*                                                                         *)
(* A tree is a function from paths to files.  Left out: sizes, malformed   *)
(* paths, the text of the unified diff, and the warnings of the policy,    *)
(* which stop nothing.                                                     *)
(***************************************************************************)
EXTENDS Naturals, FiniteSets

CONSTANTS
    Paths,              \* paths that a tree may have
    Below,              \* for each path, the paths inside it
    Sensitive,          \* paths of credentials and the like (SENSITIVE_GLOBS)
    Gitmodules,         \* paths of .gitmodules files
    Workflows,          \* paths of CI files
    Contents,           \* what a file may hold
    Plain,              \* contents in UTF-8 without NUL and credentials
    Binary,             \* contents that are not UTF-8, or have a NUL
    Secret,             \* contents that redaction would change
    Heads,              \* bound: the reviewed heads there may be
    MaxEdits,           \* bound: tool calls that change the workspace
    MaxFiles,           \* limits.max_files
    MaxDeleted,         \* max_deleted_files
    WorkflowsAllowed    \* allow_workflow_changes

\* MaxFiles: validate refuses a policy with more than 100.
ASSUME PatchAssumption ==
    /\ IsFiniteSet(Paths)
    /\ Below \in [Paths -> SUBSET Paths]
    /\ (Sensitive \cup Gitmodules \cup Workflows) \subseteq Paths
    /\ Plain \subseteq Contents \ (Binary \cup Secret)
    /\ MaxEdits \in Nat
    /\ MaxFiles \in 1..100 /\ MaxDeleted \in Nat
    /\ WorkflowsAllowed \in BOOLEAN

\* Regular files, links, and the commits of submodules (gitlinks).
Files == [mode : {"file", "exec", "link", "gitlink"}, content : Contents]
Nothing   == [mode |-> "nothing"]
Directory == [mode |-> "directory"]
Regular(x) == x.mode \in {"file", "exec"}

Trees == {t \in [Paths -> Files \cup {Nothing}] :
             \A p \in Paths : t[p] # Nothing => \A q \in Below[p] : t[q] = Nothing}

ASSUME HeadsAssumption == Heads \subseteq Trees

-------------------------------------------------------------------------------
(* The workspace: workspace::prepare, FixTools.                            *)

\* The head without its submodules, which are left as empty directories.
Exported(head) ==
    [p \in Paths |-> IF head[p].mode = "gitlink" \/ \E q \in Below[p] : head[q] # Nothing
                     THEN Directory ELSE head[p]]

\* resolve: no forbidden path, and no link on the way.
Resolves(w, p) ==
    /\ p \notin Sensitive
    /\ w[p].mode # "link"
    /\ \A q \in Paths : p \in Below[q] => w[q].mode # "link"

\* write_file and replace_in_file.  A file keeps its mode; directories on the
\* way are made, and nothing is written over or below what is in the way.
Written(w, p, content) ==
    [q \in Paths |->
        IF q = p THEN [mode |-> IF Regular(w[p]) THEN w[p].mode ELSE "file",
                       content |-> content]
        ELSE IF p \in Below[q] THEN Directory ELSE w[q]]

MayWrite(w, p) ==
    /\ Resolves(w, p)
    /\ w[p] # Directory
    /\ \A q \in Paths : p \in Below[q] => ~Regular(w[q])

Deleted(w, p) == [w EXCEPT ![p] = Nothing]

\* What one call of a tool makes of the workspace.
ToolCalled(w) ==
    {Written(w, p, c) : p \in {q \in Paths : MayWrite(w, q)}, c \in Plain}
        \cup {Deleted(w, p) : p \in {q \in Paths : Resolves(w, q) /\ Regular(w[q])}}

\* The workspaces that an agent can leave behind, with their heads.
Left ==
    LET after[n \in 0..MaxEdits] ==
            IF n = 0 THEN {[head |-> h, workspace |-> Exported(h)] : h \in Heads}
            ELSE after[n - 1] \cup UNION {{[l EXCEPT !.workspace = w] :
                                            w \in ToolCalled(l.workspace)} : l \in after[n - 1]}
    IN  after[MaxEdits]

-------------------------------------------------------------------------------
(* The patch: scan, diff_inner, policy::check.                             *)

\* A submodule whose directory is still there and empty did not change.
Taken(head, w) ==
    [p \in Paths |->
        IF /\ head[p].mode = "gitlink" /\ w[p] = Directory
           /\ \A q \in Below[p] : w[q] = Nothing
        THEN head[p]
        ELSE IF w[p] = Directory THEN Nothing ELSE w[p]]

\* One FileChange for each path that differs.
Diff(head, tree) ==
    {[path |-> p, old |-> head[p], new |-> tree[p]] : p \in {q \in Paths : head[q] # tree[q]}}

\* What is read of a file or of a link.
Holds(x, contents) == x.mode \in {"file", "exec", "link"} /\ x.content \in contents

\* The errors of one file: a path of credentials or submodules, a workflow, a link or a submodule on
\* either side, a new executable, a binary, credentials.
Forbidden(c) ==
    \/ c.path \in Sensitive \cup Gitmodules
    \/ c.path \in Workflows /\ ~WorkflowsAllowed
    \/ {c.old.mode, c.new.mode} \cap {"link", "gitlink"} # {}
    \/ c.new.mode = "exec" /\ c.old.mode # "exec"
    \/ Holds(c.old, Binary) \/ Holds(c.new, Binary)
    \/ Holds(c.old, Secret) \/ Holds(c.new, Secret)

\* Report::allowed: no errors.
Allowed(patch) ==
    /\ Cardinality(patch) <= MaxFiles
    /\ Cardinality({c \in patch : c.new = Nothing}) <= MaxDeleted
    /\ \A c \in patch : ~Forbidden(c)

\* patch.json is kept for delivery.
Kept(patch) == patch # {} /\ Allowed(patch)

\* What validation finds, with or without a terminal result of the fixer: a patch
\* with any error is not tested.
Outcomes ==
    {[kept |-> Kept(Diff(l.head, Taken(l.head, l.workspace))),
      clean |-> Kept(Diff(l.head, Taken(l.head, l.workspace))) /\ submitted] :
        l \in Left, submitted \in BOOLEAN}

-------------------------------------------------------------------------------
(* The commit: create_commit.                                              *)

\* Its own checks, before anything is sent to GitHub.
Accepted(patch) ==
    /\ patch # {} /\ Cardinality(patch) <= 100
    /\ \A c \in patch :
          /\ c.path \notin Sensitive
          /\ ~Holds(c.old, Binary) /\ ~Holds(c.new, Binary)
          /\ IF c.new = Nothing THEN Regular(c.old) ELSE Regular(c.new)
          /\ c.new.mode = "exec" => c.old.mode = "exec"
          /\ ~Holds(c.new, Secret)

\* The head's tree with the changes: a deleted path, or a blob with its mode.
Committed(head, patch) ==
    [p \in Paths |->
        IF \E c \in patch : c.path = p
        THEN (CHOOSE c \in patch : c.path = p).new
        ELSE head[p]]
===============================================================================
