------------------------------- MODULE Plugins -------------------------------
(***************************************************************************)
(* willied/src/plugins.rs with the profile.* part of handlers.rs, and the  *)
(* profiles plugin (lib.rs, apply.rs, model.rs, git.rs).                   *)
(*                                                                         *)
(* The host's mutex is held for a whole call, so calls do not overlap; a   *)
(* call is several writes all the same, and may fail, panic or die with    *)
(* the daemon between two of them or in the middle of one: `fs::write`     *)
(* truncates first, so what it was writing is then torn.                   *)
(*                                                                         *)
(* One profile and one project.  JSON is a tree, key order and indentation *)
(* left out; Markdown is a sequence of the two markers and pieces of text, *)
(* blank lines left out.                                                   *)
(***************************************************************************)
EXTENDS Naturals, Sequences, FiniteSets
LOCAL INSTANCE SequencesExt

CONSTANTS
    Settings,       \* settings.json contents a person or an agent may write
    Markdown,       \* CLAUDE.md contents of the project
    Pieces,         \* CLAUDE.md contents of the profile
    MaxRequests,    \* bound: calls into the host
    MaxEdits,       \* bound: writes of people, agents and the other machine
    MaxFaults,      \* bound: I/O errors, panics and daemon deaths
    Racing          \* whether an agent may write while a call is under way

ASSUME PluginsAssumption == /\ {MaxRequests, MaxEdits, MaxFaults} \subseteq Nat
                            /\ Racing \in BOOLEAN

VARIABLES
    enabled,    \* PluginHost.enabled: a flag, and the projects
    saved,      \* enabled.toml
    degraded,
    call,       \* the call into the profiles plugin under way
    store,      \* the profile's directory and its repository
    remote,     \* the repository behind `origin`
    target,     \* the files a profile is applied to
    backups,    \* what lies under .willie-bak
    hostUp, requests, edits, faults,
    person,     \* history: what somebody last wrote to a target
    settled     \* history: an apply completed and nothing was written since

files == <<store, remote, target, backups>>
bounds == <<hostUp, requests, edits, faults>>
seen == <<person, settled>>
pluginVars == <<enabled, saved, degraded, call, files, bounds, seen>>

-----------------------------------------------------------------------------
(* File contents.                                                           *)
Absent == [t |-> "absent"]
Bad == [t |-> "bad"]                        \* does not parse
Refused == [t |-> "refused"]                \* an ApplyError instead of a content
Leaf(v) == [t |-> "leaf", v |-> v]
Obj(m) == [t |-> "obj", m |-> m]
Text(s) == [t |-> "text", s |-> s]
EmptyObj == Obj(<<>>)

Targets == {"settings", "claude_md", "rule", "harness"}
Fragments == {"settings", "instructions", "mcp", "rule"}
Toml(active, scope) == [t |-> "toml", active |-> active, scope |-> scope]
\* What a torn write of a target leaves.
Torn(p) == IF p = "claude_md" THEN Text(<<>>) ELSE Bad
Json(c) == c.t \notin {"absent", "bad"}

-----------------------------------------------------------------------------
(* apply.rs: the merge.                                                     *)

RECURSIVE deep_merge(_, _)
deep_merge(t, f) ==
    IF f.t # "obj" \/ t.t # "obj" THEN f
    ELSE Obj([k \in DOMAIN t.m \cup DOMAIN f.m |->
                IF k \notin DOMAIN f.m THEN t.m[k]
                ELSE IF k \notin DOMAIN t.m THEN f.m[k]
                ELSE deep_merge(t.m[k], f.m[k])])

merge_json(t, f) == IF Json(t) /\ Json(f) THEN deep_merge(t, f) ELSE Refused

\* merge_value under a key, which is made if it is not there.
merge_under(t, key, f) ==
    IF ~Json(t) \/ ~Json(f) \/ t.t # "obj" THEN Refused
    ELSE LET slot == IF key \in DOMAIN t.m THEN t.m[key] ELSE EmptyObj
         IN Obj([k \in DOMAIN t.m \cup {key} |->
                   IF k = key THEN deep_merge(slot, f) ELSE t.m[k]])

\* The block to replace: from the first begin to the first end after it.
marker_span(s) ==
    LET from == SelectInSeq(s, LAMBDA x : x = "begin")
        len == SelectInSeq(SubSeq(s, from + 1, Len(s)), LAMBDA x : x = "end")
    IN [from |-> from, to |-> IF len = 0 THEN 0 ELSE from + len]
marker_block(f) == <<"begin">> \o f \o <<"end">>

\* Seeded fault: a block that is there already is not looked for.
merge_markdown_appends(s, f) == Text(s \o marker_block(f))

merge_markdown(s, f) ==
    LET span == marker_span(s) IN
    IF span.from = 0 THEN Text(s \o marker_block(f))
    ELSE IF span.to = 0 THEN Refused
    ELSE Text(SubSeq(s, 1, span.from - 1) \o marker_block(f)
                \o SubSeq(s, span.to + 1, Len(s)))

plan_settings(active, frag, existing) ==
    LET base == IF existing = Absent THEN EmptyObj ELSE existing
        merged == IF "settings" \in active THEN merge_json(base, frag.settings) ELSE base
    IN IF "mcp" \in active /\ merged # Refused
       THEN merge_under(merged, "mcpServers", frag.mcp) ELSE merged

plan_instructions(frag, existing) ==
    merge_markdown(IF existing = Absent THEN <<>> ELSE existing.s, frag.instructions.s)

Change(path, after) ==
    [path |-> path, after |-> after,
     kind |-> IF target[path] = Absent THEN "create"
              ELSE IF path = "rule" THEN "overwrite" ELSE "merge"]

\* plan_project_changes with plan_changes and plan_harness_settings_change:
\* one change per destination an active fragment has, in this order.
plan_project_changes ==
    LET active == store.toml.active
        frag == store.frag
        wanted == <<{"settings", "mcp"}, {"instructions"}, {"rule"}, {"settings"}>>
        all == <<Change("settings", plan_settings(active, frag, target["settings"])),
                 Change("claude_md", plan_instructions(frag, target["claude_md"])),
                 Change("rule", frag.rule),
                 Change("harness", plan_settings(active, frag, target["harness"]))>>
        on == {i \in 1..4 : /\ wanted[i] \cap active # {}
                            /\ i = 4 => store.toml.scope = "global"}
    IN SelectSeq(all, LAMBDA c : \E i \in on : all[i] = c)
\* One bad fragment or target refuses the whole plan, before any write.
plan_refused == \E i \in DOMAIN plan_project_changes :
                   plan_project_changes[i].after = Refused

-----------------------------------------------------------------------------
(* The host.                                                                *)
NoCall == [m |-> "none", pc |-> "idle", changes |-> <<>>, i |-> 0, fragment |-> "none",
           content |-> Absent]
Methods == {"list", "create", "read_fragment", "write_fragment", "check", "apply",
            "set_remote", "push", "pull"}
Off == [usage |-> FALSE, projects |-> {}]

EnabledState_load == IF saved.t = "rows" THEN saved.rows ELSE Off

\* EnabledState::save: a failure is logged and the change stands.
EnabledState_save(rows) ==
    \/ saved' = [t |-> "rows", rows |-> rows] /\ UNCHANGED faults
    \/ faults < MaxFaults /\ faults' = faults + 1 /\ saved' \in {saved, Bad}

is_enabled(id) == IF id = "usage" THEN enabled.usage ELSE enabled.projects # {}

Free == hostUp /\ call = NoCall
Request == Free /\ requests < MaxRequests /\ requests' = requests + 1

\* set_enabled; both plugins keep the default hooks, which succeed.  Refused:
\* an unknown id, a project for the global plugin or none for the other one.
set_enabled(id, project, on) ==
    /\ Request
    /\ (id = "usage") = (project = "none")
    /\ enabled' = IF id = "usage" THEN [enabled EXCEPT !.usage = on]
                  ELSE IF on THEN [enabled EXCEPT !.projects = @ \cup {project}]
                  ELSE [enabled EXCEPT !.projects = @ \ {project}]
    /\ degraded' = degraded \ {id}
    /\ EnabledState_save(enabled')
    /\ UNCHANGED <<call, files, hostUp, edits, seen>>
plugin_enable(id, project) == set_enabled(id, project, TRUE)
plugin_disable(id, project) == set_enabled(id, project, FALSE)

\* handle for profile.*: what is refused before the plugin acts on anything.
\* A coded refusal leaves `degraded` as it is.
existing_profile == store.toml # Absent
\* The daemon finds the project's workspace first: a project it does not know
\* is refused, and no project means no workspace.
resolve_profile_targets(project) ==
    CASE project = "known" -> "workspace" [] project = "none" -> "none" [] OTHER -> "refused"
Coded(m, project, fragment) ==
    \/ resolve_profile_targets(project) = "refused" \/ ~is_enabled("profile")
    \/ m \in {"check", "apply"} /\ resolve_profile_targets(project) # "workspace"
    \/ m = "create" /\ store.dir
    \/ m \notin {"list", "create"} /\ ~existing_profile
    \/ m \in {"read_fragment", "write_fragment"} /\ fragment = "unknown"
    \/ m \in {"check", "apply"} /\ store.toml.t = "toml" /\ plan_refused

\* The first step of a method that changes something.
First(m) == CASE m = "create" -> "mkdir" [] m = "write_fragment" -> "file"
              [] m = "apply" -> "backup" [] OTHER -> m

handle(m, project, fragment, content, changes) ==
    /\ Request
    /\ ~Coded(m, project, fragment)
    /\ call' = [m |-> m, pc |-> First(m), i |-> 1, fragment |-> fragment,
                content |-> content, changes |-> changes]
    /\ UNCHANGED <<enabled, saved, degraded, files, hostUp, edits, faults, seen>>
apply_to_project ==
    store.toml # Bad /\ handle("apply", "known", "none", Absent, plan_project_changes)

\* list, read_fragment and check only read: a healthy answer is all they leave.
Healthy(m, project, fragment) ==
    /\ Free /\ ~Coded(m, project, fragment)
    /\ degraded' = degraded \ {"profile"}
    /\ UNCHANGED <<enabled, saved, call, files, bounds, seen>>
\* A profile whose profile.toml does not parse is left out of the list.
list == \E p \in {"none", "known"} : Healthy("list", p, "none")
read_fragment(f) == \E p \in {"none", "known"} : Healthy("read_fragment", p, f)
check == store.toml # Bad /\ Healthy("check", "known", "none")
handle_refused ==
    /\ Free
    /\ \E m \in Methods, p \in {"none", "known", "unknown"}, f \in {"mcp", "unknown"} :
          Coded(m, p, f) = TRUE
    /\ UNCHANGED pluginVars
\* A profile.toml that does not parse is an internal fault of the plugin.
handle_torn_toml ==
    /\ Free /\ is_enabled("profile") /\ store.toml = Bad   \* check or apply
    /\ degraded' = degraded \cup {"profile"}
    /\ UNCHANGED <<enabled, saved, call, files, bounds, seen>>

\* on_event calls into every enabled plugin; only a panic degrades it.
on_event(id) ==
    /\ hostUp /\ call = NoCall /\ is_enabled(id) /\ faults < MaxFaults
    /\ faults' = faults + 1 /\ degraded' = degraded \cup {id}
    /\ UNCHANGED <<enabled, saved, call, files, hostUp, requests, edits, seen>>

-----------------------------------------------------------------------------
(* The methods of the profiles plugin that write, step by step.             *)
Step(m, pc) == call.m = m /\ call.pc = pc
Then(pc) == call' = [call EXCEPT !.pc = pc] /\ UNCHANGED degraded
Answer == call' = NoCall /\ degraded' = degraded \ {"profile"}
Fault == call' = NoCall /\ degraded' = degraded \cup {"profile"}
PluginOnly == UNCHANGED <<enabled, saved, bounds>>
StoreOnly == UNCHANGED <<remote, target, backups, person>> /\ settled' = FALSE

create_mkdir ==
    /\ Step("create", "mkdir") /\ Then("toml")
    /\ store' = [store EXCEPT !.dir = TRUE]
    /\ StoreOnly /\ PluginOnly
write_profile_toml ==
    /\ call.pc = "toml"
    /\ \/ /\ call.m = "create" /\ Then("scaffold")
          /\ store' = [store EXCEPT !.toml = Toml({}, "project")]
       \/ /\ call.m = "write_fragment" /\ store.toml # Bad /\ Then("commit")
          /\ store' = [store EXCEPT !.toml.active = @ \cup {call.fragment}]
       \/ /\ call.m = "write_fragment" /\ store.toml = Bad /\ Fault /\ UNCHANGED store
    /\ StoreOnly /\ PluginOnly
create_scaffold ==
    /\ Step("create", "scaffold") /\ Then("init")
    /\ store' = [store EXCEPT !.frag.settings = EmptyObj, !.frag.instructions = Text(<<>>)]
    /\ StoreOnly /\ PluginOnly
git_init ==
    /\ Step("create", "init") /\ Then("commit")
    /\ store' = [store EXCEPT !.repo = TRUE]
    /\ StoreOnly /\ PluginOnly
write_fragment ==
    /\ Step("write_fragment", "file") /\ Then("toml")
    /\ store' = [store EXCEPT !.frag[call.fragment] = call.content]
    /\ StoreOnly /\ PluginOnly

\* commit_all: everything under the directory, and nothing if it is the same.
tree == [toml |-> store.toml, frag |-> store.frag]
commit_all ==
    /\ call.pc = "commit"
    /\ IF store.repo
       THEN /\ Answer
            /\ store' = IF store.head = tree THEN store
                        ELSE [store EXCEPT !.head = tree, !.commits = @ \cup {<<"here", Cardinality(store.commits)>>}]
       ELSE Fault /\ UNCHANGED store
    /\ StoreOnly /\ PluginOnly

\* Seeded fault: the backup of a file that is replaced whole is skipped.
backup_changes_merges ==
    /\ Step("apply", "backup")
    /\ IF call.i > Len(call.changes) THEN call' = [call EXCEPT !.pc = "write", !.i = 1] /\ UNCHANGED backups
       ELSE LET c == call.changes[call.i] IN
            /\ backups' = IF c.kind = "merge" THEN backups \cup {<<c.path, target[c.path]>>} ELSE backups
            /\ call' = [call EXCEPT !.i = @ + 1]
    /\ UNCHANGED <<store, remote, target, degraded, seen>> /\ PluginOnly

\* backup_changes: the content a changed file has now, file by file, and all
\* of them before the first write.
backup_changes ==
    /\ Step("apply", "backup")
    /\ IF call.i > Len(call.changes)
       THEN call' = [call EXCEPT !.pc = "write", !.i = 1] /\ UNCHANGED backups
       ELSE LET c == call.changes[call.i] IN
            /\ backups' = IF c.kind = "create" \/ target[c.path] = Absent THEN backups
                          ELSE backups \cup {<<c.path, target[c.path]>>}
            /\ call' = [call EXCEPT !.i = @ + 1]
    /\ UNCHANGED <<store, remote, target, degraded, seen>> /\ PluginOnly

write_changes ==
    /\ Step("apply", "write")
    /\ IF call.i > Len(call.changes)
       THEN Answer /\ settled' = TRUE /\ UNCHANGED target
       ELSE LET c == call.changes[call.i] IN
            /\ target' = [target EXCEPT ![c.path] = c.after]
            /\ call' = [call EXCEPT !.i = @ + 1]
            /\ UNCHANGED <<degraded, settled>>
    /\ UNCHANGED <<store, remote, backups, person>> /\ PluginOnly

\* git.rs: set_remote, push and pull.
git_set_remote == [store EXCEPT !.origin = TRUE]
set_remote ==
    /\ Step("set_remote", "set_remote")
    /\ IF store.repo THEN Answer /\ store' = git_set_remote ELSE Fault /\ UNCHANGED store
    /\ StoreOnly /\ PluginOnly
\* A push needs a remote that has nothing we have not; its -u makes the
\* upstream a pull needs.
git_push == store.origin /\ store.head # Absent /\ remote.commits \subseteq store.commits
push ==
    /\ Step("push", "push")
    /\ IF git_push
       THEN /\ Answer /\ store' = [store EXCEPT !.upstream = TRUE]
            /\ remote' = [commits |-> store.commits, head |-> store.head]
       ELSE Fault /\ UNCHANGED <<store, remote>>
    /\ UNCHANGED <<target, backups, seen>> /\ PluginOnly

\* Seeded fault: the remote's branch is taken as it is.
pull_resets ==
    /\ Step("pull", "pull") /\ store.upstream /\ Answer
    /\ store' = [store EXCEPT !.commits = remote.commits, !.head = remote.head,
                              !.toml = remote.head.toml, !.frag = remote.head.frag]
    /\ StoreOnly /\ PluginOnly

\* pull --ff-only: a history that diverged, or an uncommitted file it would
\* overwrite, is a conflict.
git_pull ==
    CASE ~store.upstream -> "error"
      [] remote.commits \subseteq store.commits -> "up to date"
      [] store.commits \subseteq remote.commits /\ store.head = tree -> "fast-forward"
      [] OTHER -> "pull_conflict"
\* A conflict is profile_sync_conflict, which is a refusal and no fault.
pull ==
    /\ Step("pull", "pull")
    /\ \/ git_pull = "error" /\ Fault /\ UNCHANGED store
       \/ git_pull = "up to date" /\ Answer /\ UNCHANGED store
       \/ git_pull = "pull_conflict" /\ call' = NoCall /\ UNCHANGED <<degraded, store>>
       \/ /\ git_pull = "fast-forward" /\ Answer
          /\ store' = [store EXCEPT !.commits = remote.commits, !.head = remote.head,
                                    !.toml = remote.head.toml, !.frag = remote.head.frag]
    /\ StoreOnly /\ PluginOnly

-----------------------------------------------------------------------------
(* What goes wrong, and what others write.                                  *)

\* What the write under way leaves behind when it does not complete.
interrupted ==
    \/ UNCHANGED files
    \/ /\ call.pc = "toml" /\ store' = [store EXCEPT !.toml = Bad]
       /\ UNCHANGED <<remote, target, backups>>
    \/ /\ call.pc = "file" /\ store' = [store EXCEPT !.frag[call.fragment] =
                                          IF call.fragment = "instructions" THEN Text(<<>>) ELSE Bad]
       /\ UNCHANGED <<remote, target, backups>>
    \/ /\ call.pc = "write" /\ call.i \in DOMAIN call.changes
       /\ target' = [target EXCEPT ![call.changes[call.i].path] = Torn(call.changes[call.i].path)]
       /\ UNCHANGED <<store, remote, backups>>
Faulty == faults < MaxFaults /\ faults' = faults + 1

\* An I/O or git error, or a panic that `guarded` catches.
call_fails ==
    /\ call # NoCall /\ Faulty /\ Fault /\ interrupted
    /\ settled' = FALSE /\ UNCHANGED <<enabled, saved, hostUp, requests, edits, person>>
daemon_dies ==
    /\ hostUp /\ Faulty /\ hostUp' = FALSE /\ call' = NoCall /\ interrupted
    /\ settled' = FALSE
    /\ UNCHANGED <<enabled, saved, degraded, requests, edits, person>>
\* PluginHost::new.
host_starts ==
    /\ ~hostUp /\ hostUp' = TRUE
    /\ enabled' = EnabledState_load /\ degraded' = {}
    /\ UNCHANGED <<saved, call, files, requests, edits, faults, seen>>

Edit == edits < MaxEdits /\ edits' = edits + 1 /\ settled' = FALSE
\* A person or an agent writes or deletes a file a profile is applied to.
person_writes(p, c) ==
    /\ Edit /\ (Racing \/ call.m # "apply")
    /\ target' = [target EXCEPT ![p] = c]
    /\ person' = [person EXCEPT ![p] = c]
    /\ UNCHANGED <<enabled, saved, degraded, call, store, remote, backups, hostUp,
                   requests, faults>>
\* A fragment is turned on or off, or the scope set, in profile.toml itself.
person_edits_toml(f, scope) ==
    /\ Edit /\ call = NoCall /\ store.toml.t = "toml"
    /\ store' = [store EXCEPT !.toml.scope = scope,
                 !.toml.active = IF f \in @ THEN @ \ {f} ELSE @ \cup ({f} \cap Fragments)]
    /\ UNCHANGED <<enabled, saved, degraded, call, remote, target, backups, hostUp,
                   requests, faults, person>>
\* Another machine pushes to the profile's remote.
other_machine ==
    /\ Edit /\ remote.commits # {}
    /\ \E a \in SUBSET {"settings", "instructions"} :
          remote' = [commits |-> remote.commits \cup {<<"there", Cardinality(remote.commits)>>},
                     head |-> [remote.head EXCEPT !.toml = Toml(a, "project")]]
    /\ UNCHANGED <<enabled, saved, degraded, call, store, target, backups, hostUp,
                   requests, faults, person>>

-----------------------------------------------------------------------------
NoFile == [p \in Targets |-> Absent]
NoFragment == [f \in Fragments |-> IF f = "instructions" THEN Text(<<>>) ELSE Bad]
NoStore == [dir |-> FALSE, toml |-> Absent, frag |-> NoFragment, repo |-> FALSE,
            head |-> Absent, commits |-> {}, origin |-> FALSE, upstream |-> FALSE]
\* What create makes.
Scaffold == LET toml == Toml({}, "project")
                frag == [NoFragment EXCEPT !.settings = EmptyObj]
            IN [NoStore EXCEPT !.dir = TRUE, !.toml = toml, !.frag = frag, !.repo = TRUE,
                  !.head = [toml |-> toml, frag |-> frag], !.commits = {<<"here", 0>>}]
\* The daemon starts with nothing enabled and no profile, or with what an
\* earlier one left: a profile that is on in the project.
PluginsInit ==
    /\ \/ enabled = Off /\ saved = Absent /\ store = NoStore
       \/ /\ enabled = [Off EXCEPT !.projects = {"known"}]
          /\ saved = [t |-> "rows", rows |-> enabled]
          /\ \E synced \in BOOLEAN :
                store = [Scaffold EXCEPT !.origin = synced, !.upstream = synced]
    /\ degraded = {} /\ call = NoCall
    /\ remote = IF store.upstream THEN [commits |-> store.commits, head |-> store.head]
                ELSE [commits |-> {}, head |-> Absent]
    /\ target = NoFile /\ backups = {}
    /\ hostUp = TRUE /\ requests = 0 /\ edits = 0 /\ faults = 0
    /\ person = NoFile /\ settled = FALSE

Contents(p) == CASE p \in {"settings", "mcp"} -> Settings
                 [] p = "harness" -> {EmptyObj}
                 [] p = "claude_md" -> {Text(s) : s \in Markdown}
                 [] p = "instructions" -> {Text(s) : s \in Pieces}
                 [] p = "rule" -> {Leaf("rule")}
HostStep ==
    \/ \E id \in {"usage", "profile"}, p \in {"none", "known"} :
          plugin_enable(id, p) \/ plugin_disable(id, p)
    \/ \E m \in {"create", "set_remote", "push", "pull"} : handle(m, "none", "none", Absent, <<>>)
    \/ \E f \in Fragments : \E c \in Contents(f) : handle("write_fragment", "none", f, c, <<>>)
    \/ apply_to_project \/ list \/ check \/ (\E f \in Fragments : read_fragment(f))
    \/ handle_refused \/ handle_torn_toml
    \/ \E id \in {"usage", "profile"} : on_event(id)
PluginStep ==
    \/ create_mkdir \/ write_profile_toml \/ create_scaffold \/ git_init
    \/ write_fragment \/ commit_all \/ backup_changes \/ write_changes
    \/ set_remote \/ push \/ pull
Others ==
    \/ \E p \in Targets : \E c \in Contents(p) \cup {Absent} : person_writes(p, c)
    \/ \E f \in Fragments \cup {"none"}, s \in {"project", "global"} : person_edits_toml(f, s)
    \/ other_machine
PluginsNext == HostStep \/ PluginStep \/ call_fails \/ daemon_dies \/ host_starts \/ Others
PluginsSpec == PluginsInit /\ [][PluginsNext]_pluginVars

-----------------------------------------------------------------------------
(* Properties.                                                              *)

\* Nothing anybody wrote is lost to an apply, wherever it fails or the daemon
\* dies: it is in its file or in a backup (lib.rs, backup_changes: "before any
\* write").
NothingLostByApply ==
    \A p \in Targets : person[p] # Absent =>
        target[p] = person[p] \/ <<p, person[p]>> \in backups

\* An apply converges: right after one, applying again would change nothing
\* (apply.rs, merge_markdown).
ApplyConverges ==
    settled => \A i \in DOMAIN plan_project_changes :
                  plan_project_changes[i].after = target[plan_project_changes[i].path]

\* A sync loses no commit: not ours to a pull, not the other machine's to a
\* push (git.rs, pull).
SyncKeepsCommits ==
    [][/\ store.commits \subseteq store'.commits
       /\ remote.commits \subseteq remote'.commits]_pluginVars
=============================================================================
