---------------------------- MODULE SandboxPolicy ----------------------------
(***************************************************************************)
(* What a session may reach, as data: willie-core/src/sandbox.rs (the      *)
(* policy and its guard), willie-linux/src/sandbox (the plan of mounts,    *)
(* the helper's vector and the Landlock rules) and the harness's paths     *)
(* (willie-harness/src/lib.rs).                                            *)
(*                                                                         *)
(* An absolute path is the sequence of its components; a path as somebody  *)
(* wrote it may hold "" (a repeated separator), "." and "..".  The words   *)
(* that explain a refusal are left out.                                    *)
(***************************************************************************)
EXTENDS Naturals, Sequences, FiniteSets, SequencesExt

CONSTANTS
    Home,           \* the real home
    Workspace,      \* the project's directory
    Binary,         \* argv[0] of the spec
    InnerExe,       \* willie-sess, run again inside the namespace
    DriveLetters    \* the components that are one letter

-----------------------------------------------------------------------------
(* The policy.                                                              *)
Deferred == {"home_persistent", "ssh", "mnt_all", "windows_interop"}
Switches == {"agent_state", "tools_ro", "caches_rw", "git_identity"}
default_capabilities == Switches

\* The switches a profile sets to true, the ones it sets to false, and its
\* extra paths; what is in neither set is left to the harness.
Profile(on, off, extra) == [on |-> on, off |-> off, extra_paths |-> extra]
Extra(path, rw) == [absolute |-> TRUE, path |-> path, rw |-> rw]

normalize_lexical(p) == SelectSeq(p, LAMBDA c : c \notin {"", "."})
Under(p, prefix) == IsPrefix(prefix, p)

Subtree == {<<"init">>, <<"run">>, <<"proc">>, <<"sys">>, <<"dev">>, <<"etc">>,
            <<"usr">>, <<"bin">>, <<"sbin">>, <<"lib">>, <<"lib64">>,
            <<"opt", "willie">>, <<"var", "lib", "willie">>}
           \cup {Append(Home, c) : c \in {".willie", ".ssh", ".claude", ".local",
                                          ".dotnet", ".npm", ".nuget", ".cache"}}
Exact == {<<"tmp">>, Home, Append(Home, "projects"),
          Append(Home, ".claude.json"), Append(Home, ".gitconfig")}
guarded_locations == Subtree \cup Exact

guard_mnt(p) == /\ Under(p, <<"mnt">>)
                /\ \/ Len(p) < 3
                   \/ p[2] \notin DriveLetters

\* Whether `guard_extra_path` refuses the path as written.
guard_extra_path(written) ==
    LET p == normalize_lexical(written) IN
    \/ ".." \in Range(written)
    \/ p = <<>>
    \/ guard_mnt(p)
    \/ \E g \in Subtree : Under(p, g)
    \/ \E g \in guarded_locations : Under(g, p)

\* A CapabilitySet, or that the daemon refuses the profile.
Capabilities(on, extra) == [ok |-> TRUE, on |-> on, extra_paths |-> extra]
Unresolved == [ok |-> FALSE, on |-> {}, extra_paths |-> <<>>]
resolve(defaults, profile) ==
    IF \/ profile.on \cap Deferred # {}
       \/ \E x \in Range(profile.extra_paths) :
             ~x.absolute \/ guard_extra_path(x.path)
      THEN Unresolved
      ELSE Capabilities((defaults \ profile.off) \cup profile.on, profile.extra_paths)

-----------------------------------------------------------------------------
(* The plan: the mounts a session gets, applied in order.                   *)
Tmpfs(dest) == [op |-> "tmpfs", src |-> <<>>, dest |-> dest, rw |-> TRUE,
                optional |-> FALSE]
Bind(src, dest, rw, optional) ==
    [op |-> "bind", src |-> src, dest |-> dest, rw |-> rw, optional |-> optional]
Symlink(target, link) == [op |-> "symlink", src |-> target, dest |-> link,
                          rw |-> FALSE, optional |-> FALSE]

agent_state == [dir |-> Home \o <<".willie", "agent-state", "claude">>,
                links |-> <<Append(Home, ".claude"), Append(Home, ".claude.json")>>]
tool_roots == <<Append(Home, ".local"), Append(Home, ".dotnet")>>
cache_paths == <<"npm", "nuget", "cache">>
CacheDir(name) == Home \o <<".willie", "caches", name>>
CacheAt == [npm |-> Append(Home, ".npm"), nuget |-> Append(Home, ".nuget"),
            cache |-> Append(Home, ".cache")]
Gitconfig == Append(Home, ".gitconfig")
SYSTEM_TREE == <<"usr">>

Each(s, Op(_)) == [i \in DOMAIN s |-> Op(s[i])]
When(c, s) == IF c THEN s ELSE <<>>

agent_state_ops(caps) ==
    When("agent_state" \in caps.on,
         <<Bind(agent_state.dir, agent_state.dir, TRUE, FALSE)>>
         \o Each(agent_state.links,
                 LAMBDA l : Symlink(Append(agent_state.dir, Last(l)), l)))

\* The harness is bound only where nothing else carries it.
harness_ops(caps) ==
    LET carried == {SYSTEM_TREE}
                   \cup (IF "tools_ro" \in caps.on THEN Range(tool_roots) ELSE {})
    IN  When(~\E root \in carried : Under(Binary, root),
             <<Bind(Binary, Binary, FALSE, FALSE)>>)
plan(caps) ==
    <<Tmpfs(Home), Bind(Workspace, Workspace, TRUE, FALSE)>>
    \o agent_state_ops(caps)
    \o When("tools_ro" \in caps.on,
            Each(tool_roots, LAMBDA r : Bind(r, r, FALSE, TRUE)))
    \o harness_ops(caps)
    \o When("caches_rw" \in caps.on,
            Each(cache_paths, LAMBDA c : Bind(CacheDir(c), CacheAt[c], TRUE, FALSE)))
    \o When("git_identity" \in caps.on, <<Bind(Gitconfig, Gitconfig, FALSE, FALSE)>>)
    \o Each(caps.extra_paths, LAMBDA x : Bind(x.path, x.path, x.rw, FALSE))
    \o <<Bind(InnerExe, InnerExe, FALSE, FALSE)>>
ensure_dirs(caps) ==
    IF "caches_rw" \in caps.on THEN {CacheDir(c) : c \in Range(cache_paths)} ELSE {}

-----------------------------------------------------------------------------
(* The helper's vector: its flags and the base every session gets, then     *)
(* the plan.                                                                *)
\* Seeded fault: the helper may outlive the supervisor.
helper_flags_lingering == {"--unshare-user", "--unshare-pid", "--unshare-ipc",
                           "--unshare-uts", "--disable-userns", "--clearenv"}
helper_flags == {"--unshare-user", "--unshare-pid", "--unshare-ipc", "--unshare-uts",
                 "--disable-userns", "--die-with-parent", "--clearenv"}

ETC == <<"resolv.conf", "hosts", "passwd", "group", "nsswitch.conf", "ssl",
         "alternatives">>
ETC_OPTIONAL == <<"ld.so.cache", "localtime", "terminfo", "gitconfig",
                  "os-release", "willie/zsh">>
USR_LINKS == <<"bin", "lib", "lib64", "sbin">>
MASKED == <<"usr", "bin", "sudo">>
Ro(p, optional) == Bind(p, p, FALSE, optional)

base == <<Ro(<<"usr">>, FALSE)>>
        \o Each(USR_LINKS, LAMBDA n : Symlink(<<"usr", n>>, <<n>>))
        \o Each(ETC, LAMBDA n : Ro(<<"etc", n>>, FALSE))
        \o Each(ETC_OPTIONAL, LAMBDA n : Ro(<<"etc", n>>, TRUE))
        \o <<Tmpfs(<<"proc">>), Tmpfs(<<"dev">>), Tmpfs(<<"tmp">>),
             Bind(<<"dev", "null">>, MASKED, FALSE, FALSE)>>
argv(ops) == base \o ops

-----------------------------------------------------------------------------
(* The Landlock rules: write where the plan mounted read-write.             *)
BASE_WRITABLE == {<<"tmp">>, <<"dev">>}
rules(ops) ==
    {o.dest : o \in {o \in Range(ops) : o.op # "symlink" /\ o.rw}} \cup BASE_WRITABLE

FileRights == {"execute", "write_file", "read_file", "truncate"}
ALL_ABI2 == (FileRights \ {"truncate"})
            \cup {"read_dir", "remove_dir", "remove_file", "make", "refer"}
READ_EXEC == {"execute", "read_file", "read_dir"}
\* The rights the kernel's ABI lets a ruleset handle; none below ABI 2.
applicability(abi) == CASE abi < 2 -> {}
                        [] abi = 2 -> ALL_ABI2
                        [] abi > 2 -> ALL_ABI2 \cup {"truncate"}
rule_rights(granted, handled, is_dir) ==
    LET rights == granted \cap handled
    IN  IF is_dir THEN rights ELSE rights \cap FileRights
=============================================================================
