------------------------------- MODULE MCStart -------------------------------
EXTENDS Start
TheHome == <<"home", "w">>
TheWorkspace == <<"home", "w", "projects", "x">>
TheBinary == <<"home", "w", ".local", "bin", "claude">>
TheInnerExe == <<"opt", "willie", "bin", "willie-sess">>
Letters == {"c"}

SmallKinds == {<<"agent", "claude-code">>, <<"shell", "claude-code">>}
TheLink == Append(TheWorkspace, "link")
Notes == <<"home", "w", "notes">>
Keys == <<"home", "w", ".ssh">>
Targets == {Notes, Keys}
Files == {Notes}

With(extra) == Profile({}, {}, extra)
SmallProfiles ==
    {With(<<>>),
     Profile({}, {"tools_ro", "caches_rw"}, <<>>),
     Profile({"ssh"}, {}, <<>>),
     With(<<Extra(TheLink, TRUE)>>),
     With(<<Extra(Notes, TRUE), Extra(<<"", "mnt", "c", ".", "data">>, FALSE)>>),
     With(<<Extra(TheHome, FALSE)>>),
     With(<<Extra(<<"home", "w", "projects", "..", ".ssh">>, FALSE)>>)}
ReadOnlyProject == {With(<<Extra(TheWorkspace, FALSE)>>)}

Healthy == [abi |-> 3, notify |-> TRUE, namespaced |-> TRUE, ours |-> TRUE,
            helper |-> TRUE, missing |-> {},
            uncached |-> {CacheDir(c) : c \in {"npm", "nuget", "cache"}}]
SmallMachines ==
    {Healthy,
     [Healthy EXCEPT !.abi = 1],
     [Healthy EXCEPT !.notify = FALSE],
     [Healthy EXCEPT !.namespaced = FALSE],
     [Healthy EXCEPT !.ours = FALSE],
     [Healthy EXCEPT !.helper = FALSE],
     [Healthy EXCEPT !.missing = {TheBinary}],
     [Healthy EXCEPT !.missing = {Gitconfig}]}

Syscall(arch, nr, a0, a1, a2) ==
    [arch |-> arch, nr |-> nr, arg0 |-> a0, arg1 |-> a1, arg2 |-> a2]
Native(nr, a0, a1, a2) == Syscall(AUDIT_ARCH_X86_64, nr, a0, a1, a2)
SmallCalls ==
    {Syscall(3, 0, 0, 0, 0), Native(X32_SYSCALL_BIT + SYS_socket, 0, 0, 0),
     Native(DENIED[1], 0, 0, 0), Native(DENIED[Len(DENIED)], 0, 0, 0),
     Native(0, 22, 21522, 0),
     Native(SYS_ioctl, 0, TIOCSTI, 0), Native(SYS_ioctl, 0, 0, 0),
     Native(SYS_prctl, PR_SET_SECCOMP, 0, 0), Native(SYS_prctl, 0, PR_SET_SECCOMP, 0)}
    \cup {Native(SYS_socket, a0, a1, a2) :
             a0 \in {2, AF_NETLINK, AF_PACKET},
             a1 \in {1, SOCK_RAW + 2^11, SOCK_PACKET + 2^19}, a2 \in {0, 15}}
=============================================================================
