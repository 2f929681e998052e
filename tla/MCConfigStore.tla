-------------------------- MODULE MCConfigStore ---------------------------
(* Instances of ConfigStore for TLC: two aliases, two hosts, and which     *)
(* invocations run.                                                        *)
EXTENDS ConfigStore, TLC

CONSTANTS
    add, force, prompt, cmd,   \* one invocation of each kind
    x, y,                      \* aliases
    h1, h2,                    \* hosts
    f1, f2, f3                 \* files

\* A file that knows the first device, its device_id still unknown.
OneDevice == AddEntry(EmptyConfig, x, h1, FALSE)

MCInitialConfigs == {OneDevice}

Symmetric == Permutations({f1, f2, f3}) \cup Permutations({h1, h2})

FileSymmetry == Permutations({f1, f2, f3})

=============================================================================
