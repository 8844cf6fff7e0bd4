----------------------------- MODULE FileStorage -----------------------------
(***************************************************************************)
(* session.File (session/storage.go): a session in a file, replaced by     *)
(* writing a temporary file and renaming it over the path.  Several File   *)
(* values, in one process or in several, may name the same path; a File    *)
(* has a mutex.  Every system call of StoreSession is a step that may      *)
(* fail, a write is two, and the process may die between any two steps.    *)
(* What is on the disk stays there then, temporary files too.              *)
(***************************************************************************)
CONSTANTS Goroutines,
          Files,        \* the File values for the path
          Data,         \* sessions
          Names,        \* names of temporary files in the directory
          NotFound,     \* no file, no data, no name
          Torn          \* part of a session

CONSTANT FileOf(_)      \* the File a goroutine uses; a process is its File

ASSUME FileOfAssumption == \A g \in Goroutines : FileOf(g) \in Files
ASSUME ContentsAssumption == NotFound # Torn /\ {NotFound, Torn} \cap Data = {}
ASSUME FreeAssumption == NotFound \notin Goroutines \cup Names

VARIABLES path,     \* what is in the file
          disk,     \* the temporary files of the directory
          name,     \* tmpName of a goroutine
          mu,       \* the goroutine that holds File.mu, or NotFound
          pc, arg, got

vars == <<path, disk, name, mu, pc, arg, got>>

Contents == Data \cup {NotFound, Torn}

Init == /\ path \in Data \cup {NotFound}
        /\ disk = [n \in Names |-> NotFound]
        /\ name = [g \in Goroutines |-> NotFound]
        /\ mu = [f \in Files |-> NotFound]
        /\ pc = [g \in Goroutines |-> "idle"]
        /\ arg = [g \in Goroutines |-> NotFound]
        /\ got = [g \in Goroutines |-> NotFound]

Goto(g, from, to) == pc[g] = from /\ pc' = [pc EXCEPT ![g] = to]

-----------------------------------------------------------------------------
CallStore(g) ==
    /\ Goto(g, "idle", "store")
    /\ \E d \in Data : arg' = [arg EXCEPT ![g] = d]
    /\ UNCHANGED <<path, disk, name, mu, got>>

CallLoad(g) ==
    /\ Goto(g, "idle", "load")
    /\ UNCHANGED <<path, disk, name, mu, arg, got>>

Lock(g) ==
    /\ mu[FileOf(g)] = NotFound
    /\ mu' = [mu EXCEPT ![FileOf(g)] = g]
    /\ Goto(g, "store", "create") \/ Goto(g, "load", "read")
    /\ UNCHANGED <<path, disk, name, arg, got>>

\* MkdirAll and CreateTemp: an empty file with a name of its own, or an error.
CreateTemp(g) ==
    /\ \/ /\ Goto(g, "create", "chmod")
          /\ \E n \in Names : /\ disk[n] = NotFound
                             /\ disk' = [disk EXCEPT ![n] = Torn]
                             /\ name' = [name EXCEPT ![g] = n]
       \/ Goto(g, "create", "failed") /\ UNCHANGED <<disk, name>>
    /\ UNCHANGED <<path, mu, arg, got>>

\* Chmod and Close leave what is in the file.
ChmodOrClose(g) ==
    /\ Goto(g, "chmod", "write") \/ Goto(g, "close", "rename")
    /\ UNCHANGED <<path, disk, name, mu, arg, got>>

\* Fault: the session is written to the path itself.
PathWhile_InPlace(g) == Torn

\* What the path holds while a temporary file is being written.
PathWhile(g) == path

WriteSome(g) ==
    /\ Goto(g, "write", "writing")
    /\ path' = PathWhile(g)
    /\ UNCHANGED <<disk, name, mu, arg, got>>

WriteRest(g) ==
    /\ Goto(g, "writing", "close")
    /\ disk' = [disk EXCEPT ![name[g]] = arg[g]]
    /\ UNCHANGED <<path, name, mu, arg, got>>

Rename(g) ==
    /\ Goto(g, "rename", "stored")
    /\ path' = disk[name[g]]
    /\ disk' = [disk EXCEPT ![name[g]] = NotFound]
    /\ name' = [name EXCEPT ![g] = NotFound]
    /\ UNCHANGED <<mu, arg, got>>

\* Fault: a Chmod that fails returns at once.
AfterFailure_Chmod(g) == IF pc[g] = "chmod" THEN "failed" ELSE "cleanup"

\* Once there is a file, every error path calls cleanup.
AfterFailure(g) == "cleanup"

\* Chmod, a write, Close or Rename fails.
StoreFails(g) ==
    /\ \E from \in {"chmod", "write", "writing", "close", "rename"} :
         Goto(g, from, AfterFailure(g))
    /\ UNCHANGED <<path, disk, name, mu, arg, got>>

Cleanup(g) ==
    /\ Goto(g, "cleanup", "failed")
    /\ disk' = [disk EXCEPT ![name[g]] = NotFound]
    /\ name' = [name EXCEPT ![g] = NotFound]
    /\ UNCHANGED <<path, mu, arg, got>>

\* cleanup does not look at the error of Remove.
RemoveFails(g) ==
    /\ Goto(g, "cleanup", "failed")
    /\ name' = [name EXCEPT ![g] = NotFound]
    /\ UNCHANGED <<path, disk, mu, arg, got>>

\* ReadFile opens the file the path names; a later rename does not change it.
Read(g) ==
    /\ Goto(g, "read", "loaded")
    /\ got' = [got EXCEPT ![g] = path]
    /\ UNCHANGED <<path, disk, name, mu, arg>>

\* Any error but that there is no file.
ReadFails(g) ==
    /\ Goto(g, "read", "failed")
    /\ UNCHANGED <<path, disk, name, mu, arg, got>>

\* Fault: an error path returns with the mutex held.
Unlocked_OnSuccess(g) == IF pc[g] = "failed" THEN g ELSE NotFound

\* The deferred Unlock runs on every path.
Unlocked(g) == NotFound

Return(g) ==
    /\ Goto(g, "stored", "idle") \/ Goto(g, "failed", "idle") \/ Goto(g, "loaded", "idle")
    /\ mu' = [mu EXCEPT ![FileOf(g)] = Unlocked(g)]
    /\ arg' = [arg EXCEPT ![g] = NotFound]
    /\ got' = [got EXCEPT ![g] = NotFound]
    /\ name' = [name EXCEPT ![g] = NotFound]
    /\ UNCHANGED <<path, disk>>

-----------------------------------------------------------------------------
\* A process dies: its goroutines are gone, with its mutex and the names of its
\* temporary files, which stay on the disk.
Crash(f) ==
    LET Survives(g) == FileOf(g) # f IN
    /\ mu' = [mu EXCEPT ![f] = NotFound]
    /\ name' = [g \in Goroutines |-> IF Survives(g) THEN name[g] ELSE NotFound]
    /\ pc' = [g \in Goroutines |-> IF Survives(g) THEN pc[g] ELSE "idle"]
    /\ arg' = [g \in Goroutines |-> IF Survives(g) THEN arg[g] ELSE NotFound]
    /\ got' = [g \in Goroutines |-> IF Survives(g) THEN got[g] ELSE NotFound]
    /\ UNCHANGED <<path, disk>>

StoreStep(g) == \/ CreateTemp(g) \/ ChmodOrClose(g) \/ WriteSome(g) \/ WriteRest(g)
                \/ Rename(g) \/ StoreFails(g) \/ Cleanup(g) \/ RemoveFails(g)

CallStep(g) == StoreStep(g) \/ Read(g) \/ ReadFails(g) \/ Return(g)

Next == \/ \E g \in Goroutines : CallStore(g) \/ CallLoad(g) \/ Lock(g) \/ CallStep(g)
        \/ \E f \in Files : Crash(f)

Spec == Init /\ [][Next]_vars

\* A goroutine in a call goes on, and sync.Mutex starves nobody.
FairSpec == Spec /\ \A g \in Goroutines : WF_vars(CallStep(g)) /\ SF_vars(Lock(g))

-----------------------------------------------------------------------------
(* Correctness *)

\* Every variable has its type; the holder of a mutex is in a call.
TypeOK ==
    /\ path \in Contents
    /\ disk \in [Names -> Contents]
    /\ name \in [Goroutines -> Names \cup {NotFound}]
    /\ mu \in [Files -> Goroutines \cup {NotFound}]
    /\ pc \in [Goroutines -> {"idle", "store", "load", "create", "chmod", "write",
                              "writing", "close", "rename", "cleanup", "read",
                              "stored", "failed", "loaded"}]
    /\ arg \in [Goroutines -> Data \cup {NotFound}]
    /\ got \in [Goroutines -> Contents]
    /\ \A f \in Files : mu[f] # NotFound => pc[mu[f]] \notin {"idle", "store", "load"}

\* Temporary files of nobody.
Litter == {n \in Names : disk[n] # NotFound /\ \A g \in Goroutines : name[g] # n}

\* Whatever system call fails, no temporary file is left behind, unless it cannot
\* be removed either; a process that dies leaves the one it has.
NoLeftovers ==
    [][\/ Litter' \subseteq Litter
       \/ \E f \in Files : Crash(f)
       \/ \E g \in Goroutines : RemoveFails(g)]_vars

\* File is an atomic register: whatever fails and whoever dies, the path names a
\* whole session, the last one that was stored.
Storing == {"store", "create", "chmod", "write", "writing", "close", "rename", "cleanup"}
Operation == [g \in Goroutines |->
    IF pc[g] \in Storing THEN "storing"
    ELSE IF pc[g] \in {"load", "read"} THEN "loading" ELSE pc[g]]
Register == INSTANCE AtomicRegister WITH value <- path, op <- Operation
ImplementsRegister == Register!Spec

\* Every StoreSession and LoadSession returns.
CallsReturn == \A g \in Goroutines : pc[g] \in {"store", "load"} ~> pc[g] = "idle"
=============================================================================
