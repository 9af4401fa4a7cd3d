-------------------------------- MODULE Server --------------------------------
(***************************************************************************)
(* The server program: RunServer loads every file of the library directory *)
(* and registers the services that each one creates; CreateServices keeps  *)
(* them in a pool that all libraries of the process share.  The process    *)
(* may end at any time and be launched again.                              *)
(*                                                                         *)
(* A directory is a record: whether it can be read, the kinds of the files *)
(* in it, and at most one directory below.                                 *)
(***************************************************************************)
EXTENDS Integers, Sequences

CONSTANT LibDirs    \* what --lib_dir may hold

FileKinds == {"services", "no library", "no symbol", "no services"}
SubDirs == [readable : BOOLEAN, files : Seq(FileKinds)]

ASSUME ServerAssumption ==
    LibDirs \subseteq [readable : BOOLEAN, files : Seq(FileKinds), below : SubDirs]

VARIABLES
    server,     \* "down", "loading" or "serving"
    unloaded,   \* stSoFilesPath from the iterator of the loop on
    pool,       \* ServicePool
    builder     \* services registered with the ServerBuilder

serverVars == <<server, unloaded, pool, builder>>

ServerInit ==
    /\ server = "down"
    /\ unloaded = <<>>
    /\ pool = <<>>
    /\ builder = <<>>

-------------------------------------------------------------------------------
\* GetAllSoFiles takes every regular file, whatever its name; it is told of a
\* directory below that cannot be read, and goes on without it.
AllSoFiles(dir) ==
    dir.files \o (IF dir.below.readable THEN dir.below.files ELSE <<>>)

\* The process ends, and what it held is gone.
Dies ==
    /\ server' = "down"
    /\ unloaded' = <<>> /\ pool' = <<>> /\ builder' = <<>>

\* RunServer up to the loop.  A directory that cannot be read is error 1, and
\* then Wait is called on the server that was not made: the process dies.
Launch(dir) ==
    /\ server = "down"
    /\ \/ /\ dir.readable
          /\ server' = "loading"
          /\ unloaded' = AllSoFiles(dir)
          /\ UNCHANGED <<pool, builder>>
       \/ /\ ~dir.readable
          /\ Dies

\* CreateServices adds three services to the pool and hands out the whole pool.
CreateServices == pool \o <<"compress", "uncompress", "crypto">>

\* Faulty form: the loop over the services ends one too early.
LoadLibraryShort ==
    /\ server = "loading"
    /\ unloaded # <<>>
    /\ Head(unloaded) = "services"
    /\ pool' = CreateServices
    /\ builder' = builder \o SubSeq(CreateServices, 1, Len(CreateServices) - 1)
    /\ unloaded' = Tail(unloaded)
    /\ UNCHANGED server

\* One round of the loop: dlopen, dlsym, CreateServices, RegisterService.
LoadLibrary ==
    /\ server = "loading"
    /\ unloaded # <<>>
    /\ Head(unloaded) = "services"
    /\ pool' = CreateServices
    /\ builder' = builder \o CreateServices
    /\ unloaded' = Tail(unloaded)
    /\ UNCHANGED server

\* Errors 1, 2 and 3 leave the loop; Wait is called on the server that was not
\* made.
LoadFails ==
    /\ server = "loading"
    /\ unloaded # <<>>
    /\ Head(unloaded) # "services"
    /\ Dies

Distinct(s) == \A i, k \in DOMAIN s : s[i] = s[k] => i = k

\* BuildAndStart makes no server if there is no service or one is registered twice,
\* or if the port is taken; RunServer announces and waits for it all the same.
BuildAndStart ==
    /\ server = "loading"
    /\ unloaded = <<>>
    /\ \/ /\ builder # <<>> /\ Distinct(builder)
          /\ server' = "serving"
          /\ UNCHANGED <<unloaded, pool, builder>>
       \/ Dies

\* The process is killed.
ServerStops ==
    /\ server = "serving"
    /\ Dies

ServerStarts == LoadLibrary \/ LoadFails \/ BuildAndStart
Offers(service) == server = "serving" /\ \E i \in DOMAIN builder : builder[i] = service
===============================================================================
