------------------------------ MODULE Lifecycle ------------------------------
(***************************************************************************)
(* start (execute.c): loadfile, then vm_init (vm.c), which creates the     *)
(* collector's resources one after the other, then the interpreter.  A     *)
(* failure is printed at most, and the next call gets the handle the       *)
(* failed one has not set: start has cleared the VM.                       *)
(***************************************************************************)
EXTENDS Loader

VARIABLES
  have,              \* the resources created
  tried,             \* the number of steps of vm_init done
  printed,           \* the resources whose failure has been printed
  status             \* "init", "run" (the interpreter), or "killed"

lifeVars  == <<have, tried, printed, status>>
startVars == <<loadVars, lifeVars>>

Step(resource, needs, tests) == [makes |-> resource, needs |-> needs, tests |-> tests]

\* Mutant: the pools do not use the generation chain.
PoolWithoutChain == {"arena", "obj_fmt"}
pool_needs       == {"arena", "obj_fmt", "obj_chain"}

(* The steps of vm_init: what each creates, the handles it is given, and   *)
(* whether its result is tested.                                           *)
Steps == <<
  Step("arena",      {},                  TRUE),
  Step("obj_chain",  {"arena"},           TRUE),
  Step("thread",     {"arena"},           TRUE),
  Step("reg_root",   {"arena", "thread"}, TRUE),
  Step("obj_fmt",    {"arena"},           TRUE),
  Step("amc",        pool_needs,          TRUE),
  Step("amc.ap",     {"amc"},             TRUE),
  Step("amcz",       pool_needs,          TRUE),
  Step("amcz.ap",    {"amcz"},            TRUE),
  Step("slots.data", {},                  FALSE),
  Step("slots.root", {"arena"},           TRUE),
  Step("stack.data", {},                  FALSE) >>

LifeInit == have = {} /\ tried = 0 /\ printed = {} /\ status = "init"

(* loadfile has returned, whatever it returned.                            *)
starting == phase = "run" /\ status = "init"
step     == Steps[tried + 1]

(* A step succeeds ...                                                     *)
Created ==
  /\ starting /\ tried < Len(Steps) /\ step.needs \subseteq have
  /\ have' = have \cup {step.makes} /\ tried' = tried + 1
  /\ UNCHANGED <<printed, status>>

(* ... or fails, and vm_init goes on ...                                   *)
Failed ==
  /\ starting /\ tried < Len(Steps) /\ step.needs \subseteq have
  /\ printed' = IF step.tests THEN printed \cup {step.makes} ELSE printed
  /\ tried' = tried + 1
  /\ UNCHANGED <<have, status>>

(* ... or is given NULL for a handle, which the collector does not survive. *)
UsesNull ==
  /\ starting /\ tried < Len(Steps) /\ ~(step.needs \subseteq have)
  /\ status' = "killed"
  /\ UNCHANGED <<have, tried, printed>>

(* The symbol table, where glib ends the process when memory is short, and *)
(* println; vm_init returns.                                               *)
Started ==
  /\ starting /\ tried = Len(Steps)
  /\ status' = "run"
  /\ UNCHANGED <<have, tried, printed>>

(* The first instruction is read through NULL, if nothing has set sec, or  *)
(* stores to a buffer malloc has not given.                                *)
DiesAtOnce ==
  /\ status = "run"
  /\ \/ sec[SECTION_INSTRUCTIONS] = Unset
     \/ ~({"slots.data", "stack.data"} \subseteq have)
  /\ status' = "killed"
  /\ UNCHANGED <<have, tried, printed>>

LifeNext == Created \/ Failed \/ UsesNull \/ Started \/ DiesAtOnce

StartInit == LoadInit /\ LifeInit
StartNext ==
  \/ LoadNext /\ UNCHANGED lifeVars
  \/ LifeNext /\ UNCHANGED loadVars

StartSpec == StartInit /\ [][StartNext]_startVars

-----------------------------------------------------------------------------
(* Whatever fails in vm_init (vm.c): if the interpreter starts all the     *)
(* same, the heap is there, since a failure that matters to it does not    *)
(* let a later step survive.                                               *)
StartedComplete ==
  status = "run" =>
    {"arena", "obj_chain", "thread", "obj_fmt", "amc", "amcz"} \subseteq have

(* Of all that can fail before the first instruction (loader.c, vm.c) only *)
(* an unknown section and a buffer malloc refuses leave no message, and    *)
(* what has been reported has failed.                                      *)
SilentFailures ==
  status = "run" =>
    /\ {Steps[k].makes : k \in 1 .. Len(Steps)} \ have
         \subseteq printed \cup {"slots.data", "stack.data"}
    /\ printed \cap have = {}
    /\ failed /\ ~reported => \E k \in 1 .. Len(file) : file[k].id \notin Kinds
    /\ reported => failed /\ sec = [kind \in Kinds |-> Unset]

=============================================================================
