------------------------ MODULE MCContainerRegistry ------------------------
(* A container, its successor of the same name after a restart, the pause  *)
(* container of a pod, a systemd service, and a container that Docker's    *)
(* systemd driver put into a scope.                                        *)
EXTENDS ContainerRegistry

CONSTANTS app1, app2, pause, service, scope

Path(prefix, in, id) == [parts |-> 2, prefix |-> prefix, scope |-> in, id |-> id]

AllPaths ==
    (app1 :> Path("kubepods.slice", "other", "cri-containerd")) @@
    (app2 :> Path("docker", "other", "plain")) @@
    (pause :> Path("kubepods.slice", "other", "plain")) @@
    (service :> Path("system.slice", "other", "none")) @@
    (scope :> Path("system.slice", "docker", "plain"))

AllLabels == (app1 :> "app") @@ (app2 :> "app") @@ (pause :> "") @@ (service :> "") @@ (scope :> "app")

MCPathOf  == Restrict(AllPaths, Cgroups)
MCLabelOf == Restrict(AllLabels, Cgroups)

(* The probe of exits before or after the one that marks; since the loop   *)
(* may end at any point, each beginning of an order is met too.            *)
MCOneOrder == {<<"task_newtask", "sched_process_exit", "oom_mark_victim">>}
MCOrders   == MCOneOrder \cup {<<"oom_mark_victim", "sched_process_exit">>}

Symmetry == Permutations(Pids) \cup Permutations(Cpus)

=============================================================================
