---------------------------- MODULE MCDpSchedule ----------------------------
(***************************************************************************)
(* Small instances of DpSchedule: short and long samples in every order,   *)
(* rollouts of one sample and of several, every path of the scheduler.     *)
(***************************************************************************)
EXTENDS DpSchedule

MCLengths == {1, 3, 7}

\* One sample per rollout; rollouts of two samples; samples of a rollout apart.
MCRids == {<<1, 2, 3, 4, 5>>, <<4, 4, 2, 2, 3>>, <<1, 2, 1, 3, 2>>}

MCBatches == [lengths : [1..5 -> MCLengths], rids : MCRids]

\* A superlinear cost, as attention makes it.
MCWork == [l \in MCLengths |-> l * l + 2 * l]

MCDynamic == [dp : {2}, vpp : {1, 2}, mbGroup : {2}, gbs : {2, 3}, dynamic : {TRUE},
              cap : {6}, mbs : {1}, byFlops : {FALSE}, balance : BOOLEAN]

MCByFlops == [dp : {2}, vpp : {1}, mbGroup : {1}, gbs : {3}, dynamic : {TRUE},
              cap : {9}, mbs : {1}, byFlops : {TRUE}, balance : {TRUE}]

MCStatic == [dp : {1, 2}, vpp : {1}, mbGroup : {1}, gbs : {1, 2, 4}, dynamic : {FALSE},
             cap : {6}, mbs : {1, 2}, byFlops : {FALSE}, balance : {FALSE}]

MCConfigs == MCDynamic \cup MCByFlops \cup MCStatic
=============================================================================
