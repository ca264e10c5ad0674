------------------------------ MODULE MCStartup ------------------------------
(* Small dimensions for Startup: runners whose collector stays on the host   *)
(* or writes on the device, with batches a sixth and a third of the ring,    *)
(* and one whose batch is three times its ring.                              *)
EXTENDS Startup

MCConfigurations ==
    [envs : {2}, replay_n : {3}, obs : {1}, action : {1}, critic : {1},
     input : {1}, samples : {1, 2}, capacity : {1}, depth : {2}, rows : {2},
     scratch : {0}, native : BOOLEAN]
    \cup
    [envs : {1}, replay_n : {1}, obs : {1}, action : {1}, critic : {1},
     input : {1}, samples : {3}, capacity : {1}, depth : {1}, rows : {1},
     scratch : {0}, native : {FALSE}]

=============================================================================
