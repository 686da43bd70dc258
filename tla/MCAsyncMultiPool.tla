-------------------------- MODULE MCAsyncMultiPool --------------------------
(* Constants of the runs of AsyncMultiPool: two pools of one project.      *)
EXTENDS AsyncMultiPool

MCClient == 1..MaxClients
MCPool == Pool
=============================================================================
