------------------------------ MODULE MCMlx5Ctl ------------------------------
(* Mlx5Ctl for TLC: three functions, one of another driver and one that may *)
(* not be opened, that move between three numbers.                          *)
EXTENDS Mlx5Ctl
CONSTANTS f1, f2, f3
=============================================================================
