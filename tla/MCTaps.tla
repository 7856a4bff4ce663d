------------------------------- MODULE MCTaps -------------------------------
(***************************************************************************)
(* A small instance of Taps: three issues and a user of Linear, two        *)
(* companies and a person of Twenty, two folders and a file of Drive.      *)
(***************************************************************************)
EXTENDS Taps, TLC

CONSTANTS root, u, i1, i2, i3, c1, c2, p1, d1, d2, f1

MCStreamOf ==
    u :> "users" @@ i1 :> "issues" @@ i2 :> "issues" @@ i3 :> "issues"
    @@ c1 :> "companies" @@ c2 :> "companies" @@ p1 :> "people"
    @@ d1 :> "files" @@ d2 :> "files" @@ f1 :> "files"

MCPlace == u :> 1 @@ i1 :> 2 @@ i2 :> 3 @@ i3 :> 4 @@ c1 :> 5 @@ c2 :> 6 @@ p1 :> 7
           @@ d1 :> 8 @@ f1 :> 10 @@ d2 :> 9
=============================================================================
