------------------------------- MODULE MCDevfs -------------------------------
(* A small instance of the device nodes for TLC.                           *)
EXTENDS Devfs

\* Two devices in one directory, one with the directory's name, one with the name of
\* another device, and one more that takes the last room of the heap.
MCPath == ("d1" :> <<1, 1>>) @@ ("d2" :> <<1, 2>>) @@ ("d3" :> <<1>>) @@ ("d4" :> <<1, 2>>)
          @@ ("d5" :> <<2>>)

Sym == Permutations(Proc)

=============================================================================
