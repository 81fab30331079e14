----------------------------- MODULE MCPipeNet ------------------------------
(***************************************************************************)
(* Three cores in a row.  Core 0 multicasts to the cores 1 and 2, which    *)
(* CoreGrid expands and counts; core 1 answers core 0.                     *)
(***************************************************************************)
EXTENDS PipeNet, TLC

CONSTANTS dm0, dm1, dm2, cast, back

Grid == INSTANCE CoreGrid

MCGrid  == <<1, 3>>
Fixed(i)    == [start |-> i, stop |-> i + 1, step |-> 1]
MCRange == cast :> <<Fixed(0), [start |-> 1, stop |-> None, step |-> 1]>>
           @@ back :> <<Fixed(0), Fixed(0)>>

MCThreads     == {dm0, dm1, dm2}
MCPosition    == dm0 :> 0 @@ dm1 :> 1 @@ dm2 :> 2
MCCoreOf      == dm0 :> 0 @@ dm1 :> 1 @@ dm2 :> 2
MCPipes       == {cast, back}
MCSource      == cast :> 0 @@ back :> 1
Let(p)   == Grid!Receivers(MCRange[p], MCGrid)
Count(p) == Grid!NumReceivers(MCRange[p], MCGrid)
MCDestination == cast :> Let(cast) @@ back :> Let(back)
MCCounted     == cast :> Count(cast) @@ back :> Count(back)

\* The second receiver of the multicast has blocks of two lengths.
MCLengths  == dm0 :> {1} @@ dm1 :> {1} @@ dm2 :> {1, 2}
MCMaxSends == cast :> 2 @@ back :> 1
=============================================================================
