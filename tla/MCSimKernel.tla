---------------------------- MODULE MCSimKernel -----------------------------
EXTENDS SimKernel, TLC

CONSTANTS compute, dm0, dm1, in, out

\* One core: dm0 feeds the compute thread, which feeds dm1.
MCThreads   == {compute, dm0, dm1}
MCPosition  == compute :> 0 @@ dm0 :> 1 @@ dm1 :> 2
MCKind      == compute :> "COMPUTE" @@ dm0 :> "DM" @@ dm1 :> "DM"
MCBuffers   == {in, out}
MCReservers == in :> {dm0} @@ out :> {compute}
MCWaiters   == in :> {compute} @@ out :> {dm1}
\* Both data movement threads reserve the input buffer.
MCShared    == in :> {dm0, dm1} @@ out :> {compute}
MCFactor    == in :> 2 @@ out :> 1
=============================================================================
