--------------------------- MODULE MCSourceCache ---------------------------
EXTENDS SourceCache, TLC

CONSTANTS c1, c2, c3, d1, d2

\* Two commands of one daemon and one of another, which differ in how they
\* clone and in the checksum they want.
MCDaemonOf == (c1 :> d1) @@ (c2 :> d1) @@ (c3 :> d2)
MCMethod == (c1 :> "auto") @@ (c2 :> "https") @@ (c3 :> "ssh")
MCPin == (c1 :> AnyVersion) @@ (c2 :> 0) @@ (c3 :> 0)
=============================================================================
