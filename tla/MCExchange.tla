---------------------------------- MODULE MCExchange ----------------------------------
(***************************************************************************)
(* Values for the constants of Exchange. Pipes hold two tokens; bodies     *)
(* fit one pipe, both together or neither, and one exceeds the limit.      *)
(***************************************************************************)
EXTENDS Exchange

MCRuns   == 1..2
MCBytes  == [t: {"line", "CL", "num", "CRLF", "byte"}, of: MCRuns, v: 0..6]
MCBanner == [t |-> "byte", of |-> 0, v |-> 0]

Get(kind)        == [kind |-> kind, size |-> 0, field |-> FALSE]
Post(kind, size) == [kind |-> kind, size |-> size, field |-> TRUE]

MCRequests ==
    {Get("static"), Get("gather"), Post("static", 1), Post("echo", 2), Post("echo", 5),
     Post("gather", 4), Post("blind", 1), Post("blind", 4), Post("static", 6)}
=============================================================================
