--------------------------- MODULE MCFcgxRequest ---------------------------
(* Small web servers for FcgxRequest. *)
EXTENDS FcgxRequest

Begin(id, role, keep) == Record("BEGIN_REQUEST", id, <<role, keep>>, 0)

\* A request with a parameter and a body in padded records; like nginx's, its
\* BEGIN_REQUEST and the ends of its streams are not padded.
Post ==
    [id |-> 1, env |-> <<"a">>, stdin |-> <<"x", "y">>,
     records |-> Begin(1, "RESPONDER", "keep")
                    \o Record("PARAMS", 1, <<"a", "a">>, 1) \o Record("PARAMS", 1, <<>>, 0)
                    \o Record("STDIN", 1, <<"x">>, 1)
                    \o Record("STDIN", 1, <<"y">>, 0) \o Record("STDIN", 1, <<>>, 0)]

\* One that another request and management records break into.
Mixed ==
    [id |-> 1, env |-> <<>>, stdin |-> <<>>,
     records |-> Record("GET_VALUES", 0, <<"MAX_CONNS", "">>, 0) \o Begin(1, "FILTER", "close")
                    \o Record("PARAMS", 1, <<>>, 0) \o Begin(2, "RESPONDER", "keep")
                    \o Record("OTHER", 0, <<>>, 0) \o Record("STDIN", 1, <<>>, 0)
                    \o Record("DATA", 1, <<>>, 0)]

\* One with a role nobody has.
Odd ==
    [id |-> 1, env |-> <<>>, stdin |-> <<>>,
     records |-> Begin(1, "UNKNOWN", "keep")]

\* One that a whole request without parameters breaks into: a web server that
\* multiplexes sends it before it reads the refusal.
Interrupted ==
    [id |-> 1, env |-> <<>>, stdin |-> <<"x">>,
     records |-> Begin(1, "RESPONDER", "keep") \o Record("PARAMS", 1, <<>>, 0)
                    \o Begin(2, "RESPONDER", "keep") \o Record("PARAMS", 2, <<>>, 0)
                    \o Record("STDIN", 1, <<"x">>, 0) \o Record("STDIN", 1, <<>>, 0)]

MCScript == [post |-> Post, mixed |-> Mixed, odd |-> Odd]

MultiplexingScript == [interrupted |-> Interrupted]

MCMisread ==
    {[MakeHeader("STDIN", 1, 0, 0) EXCEPT !.version = 0], MakeHeader("STDIN", 2, 1, 0)}
==============================================================================
