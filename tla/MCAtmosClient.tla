---------------------------- MODULE MCAtmosClient ---------------------------
(* AtmosClient on a small instance: what each caller does. *)
EXTENDS AtmosClient, TLC

CONSTANTS t1, t2, t3

Do(name, of) == [name |-> name, of |-> of]

\* One controller is dumped by two tasks, the dump of another one never ends,
\* one of the files is missing, and one read does not wait for a Hello.
Scripts ==
    t1 :> <<Do("info", 1), Do("read", 0)>>
    @@ t2 :> <<Do("info", 1), Do("file", 4), Do("file", 3)>>
    @@ t3 :> <<Do("info", 2), Do("own", 1), Do("hello", 0)>>

=============================================================================
