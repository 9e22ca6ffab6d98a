------------------------------ MODULE MCStores ------------------------------
(***************************************************************************)
(* An instance of Stores for TLC.                                          *)
(***************************************************************************)
EXTENDS Stores, TLC

CONSTANTS short, long   \* secrets

\* A short and a long secret.
TwoSecrets == {short, long}
Lengths == short :> 1 @@ long :> 2

\* The image sets its PATH, and two variables whose values have "=".
MCImage == ("PATH" :> <<"bin">>) @@ ("JAVA" :> <<"-D", "on">>)
           @@ ("fprocess" :> <<"serve", "1">>)

Empty == [k \in {} |-> <<>>]

\* Values with "=", fprocess and PATH as variables, an fprocess that removes a
\* variable of the image, names one of the request, sets it again or is empty,
\* labels with the prefix of annotations, and an annotation with that prefix.
Asked(process, variables, plain, annotations) ==
    [envProcess |-> process, envVars |-> variables, labels |-> plain,
     annotations |-> annotations, secrets |-> {"s"}, limits |-> 1]

Odd ==
    {Asked(<<>>, "debug" :> <<"1", "2">>, l, a) :
        l \in {<<0, "a">> :> "v", <<1, "a">> :> "w"},
        a \in {Empty, <<0, "a">> :> "v", <<1, "a">> :> "w"}}
    \cup
    {Asked(<<"run", "on">>, v, <<0, "a">> :> "v", <<1, "a">> :> "w") :
        v \in {"debug" :> <<"1", "2">>, "fprocess" :> <<"JAVA">>,
               ("fprocess" :> <<"JAVA">>) @@ ("JAVA" :> <<"off">>),
               ("fprocess" :> <<"debug">>) @@ ("debug" :> <<"1">>),
               ("fprocess" :> <<"debug", "2">>) @@ ("debug" :> <<"1">>),
               "fprocess" :> <<"fprocess", "">>,
               ("fprocess" :> <<"run", "on">>) @@ ("PATH" :> <<"opt">>)}}

\* A name that ends another one, and one that is in another with "-" and digits;
\* a PID that begins another.
SimilarNames ==
    {[namespace |-> "fn", name |-> <<"a", "t", "s">>],
     [namespace |-> "fn", name |-> <<"n", "a", "t", "s">>],
     [namespace |-> "fn", name |-> <<"n", "a", "t", "s", "-", "6", "2">>]}
Growing == {<<"6">>, <<"6", "2">>, <<"7">>}

\* Goroutines, requests and nodes differ in nothing but their names.
Symmetry == Permutations(Goroutine) \cup Permutations(CopyNode)
=============================================================================
