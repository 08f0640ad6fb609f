-------------------------- MODULE MCServiceLifecycle --------------------------
(* Environments that an operator may have written, right and wrong.        *)
EXTENDS ServiceLifecycle

Kempten == <<"https://ke.lrs.example/xapi">>
Ravensburg == <<"https://rv.lrs.example/xapi">>
Local == <<"http://localhost:8090/xapi">>
Ftp == <<"ftp://localhost">>
MCHttpUris == {Kempten, Ravensburg, Local}
MCUris == MCHttpUris \cup {Ftp}
MCInstanceIds == {<<"hs-ke">>, <<"hs-rv">>, <<"default">>}

Basic(user, password) == [type |-> "basic", username |-> user, password |-> password]
KeySecret == [type |-> "basic", key |-> <<"k">>, secret |-> <<"s">>]

Ke == [id |-> <<"hs-ke">>, name |-> <<"HS Kempten">>, endpoint |-> Kempten,
       timeoutMs |-> DefaultTimeout, auth |-> Basic(<<"u">>, <<"p">>)]
Rv == [Ke EXCEPT !.id = <<"hs-rv">>, !.endpoint = Ravensburg, !.auth = KeySecret]

Json(kind, instances) == [kind |-> kind, instances |-> instances]
Array(instances) == Json("array", instances)

(* LRS_HS_KE_... *)
Variables ==
    [id |-> <<"hs-ke">>, name |-> Empty, endpoint |-> Kempten,
     timeoutMs |-> DefaultTimeout, authType |-> "basic", username |-> Empty,
     password |-> Empty, key |-> Empty, secret |-> Empty, token |-> Empty,
     headers |-> <<>>]

Nothing ==
    [othersValid |-> TRUE, blank |-> {}, json |-> Json("unset", <<>>),
     prefixed |-> <<>>, domain |-> Empty, user |-> Empty, secret |-> Empty,
     timeout |-> [number |-> DefaultTimeout, parsed |-> DefaultTimeout]]

Legacy == [Nothing EXCEPT !.domain = Local, !.user = <<"u">>, !.secret = <<"p">>]

ByJson ==
    {[Nothing EXCEPT !.json = j] : j \in
        {Array(<<Ke, Rv>>), Array(<<Ke, Ke>>), Array(<<>>), Json("syntax", <<>>),
         Array(<<[Ke EXCEPT !.auth = [type |-> "bearer"]]>>),
         Array(<<[Ke EXCEPT !.auth = [type |-> "custom", headers |-> <<>>]]>>),
         Array(<<[Ke EXCEPT !.id = <<"HS_KE">>]>>)}}

ByPrefix ==
    {[Nothing EXCEPT !.prefixed = <<v>>] : v \in
        {[Variables EXCEPT !.username = <<"u">>, !.key = <<"k">>, !.secret = <<"s">>],
         [Variables EXCEPT !.username = <<"u">>],
         [Variables EXCEPT !.authType = "bearer", !.token = <<"t">>],
         [Variables EXCEPT !.authType = "custom", !.headers = << << <<"x">> >>, << <<"a">>, <<"b">> >> >>],
         [Variables EXCEPT !.authType = "custom", !.headers = << << <<"x">> >> >>],
         [Variables EXCEPT !.authType = "bearer", !.token = <<"t">>, !.timeoutMs = NaN],
         [Variables EXCEPT !.authType = "none"]}}

TwoPrefixes ==
    [Nothing EXCEPT !.prefixed =
        <<[Variables EXCEPT !.authType = "bearer", !.token = <<"t">>],
          [Variables EXCEPT !.id = <<"hs-rv">>, !.endpoint = Ravensburg,
                            !.username = <<"u">>, !.password = <<"p">>]>>]

ByLegacy ==
    {Legacy,
     [Legacy EXCEPT !.domain = Ftp],
     [Legacy EXCEPT !.secret = Empty],
     [Legacy EXCEPT !.secret = Empty, !.blank = {"LRS_SECRET"}],
     [Legacy EXCEPT !.timeout = [number |-> 10000, parsed |-> 1]],
     [Legacy EXCEPT !.othersValid = FALSE],
     [Legacy EXCEPT !.json = Array(<<Ke, Rv>>)],
     [Legacy EXCEPT !.json = Array(<<Ke, Ke>>)],
     [Nothing EXCEPT !.json = Array(<<Ke>>), !.blank = {"LRS_DOMAIN", "LRS_USER", "LRS_SECRET"}]}

MCEnvs == {Nothing, TwoPrefixes} \cup ByJson \cup ByPrefix \cup ByLegacy

=============================================================================
