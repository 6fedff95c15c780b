-------------------------------- MODULE MCCores --------------------------------
(* Cores with one node of any kind beside a plain one, on xray, on sing or on both. *)
EXTENDS Cores

MCTypeOf == [c \in CoreNames |-> IF c = "x" THEN "xray" ELSE "sing"]
MCSetups == {{"x"}, {"s"}, {"x", "s"}}

V2rays == [type : {"vmess", "vless"}, network : {"tcp", "ws", "other"},
           settings : {"none", "ok", "bad"}, security : {"none", "tls"}]
Reality == [type |-> "vless", network |-> "grpc", settings |-> "ok", security |-> "reality"]
Plain(type, security) == [type |-> type, network |-> "other", settings |-> "none", security |-> security]
Shadowsocks == Plain("shadowsocks", "none")

MCInfos == [t \in Tags |->
    IF t = "t1" THEN V2rays \cup {Reality, Shadowsocks, Plain("socks", "none"),
                                  Plain("trojan", "tls"), Plain("hysteria", "tls")}
    ELSE {Shadowsocks}]

Config(value, name, cert, fallback) ==
    [Core |-> value, name |-> name, cert |-> cert, fallback |-> fallback]
MCConfigs == [t \in Tags |->
    IF t = "t1" THEN {Config("xray", "", TRUE, "off"), Config("xray", "", FALSE, "bad"),
                      Config("sing", "", TRUE, "ok"), Config("sing", "", FALSE, "off"),
                      Config("other", "", TRUE, "off"), Config("absent", "", TRUE, "off"),
                      Config("absent", "s", TRUE, "off"), Config("absent", "y", TRUE, "off")}
    ELSE {Config("xray", "", TRUE, "off"), Config("sing", "", TRUE, "off")}]
=============================================================================
