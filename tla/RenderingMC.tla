---------------------------- MODULE RenderingMC ----------------------------
(***************************************************************************)
(* Instances of Rendering for TLC.                                         *)
(***************************************************************************)
EXTENDS Rendering, TLC

Keys ==
    ("auth.key" :> "AUTH.KEY") @@ ("providers.json" :> "PROVIDERS.JSON")
        @@ ("token-a" :> "TOKEN_A") @@ ("token_a" :> "TOKEN_A")

NoImage == [repository |-> "", tag |-> ""]
Mount(name, key) == [name |-> name, key |-> key, path |-> "", env |-> ""]

Knobs ==
    [image |-> NoImage, config |-> <<>>, settings |-> <<>>, secretRefs |-> <<>>,
     minReplicas |-> 0, persistence |-> "unset", inCluster |-> FALSE,
     externalURL |-> FALSE, auth |-> ""]

Platform(children) ==
    [image |-> NoImage, pullSecret |-> "", telemetry |-> "off", logLevel |-> "",
     child |-> children]

\* A gateway, and edits of its configuration alone and of all it is given.
Gateway ==
    Platform("ZelosGateway" :> [Knobs EXCEPT !.config = "GREETING" :> "hi"])
Gateway1 ==
    Platform("ZelosGateway" :> [Knobs EXCEPT !.config = "GREETING" :> "ho"])
Gateway2 ==
    [Platform("ZelosGateway" :> [Knobs EXCEPT
        !.image.tag = "v2", !.persistence = "on", !.minReplicas = 2,
        !.config = ("GREETING" :> "ho") @@ ("ZelosGateway_PORT" :> "9")
                       @@ ("OTEL_LOG_LEVEL" :> "error"),
        !.secretRefs = <<Mount("s1", "token-a"), Mount("s2", "token_a")>>])
     EXCEPT !.image = [repository |-> "mirror", tag |-> "v1"],
            !.pullSecret = "pull", !.telemetry = "collector", !.logLevel = "debug"]

\* An MCP component whose auth key the spec lists itself, from the standard
\* Secret, elsewhere, or from another Secret, which is refused.
MCP(refs) ==
    Platform("ZelosMCP" :> [Knobs EXCEPT !.auth = "auth", !.secretRefs = refs,
        !.settings = "ZELOSMCP_SERVERS_CONFIGMAP" :> "servers"])
MCPListed == MCP(<<Mount("auth", "auth.key")>>)
MCPMoved == MCP(<<[Mount("auth", "auth.key") EXCEPT !.path = "/keys/auth"],
                  [Mount("s1", "auth.key") EXCEPT !.env = "OTHER_KEY"],
                  [Mount("s2", "providers.json") EXCEPT !.path = "/keys/providers"]>>)
MCPRefused == MCP(<<Mount("s1", "auth.key")>>)

\* A client on NATS, or on a substrate elsewhere.
Client(external) ==
    Platform(("ZelosBackplane" :> [Knobs EXCEPT !.externalURL = external])
        @@ ("ZelosClient" :> [Knobs EXCEPT !.inCluster = TRUE,
                !.settings = "ZELOSCLIENT_RUNTIME" :> "vllm"]))

\* A broker that keeps state, and a server.
Broker ==
    Platform(("ZelosBroker" :> [Knobs EXCEPT !.persistence = "on",
                !.settings = "ZELOSBROKER_TUNNEL_TRANSPORT" :> "ssh",
                !.secretRefs = <<Mount("s1", "token-a")>>])
        @@ ("ZelosServer" :> [Knobs EXCEPT !.config = "GREETING" :> "hi"]))

RenderedSpecs ==
    {Gateway, Gateway1, Gateway2, MCPListed, MCPMoved, MCPRefused, Client(FALSE), Broker}
ExternalSpecs ==
    {Platform(("ZelosBackplane" :> [Knobs EXCEPT !.externalURL = TRUE])
        @@ ("ZelosGateway" :> Knobs))}

=============================================================================
