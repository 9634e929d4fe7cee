---------------------------- MODULE MCStreamViews ----------------------------
(* Streams, events and users for checking StreamViews. *)
EXTENDS StreamViews

CONSTANTS f1, f2, f3, f4

MCProtocol(f) == IF f = f4 THEN "udp" ELSE "tcp"
MCPorts(f) == IF f = f1 THEN {80} ELSE {}

Guess(name) == [name |-> name, side |-> "B", confidence |-> IF name = "unknown" THEN 0 ELSE 90,
                source |-> "Payload", evidence |-> name]
Row(name, status) == [status |-> status, kind |-> IF name = "tls" THEN "Binary" ELSE "Unknown",
                      service |-> Guess(name)]
Opened(f, name) == [type |-> "stream_open", flow |-> f, row |-> Row(name, "Open")]
Closed(f, name) == [type |-> "stream_update", flow |-> f, row |-> Row(name, "Closed")]
Match(f, p) == [type |-> "pattern_match", match |-> [flow |-> f, pattern |-> p]]
Message(f, protocol) == [type |-> "protocol_message",
    message |-> [flow |-> f, protocol |-> protocol, https |-> FALSE, side |-> "B", error |-> FALSE]]

MCBatches ==
    { <<Opened(f1, "unknown"), Opened(f2, "tls"), Match(f2, "p")>>,
      <<Opened(f3, "http"), Match(f2, "q"), Closed(f1, "http")>>,
      <<Opened(f4, "unknown"), Match(f4, "q"), Match(f4, "p")>>,
      <<Opened(f1, "unknown"), Match(f1, "p"), Message(f1, "http"), Message(f2, "tls")>> }
MCPatches ==
    { [flow |-> f1, favorite |-> {TRUE}, hidden |-> {}], [flow |-> f2, favorite |-> {}, hidden |-> {TRUE}],
      [flow |-> f2, favorite |-> {TRUE}, hidden |-> {FALSE}] }

MCProfileFiles ==
    { [include_builtins |-> TRUE, profiles |-> <<Profile("http", 15, {}, On("port", {80}), <<>>)>>],
      [include_builtins |-> FALSE,
       profiles |-> <<Profile("flag", 10, {}, On("pattern", {"p"}), Hide("status", "Closed")),
                      [Profile("off", 10, {}, On("port", {80}), <<>>) EXCEPT !.enabled = FALSE],
                      Profile("tcp", 20, On("protocol", {"tcp"}), On("service", {"unknown", "tls"}), <<>>)>>] }

MCRules == {[on |-> "stream", value |-> f2], [on |-> "pattern", value |-> "q"]}

MCQueries ==
    { [limit |-> 1, include_hidden |-> TRUE, only_favorites |-> FALSE, only_matched |-> FALSE,
       all |-> {}, profile |-> ""],
      [limit |-> 0, include_hidden |-> FALSE, only_favorites |-> FALSE, only_matched |-> TRUE,
       all |-> {}, profile |-> ""],
      [limit |-> 2, include_hidden |-> FALSE, only_favorites |-> FALSE, only_matched |-> FALSE,
       all |-> On("protocol", {"tcp"}), profile |-> "http"] }
=============================================================================
