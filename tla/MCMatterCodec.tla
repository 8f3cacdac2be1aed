----------------------------- MODULE MCMatterCodec -----------------------------
(* Messages whose optional fields are there or not in every combination;   *)
(* the digits are chosen so that a shifted field shows.                    *)
EXTENDS MatterCodec

Node == <<1, 2, 3, 4, 5, 6, 7, 8>>
None8 == Zero(8)

MCMessages ==
  [packetHeader :
     [sessionId : {<<9, 10>>}, sessionType : SessionType,
      messageId : {<<11, 12, 13, 14>>}, hasPrivacyEnhancements : {FALSE},
      isControlMessage : BOOLEAN, hasMessageExtensions : BOOLEAN,
      sourceNodeId : {None8, Node}, destNodeId : {None8, Node},
      destGroupId : {Zero(2), <<0, 15>>}],
   payloadHeader :
     [exchangeId : {<<19, 20>>},
      protocolId : {<<1, 0, 0, 0>>, <<0, 0, 18, 0>>, <<18, 0, 18, 0>>},
      messageType : {32}, isInitiatorMessage : BOOLEAN, requiresAck : {TRUE},
      ackedMessageId : {Zero(4), <<16, 0, 0, 17>>},
      hasSecuredExtension : BOOLEAN],
   securityExtension : {<<>>, <<26>>}, payload : {<<>>, <<21, 22>>}]

MCExtension == <<23, 24, 25>>
=============================================================================
