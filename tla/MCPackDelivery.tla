--------------------------- MODULE MCPackDelivery ---------------------------
(* One parameter kind; pictures, key frames, parameter packs, a parameter   *)
(* set and a key frame in one aggregation packet, packs the cache ignores.  *)
EXTENDS PackDelivery

MCParamOrder == <<"sps">>
MCShape == {[cached |-> TRUE, nals |-> {"sps"}],
            [cached |-> TRUE, nals |-> {"key"}],
            [cached |-> TRUE, nals |-> {"sps", "key"}],
            [cached |-> TRUE, nals |-> {}],
            [cached |-> FALSE, nals |-> {}]}
=============================================================================
