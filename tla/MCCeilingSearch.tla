-------------------------- MODULE MCCeilingSearch --------------------------
(* A 16-bit word and a search bound of 40: every product of the model      *)
(* meets the wrap-around within the inputs below.                          *)
EXTENDS CeilingSearch

(* Infinite and not-a-number round times are what --rounds inf,nan parses to. *)
mcRounds == {<<1, 1>>, <<3, 1>>, <<1, 2>>, <<1, 0>>, <<0, 0>>}

mcLinks == {MinInt, 0, 7, 8, 1000, 1280, 1311, 1312, 4095, 10920, 30000, MaxInt}

mcPeers == {1, 2, 3, 50, 8192, MaxInt}

mcBudgets == [link : mcLinks, round : mcRounds, peers : mcPeers]

mcCosts == {1, 2, 4, 9, 100, 101, 362}
=============================================================================
