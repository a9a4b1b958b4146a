----------------------------- MODULE MCVersions -----------------------------
(***************************************************************************)
(* An instance of Versions: main publishes production versions, one        *)
(* release branch gets its channel from a pattern, and topics have none.   *)
(***************************************************************************)
EXTENDS Versions, TLC

AllBranches == {Main, <<"release", "2">>, <<"topic">>}

AllChannels ==
  {[pattern |-> Main, glob |-> FALSE,
    config |-> [channel |-> "production", prerelease |-> FALSE]],
   [pattern |-> <<"release", "1">>, glob |-> FALSE,
    config |-> [channel |-> "beta", prerelease |-> TRUE]],
   [pattern |-> <<"release">>, glob |-> TRUE,
    config |-> [channel |-> "rc", prerelease |-> TRUE]]}

AllMessages ==
  {[type |-> "feat", breaking |-> "no"], [type |-> "fix", breaking |-> "no"],
   [type |-> "other", breaking |-> "subject"]}

Footers == {[type |-> "fix", breaking |-> "footer"]}

AllFirstTags ==
  {{}, {Tag(Stable(<<1, 9, 3>>), {1}, Main),
        Tag(Prerelease(<<1, 9, 4>>, "rc", 2), {1}, <<"release", "2">>)}}

JobSymmetry == Permutations(Jobs)

=============================================================================
