--------------------------- MODULE MC_LogAggregate --------------------------
(***************************************************************************)
(* Instances of LogAggregate for TLC: a small tree with a hot-path module, *)
(* a test file, a build output under target/, two files named mod.rs and  *)
(* a file at the top, each with any of four check_file outcomes.          *)
(***************************************************************************)
EXTENDS LogAggregate, TLC

CONSTANTS trace, debug

MCLevels == {trace, debug}

MCOutcomes == {Unreadable, << >>, <<trace>>, <<trace, debug>>}

MCTree ==
  { <<"daemon", "src", "core", "state", "mod.rs">>,
    <<"daemon", "src", "p2p", "mod.rs">>,
    <<"daemon", "tests", "a_test.rs">>,
    <<"target", "debug", "out.rs">>,
    <<"main.rs">> }

\* The tree with Cargo's integration tests at its top.
MCTreeTopTests == MCTree \cup {<<"tests", "sync.rs">>}

\* HOT_PATH_PATTERNS
MCHot ==
  { [segs |-> <<"daemon", "src", "core", "blockchain.rs">>, lead |-> FALSE, trail |-> FALSE],
    [segs |-> <<"daemon", "src", "core", "state">>,         lead |-> FALSE, trail |-> TRUE],
    [segs |-> <<"daemon", "src", "core", "mempool.rs">>,    lead |-> FALSE, trail |-> FALSE],
    [segs |-> <<"daemon", "src", "p2p", "mod.rs">>,         lead |-> FALSE, trail |-> FALSE],
    [segs |-> <<"daemon", "src", "p2p", "connection.rs">>,  lead |-> FALSE, trail |-> FALSE],
    [segs |-> <<"daemon", "src", "p2p", "chain_sync">>,     lead |-> FALSE, trail |-> TRUE],
    [segs |-> <<"daemon", "src", "p2p", "peer_list">>,      lead |-> FALSE, trail |-> TRUE],
    [segs |-> <<"daemon", "src", "core", "storage">>,       lead |-> FALSE, trail |-> TRUE],
    [segs |-> <<"common", "src", "transaction", "verify">>, lead |-> FALSE, trail |-> TRUE] }

\* '/tests/', '/examples/', '/benches/'
MCSkip ==
  { [segs |-> <<"tests">>,    lead |-> TRUE, trail |-> TRUE],
    [segs |-> <<"examples">>, lead |-> TRUE, trail |-> TRUE],
    [segs |-> <<"benches">>,  lead |-> TRUE, trail |-> TRUE] }

MCTestPrefixed == {"test_util.rs"}
MCTestSuffixed == {"a_test.rs"}

\* --dir /home/dev/tos
MCRoot == <<"home", "dev", "tos">>
\* --dir . (the default)
MCRootDot == << >>
\* --dir /srv/target/tos
MCRootInTarget == <<"srv", "target", "tos">>
=============================================================================
