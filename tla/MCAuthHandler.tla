---------------------------- MODULE MCAuthHandler ----------------------------
EXTENDS AuthHandler
\* k1 is configured twice (two Host blocks that both match), k3 only the agent has.
MCIdentityFiles == <<"k1", "k2", "k1">>
MCAgentLists == {<<>>, <<"k3", "k1">>}
MCPreferences == {Methods, {"publickey", "keyboard-interactive"}}
==============================================================================
