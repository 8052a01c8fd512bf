------------------------------- MODULE MCKVWalk -------------------------------
EXTENDS KVWalk

MCEntryPointLists == {<<>>, <<"web">>, <<"", "web">>, <<"web", "websecure">>}
MCServerLists == {<<>>, <<"url1">>, <<"url1", "url2">>, <<"", "url2">>}
MCIndex == <<"0", "1">>
===============================================================================
