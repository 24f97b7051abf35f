------------------------------ MODULE MCStreams ------------------------------
(* The three modules about streams share no state: a behaviour goes on in  *)
(* one of them and leaves the others in their initial state.               *)
EXTENDS Streams, ExtFilter, StreamCmp

MCIds == 1..4
MCFiles == 1..2
Text  == [size |-> 70000, gz |-> 30000, cl |-> <<20000, 0, 3000>>, gun |-> -1, z |-> <<>>]
Edited == [Text EXCEPT !.cl = <<15000, 0, 3000>>, !.gz = 25000,     \* starts by a zisofs file
                       !.z = <<[algo |-> 0, hs |-> 4, bl |-> 15, us |-> 40000,
                                pt |-> <<28, 2000, 3000>>]>>]
MCParamSets == {[bs |-> 16, bs2 |-> 16, v2 |-> 2, target |-> 3]}
MCStackings == {<<"fsrc", "gzip">>, <<"fsrc", "ziso">>, <<"fsrc", "osiz">>,
                <<"gzip", "pizg">>, <<"ziso", "gzip">>}
MCContents == {Text, Edited}

Plain3(c, fs, ino) == [class |-> c, version |-> 4, fs |-> fs, dev |-> 0, ino |-> ino,
                       size |-> 5, ifs |-> FALSE, sec |-> <<>>, cmd |-> 0, input |-> 0]
Image(ino, s) == [Plain3("fsrc", 2, ino) EXCEPT !.ifs = TRUE, !.sec = s]
Filter(c, on, cmd) == [Plain3(c, 3, on) EXCEPT !.input = on, !.cmd = cmd]
MCPool == <<Plain3("fsrc", 1, 7), Plain3("fsrc", 1, 8), Plain3("mem", 0, 0),
            Image(1, <<<<20, 5>>>>), Image(3, <<<<30, 5>>>>), Image(2, <<<<0, 5>>>>),
            Image(4, <<<<40, 0>>>>), Filter("gzip", 1, 0), Filter("gzip", 4, 0),
            Filter("ziso", 2, 0), Filter("extf", 2, 1), Filter("extf", 1, 2),
            [Plain3("user", 4, 9) EXCEPT !.version = 2],
            Image(5, <<<<20, 5>>, <<25, 3>>>>)>>

MCInit == Init /\ XInit /\ CInit
MCNext == \/ XInit /\ CInit /\ Next /\ UNCHANGED <<xvars, ranks>>
          \/ Init /\ CInit /\ XNext /\ UNCHANGED <<vars, ranks>>
          \/ Init /\ XInit /\ CNext /\ UNCHANGED <<vars, xvars>>
MCSpec == MCInit /\ [][MCNext]_<<vars, xvars, ranks>> /\ XFairness

\* A filter delivers the bytes it has announced, all of them and no others,
\* be it compression inside of the library or an external program
\* (ziso_stream_compress(), extf_stream_read()).
FilteredContent == CompressionAsAnnounced /\ FilterOutputComplete
=============================================================================
