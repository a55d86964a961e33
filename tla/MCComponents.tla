---------------------------- MODULE MCComponents ----------------------------
(* Instances of the components that need no threads and no files: those of     *)
(* MCCondition, Digest, Cipher, Bytes, Packing, Multindex, Arguments, Uri, Udp, *)
(* Bitmap, QrCode, HttpText, IniValues and YamlValues.  They share nothing: a    *)
(* behaviour is one of one part.                                                 *)
EXTENDS MCCondition, Digest, Cipher, Packing, Multindex, Arguments, Uri, Udp, Bitmap, QrCode,
        HttpText, IniValues, YamlValues, TLC, Bitwise

VARIABLE part

MCIV == <<1, 2>>
\* A permutation of the blocks that is none of the values it is mixed with.
MCEncryptBlock(b) == [i \in 1..CipherBlock |-> (b[i] + i + (IF i = 1 THEN 0 ELSE b[i - 1])) % ByteValues]
MCDecryptBlock(c) == CHOOSE b \in CipherBlocks : MCEncryptBlock(b) = c
MCCipherXor(x, y) == x ^^ y

MCItems == {NumberItem(300), StringItem(<<>>), StringItem(<<7, 0>>), RawItem(<<9>>),
            ContainerItem(<<>>), ContainerItem(<<2>>)}
MCFileNames == {<<97>>, <<97, 98>>}
\* Among them "," and "%", bytes that are no letters, and the four that make
\* every kind of a base64 digit.
MCContents == {<<>>, <<0>>, <<44, 37>>, <<97, 255, 61>>, <<37, 52, 49, 251, 126, 45>>}
\* a/b and a;base64/
MCMediaTypes == {<<>>, <<97, 47, 98>>, <<97, 59, 98, 97, 115, 101, 54, 52, 47>>}

MCArgWords == {<<>>, <<"w">>, <<"-", "a">>, <<"-", "a", "b">>, <<"-", "-">>, <<"-", "-", "a">>,
               <<"-", "-", "l", "=", " ", " ", "w">>}

Http == <<"h", "t", "t", "p">>
MCUriTexts ==
    {Http \o SchemeEnd \o rest : rest \in
        {<<>>, <<"H">>, <<"U", "@", "h">>, <<"u", ":", "p", "@", "h", ":", "8">>, <<"u", ":", "8", "@">>,
         <<"h", ":", "9", "9", "/", "P", "?", "q", "#", "f">>, <<"h", "?", "q">>, <<"h", ":">>,
         <<"h", ":", "2", "1">>, <<"@", "h">>, <<"h", "/", "@">>}}
    \cup {<<>>, <<"h">>, <<"H", "t">> \o SchemeEnd \o <<"h", "#">>, <<"8">> \o SchemeEnd \o <<"h">>}
MCUriLetters == {<<"h", "H">>, <<"t", "T">>, <<"p", "P">>, <<"u", "U">>, <<"q", "Q">>, <<"f", "F">>}
MCSchemes == {<<"F">>, <<"8">>}
MCUsers == {<<>>, <<"U">>}
MCHosts == {<<"H">>, <<"h", "8">>}
MCPaths == {<<>>, <<"/", "P">>}
MCQueries == {<<"q">>}

SocketsAlike == Permutations(Sockets)
MCHere == <<1, 1>>
MCPeers == {[addr |-> <<2, 2>>, port |-> 7], [addr |-> <<1, 2>>, port |-> 7]}
MCPayloads == {<<6, 7>>}

MCStamps == {{<<0, 0>>, <<1, 1>>}, {<<0, 0>>, <<0, 1>>}}
MCRegions == {<<3, 2>>, <<2, 1>>, <<0, 0>>}

Request(text, level, version, mode, mask, zone) ==
    [text |-> text, level |-> level, version |-> version, mode |-> mode, mask |-> mask, zone |-> zone]
\* The longest number that fits version 1 at level H, and one more.
LongNumber == [i \in 1..17 |-> 48 + (i % 10)]
LongerNumber == LongNumber \o <<49>>
\* "A :9Z", and bytes that are no letters
AlnumText == <<65, 32, 58, 57, 90>>
ByteText == <<97, 255, 0>>
\* Versions 5, 7 and 10 have several blocks, 7 and 10 the version information,
\* 10 a longer field for the length.
MCRequests ==
    {Request(AlnumText, "L", 0, "automatic", mask, 4) : mask \in 0..7}
    \cup {Request(text, level, 0, "automatic", 6, 0) :
              text \in {<<>>, ByteText, AlnumText, LongNumber, LongerNumber}, level \in Levels}
    \cup {Request(LongNumber, "H", 0, mode, 3, -1) : mode \in {"alphanumeric", "byte", "kanji"}}
    \cup {Request(AlnumText, "M", 0, "automatic", -1, 0), Request(ByteText, "Q", 1, "automatic", 4, 0),
          Request(AlnumText, "Q", 5, "automatic", 1, 0), Request(LongNumber, "H", 7, "automatic", 2, 1),
          Request(AlnumText, "H", 10, "automatic", 5, 0),
          Request([i \in 1..1300 |-> 97], "H", 0, "automatic", 0, 0)}
    \* A version that is too small, a mask that is none, letters as digits
    \cup {Request(LongerNumber, "H", 1, "automatic", 3, 0), Request(AlnumText, "M", 0, "automatic", 9, 0),
          Request(AlnumText, "L", 0, "numeric", 1, 0)}

HttpHeaders(keys, value) == [k \in keys |-> value]
HttpRequest(method, path, headers, body) ==
    [kind |-> "request", method |-> method, path |-> path, version |-> <<"HTTP/1.1">>, headers |-> headers, body |-> body]
\* Bodies with an empty line, with what looks like a header, and with a zero.
MCBodies == {<<>>, <<"a">>, <<CR, LF, CR, LF>>, <<"X", ":", "a", LF>>, <<"a", NulChar, "b">>}
MCHeaders == {HttpHeaders({}, <<>>), HttpHeaders({<<"X">>, TypeKey}, <<"v", ":", " ", "w", "\t">>),
              HttpHeaders({LengthKey}, <<"4">>), HttpHeaders({<<>>}, <<>>), HttpHeaders({<<"X">>}, <<" ", "v">>)}
MCHttpSent ==
    {HttpRequest("GET", <<"/">>, headers, <<"a">>) : headers \in MCHeaders}
    \cup {HttpRequest("GET", <<"/">>, HttpHeaders({}, <<>>), body) : body \in MCBodies}
    \cup {HttpRequest(method, <<"/", "a">>, HttpHeaders({}, <<>>), <<"a">>) : method \in Methods \cup {"CUSTOM"}}
    \cup {HttpRequest("PUT", <<"/", " ", "a">>, HttpHeaders({}, <<>>), <<>>)}
    \cup {MakeText(status, <<>>) : status \in DOMAIN StatusMessages \cup {"299"}}
    \cup {MakeText("404", body) : body \in MCBodies}
    \cup {MakeJson("200", <<"{", LF, "}">>)}
MCStarts == {<<>>, <<"GET">>, <<"GET", "\t", "/">>, <<"PUSH", " ", "/">>, <<"HTTP/1.1">>, <<"HTTP/1.1", " ", "200", "x">>}
\* Lines that end in a line feed only, a line without a colon, two lengths.
MCForeign ==
    {[kind |-> kind, text |-> start \o rest] : kind \in {"request", "response"}, start \in MCStarts,
        rest \in {Break \o Break, <<LF, "X", ":", "v", LF, LF, "a", ":", "b">> \o Break \o Break \o <<"c">>,
                  Break \o <<"X", "v", LF>> \o <<"Content-Length", ":", "1", CR, LF, "Content-Length", ":", "2">>
                    \o Break \o Break \o <<"X", ":", "c">>,
                  Break \o <<"Content-Length", ":", "-", "1">> \o Break \o Break \o <<"a", LF, "b", CR, LF>>}}

MCTypedKeys == {<<"k">>, <<"j">>}
MCTypedValues ==
    {[literal |-> <<"a">>]}
    \cup {[text |-> t] : t \in {<<"o", "f", "f">>, <<"2", "0", "x", "=">>}}
    \cup {[bool |-> TRUE], [int |-> -8], [bytes |-> <<9, 159>>]}
    \cup {[list |-> l] : l \in {<<<<"a", " ", "b">>, <<>>, <<"c">>>>}}

YKey(k) == <<Y!YMember(k)>>
YOne == Y!YInt(<<"1">>)
MCYamlTrees ==
    {Y!YObject([a |-> Y!YObject([k |-> YOne]), b |-> AliasTo("x", YKey("a")),
                c |-> Y!YArray(<<Y!YObject([k |-> YOne]), AliasTo("y", YKey("c") \o <<Y!Element(1)>>)>>)]),
     Y!YObject([a |-> Y!YArray(<<YOne>>), b |-> AliasTo("x", YKey("a")), c |-> Y!YNull])}
MCYamlPaths ==
    {<<>>, YKey("a"), YKey("b"), YKey("c"), YKey("a") \o YKey("k"), YKey("b") \o YKey("k")}
    \cup {YKey("b") \o <<Y!Element(3)>>}
    \cup {YKey("c") \o <<Y!Element(1)>> \o YKey("k"), YKey("c") \o <<Y!Element(2)>> \o YKey("k"), YKey("c") \o <<Y!Element(3)>>}
MCYamlScalars == {Y!YString(<<"s">>)}

-----------------------------------------------------------------------------
Parts == {"condition", "digest", "cipher", "bytes", "pack", "multindex", "arguments", "uri", "udp", "bitmap", "qrcode",
          "httptext", "ini", "yamlvalues"}
MCInit ==
    /\ part \in Parts
    /\ IF part = "condition" THEN Init ELSE expr = Null
    /\ DigestInit /\ (part = "digest" \/ hasher = NewStream("crc32"))
    /\ CipherInit /\ (part = "cipher" \/ cipher = NewCipher("ecb", "encrypt"))
    /\ BytesInit /\ PackInit /\ MultindexInit
    /\ ArgumentsInit /\ (part = "arguments" \/ (policy = {} /\ style = "GNU"))
    /\ UriInit /\ UdpInit /\ BitmapInit /\ QrInit
    /\ IF part = "httptext" THEN HttpTextInit ELSE wire = Wire("request", <<>>, Unread)
    /\ SettingsInit
    /\ IF part = "yamlvalues" THEN YamlValuesInit
       ELSE yamlTree = Y!YNull /\ yamlEdits = 0 /\ lastCall = Called("none", <<>>, Y!YNull, FALSE)
Idle(p, vars) == part # p => UNCHANGED vars
MCNext ==
    /\ UNCHANGED part
    /\ Idle("condition", expr)
    /\ Idle("digest", digestVars) /\ Idle("cipher", cipherVars) /\ Idle("bytes", bytesVars) /\ Idle("pack", pack)
    /\ Idle("multindex", multindexVars) /\ Idle("arguments", argumentVars) /\ Idle("uri", uriVars)
    /\ Idle("udp", udpVars) /\ Idle("bitmap", picture) /\ Idle("qrcode", symbol)
    /\ Idle("httptext", wire) /\ Idle("ini", settingVars)
    /\ Idle("yamlvalues", yamlValueVars)
    /\ \/ part = "condition" /\ TextNext
       \/ part = "digest" /\ DigestNext
       \/ part = "cipher" /\ CipherNext
       \/ part = "bytes" /\ BytesNext
       \/ part = "pack" /\ PackNext
       \/ part = "multindex" /\ MultindexNext
       \/ part = "arguments" /\ ArgumentsNext
       \/ part = "uri" /\ UriNext
       \/ part = "udp" /\ UdpNext
       \/ part = "bitmap" /\ BitmapNext
       \/ part = "qrcode" /\ QrNext
       \/ part = "httptext" /\ HttpTextNext
       \/ part = "ini" /\ SettingsNext
       \/ part = "yamlvalues" /\ YamlValuesNext
MCSpec == MCInit /\ [][MCNext]_<<expr, digestVars, cipherVars, bytesVars, pack, multindexVars, argumentVars,
                                  uriVars, udpVars, picture, symbol, wire, settingVars, yamlValueVars, part>>
=============================================================================
