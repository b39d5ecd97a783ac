-------------------------------- MODULE Http --------------------------------
(***************************************************************************)
(* HttpParser.cpp: http_parser_execute, called with a stream in pieces     *)
(* (module HttpSplit), and http_parser_parse_url, called with a URL        *)
(* (HttpUrl).  They share no state: a behaviour is about one of the two    *)
(* ("reading"), and the variables of the other stay as they are at first.  *)
(***************************************************************************)
EXTENDS HttpSplit

CONSTANTS UrlChars, MaxUrl, MaxPort \* see HttpUrl

VARIABLES
  reading,  \* "stream" or "url"
  urlRead, forConnect, urlState, urlField, lastField, atFound, hostState, hostAt, hostEnd,
  urlResult, urlPort

Url == INSTANCE HttpUrl
  WITH Chars <- UrlChars, url <- urlRead, connect <- forConnect, s <- urlState,
       field <- urlField, old_uf <- lastField, found_at <- atFound, hs <- hostState,
       p <- hostAt, buflen <- hostEnd, result <- urlResult, port <- urlPort

ASSUME HttpUrlAssumption == Url!UrlAssumption

streamVars == vars
urlVars ==
  <<urlRead, forConnect, urlState, urlField, lastField, atFound, hostState, hostAt, hostEnd,
    urlResult, urlPort>>
httpVars == <<reading, streamVars, urlVars>>

(* What is not read begins in one way only.                                *)
HttpInit ==
  /\ Init /\ Url!Init
  /\ \/ reading = "stream" /\ ~forConnect
     \/ reading = "url" /\ stream = CHOOSE b \in Beginnings : TRUE

StreamStep == reading = "stream" /\ Next /\ UNCHANGED <<reading, urlVars>>
UrlStep == reading = "url" /\ Url!Next /\ UNCHANGED <<reading, streamVars>>

HttpNext == StreamStep \/ UrlStep

HttpSpec == HttpInit /\ [][HttpNext]_httpVars

-----------------------------------------------------------------------------
(* Properties                                                              *)

(* A URL http_parser_parse_url accepts is the concatenation of its fields, *)
(* no field holds what begins the next one, and a host is there where one  *)
(* is needed.                                                              *)
UrlIsItsFields == Url!TypeOK /\ Url!FieldsMakeUrl /\ Url!FieldsArePure /\ Url!HostIsPresent
=============================================================================
