----------------------------- MODULE MCRequest ------------------------------
\* Request with the callbacks a client may give, and an idle timeout.
EXTENDS IdleTimeout

Shape(methods, writers, readers, responses) ==
  [method : methods, complete : BOOLEAN, response : responses, writer : writers,
   progress : {"none", "user"}, reader : readers]

\* Every way set_request takes, with and without the callbacks it goes with
MCMethods(readers, responses) ==
  Shape({"PUT"}, BOOLEAN, readers, responses)
  \cup Shape({"GET", "DELETE"}, {FALSE}, readers, responses)
  \cup Shape({"other"}, BOOLEAN, readers, responses)

\* Requests with an idle timeout, which send, receive, or both
MCIdle ==
  [method : {"PUT", "GET"}, complete : BOOLEAN, response : {FALSE}, writer : {TRUE},
   progress : {"idle"}, reader : {"other"}]

\* A data channel reader comes with a response callback
MCShapes ==
  MCMethods({"none", "other", "multipart"}, BOOLEAN)
  \cup Shape({"GET"}, {FALSE}, {"gridftp"}, {TRUE})
  \cup MCIdle

\* A data channel reader alone
MCReaderOnly == Shape({"GET"}, {FALSE}, {"gridftp"}, {FALSE})
=============================================================================
