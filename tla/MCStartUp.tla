---- MODULE MCStartUp ----
(***************************************************************************)
(* A job and a page: both sync, or the page answers, over ten files.       *)
(***************************************************************************)
EXTENDS StartUp, TLC

MCProcs == {"job", "page"}
MCJobs == {{"job", "page"}, {"job"}}

Block(provider, model) == [provider |-> provider, model |-> model, key |-> ""]
OpenAI == Block("openai", "small")
File(embeddings, llm, name, sparse, key, host) ==
  [embeddings |-> embeddings, llm |-> llm,
   store |-> [provider |-> "", name |-> name, sparse |-> sparse, key |-> key,
              host |-> host],
   sources |-> {"local"}]

Hosted  == File(OpenAI, Block("google", "flash"), "docs", FALSE, "", "")
Hybrid  == File(OpenAI, OpenAI, "docs", TRUE, "${PINECONE_API_KEY}", "")
LocalTags == File(Block("", "nomic-embed-text:latest"), Block("", ""), "docs", FALSE, "k", "")
LocalModels == File(Block("", ""), OpenAI, "docs", FALSE, "", "")
LocalStore == File(OpenAI, Block("ollama", "llama3.1:8b"), "docs", FALSE, "",
                   "http://localhost:5080")
Shouted == File(Block("OpenAI", "small"), OpenAI, "docs", FALSE, "", "")
Nameless == File(OpenAI, OpenAI, "", FALSE, "", "")
Mistyped == [Hosted EXCEPT !.llm.provider = "opnai"]
Foreign == [Hosted EXCEPT !.store.provider = "qdrant"]
Custom == [Hosted EXCEPT !.sources = {"awsdocs_git", "sharepoint"}]

MCYamls == {Hosted, Hybrid, LocalTags, LocalModels, LocalStore, Shouted, Nameless,
            Mistyped, Foreign, Custom}

MCLower == [s \in {"ollama", "openai", "google", "huggingface", "opnai", "OpenAI"} |->
              IF s = "OpenAI" THEN "openai" ELSE s]
MCRefers == [s \in {"${PINECONE_API_KEY}"} |-> "PINECONE_API_KEY"]
MCTagged == [m \in {"nomic-embed-text:latest", "llama3.1:8b"} |-> m]
              @@ ("nomic-embed-text" :> "nomic-embed-text:latest")
MCDimension == [m \in {"nomic-embed-text", "nomic-embed-text:latest"} |-> 2]
                 @@ [small |-> 1]

Nothing == [v \in Vars |-> "Unset"]
Copied == [Nothing EXCEPT !["OPENAI_API_KEY"] = ""]  \* one line is not filled in
MCDotEnvs == {Copied}
MCExports ==
  [p \in MCProcs |->
    IF p = "job"
      THEN {[Nothing EXCEPT !["OPENAI_API_KEY"] = ""],
            [Nothing EXCEPT !["RAG_SKIP_READINESS_CHECK"] = "1",
                            !["PINECONE_API_KEY"] = "k"]}
      ELSE {[Nothing EXCEPT !["PINECONE_INDEX_NAME"] = "other"]}]

MCIndexes == {"docs", "other", "rag-docs"}
NoIndexes == [n \in MCIndexes |-> NoIndex]
Old == [metric |-> "cosine", dim |-> 1, written |-> {}]
MCOldIndexes == {NoIndexes, [NoIndexes EXCEPT !["docs"] = Old]}
====
